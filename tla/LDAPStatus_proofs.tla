------------------------- MODULE LDAPStatus_proofs --------------------------
(***************************************************************************)
(* What a user sees of the object reconciler: no worker panics and no      *)
(* object is marked Failed while nothing goes away, and Ready tells the    *)
(* truth.                                                                  *)
(***************************************************************************)
EXTENDS LDAPObject_proofs

-----------------------------------------------------------------------------
(***************************************************************************)
(* What the object reconciler promises while nothing goes away: no worker  *)
(* panics, whatever is edited and whatever fails; and where nothing fails  *)
(* and nothing is renamed or moved, no object becomes Failed.  What a      *)
(* worker has seen in a cache then stays true.  The first argument is      *)
(* about the versions of an object that are not leaving and whose owner is *)
(* there (Living), the second about the versions that are Ready only where *)
(* slapd has the entry (Steady): the more exists, the more there are.      *)
(***************************************************************************)

(* Neither objects nor the directory are deleted. *)
NothingGoes == Limits["delete"] = 0 /\ Limits["directoryLoss"] = 0

(* Whatever specs its objects are given, no parent is a descendant of its    *)
(* child, and the reconciler can climb from any object to the top.           *)
Heights(height) ==
    /\ height \in [Objects -> 1 .. MaxDepth]
    /\ \A o \in Objects : \A spec \in Specs[o] :
          spec.parent \in Objects => height[spec.parent] < height[o]

Treelike == \E height : Heights(height)

(* All versions of all objects, of which the ones of o are in G[o]. *)
ApiWithin(G) ==
    \A o \in Objects : /\ store[o] \in G[o] \cup {None}
                       /\ cache[o] \in G[o] \cup {None}
                       /\ watch[o] \in Seq(G[o])

Owners == LiveOwners(directory) \cup {None}

(* A version of o that is not leaving and that the garbage collector spares. *)
Lives(o, v) == ~v.deleting /\ store[o] # None /\ v.uid = store[o].uid /\ v.owner \in Owners

Living == [o \in Objects |-> {v \in VersionsOf(o) : Lives(o, v)}]

(* What a worker may rely on. *)
Climbs(w, height) ==
    /\ w.pc # "idle" => ~w.obj.deleting
    /\ w.pc \notin {"deleteEntry", "removeFinalizer"}
    /\ w.pc = "resolveDirectory" => directory # None
    /\ w.pc \in {"resolveDirectory", "resolveParent"} => Resolves(w.obj.spec.parent)
    /\ w.pc \in {"resolveParent", "getDistinguishedName", "setOwner"}
          => w.owner \in LiveOwners(directory)
    /\ (w.pc = "getDistinguishedName" /\ w.climb \in Objects)
          => Len(w.dn) + height[w.climb] <= MaxDepth

GrowInv(height) == ApiWithin(Living) /\ \A k \in Kinds : Climbs(worker[k], height)

-----------------------------------------------------------------------------
(* The API server and the informers.                                       *)

(* A version v of o is published, or nothing is. *)
Publishes(o, v) == (Publish(o, v) \/ Write(o, v)) /\ UNCHANGED cache

LEMMA PublishWithin ==
    ASSUME ApiSound, NEW G, ApiWithin(G), \A x \in Objects : None \notin G[x],
           NEW o \in Objects, NEW v \in G[o], Publishes(o, v)
    PROVE  /\ \A x \in Objects : /\ store'[x] \in G[x] \cup {None}
                                 /\ cache'[x] \in G[x] \cup {None}
                                 /\ watch'[x] \in Seq(G[x])
           /\ store'[o] = v /\ \A x \in Objects \ {o} : store'[x] = store[x]
<1>1. CASE UNCHANGED <<store, watch>> /\ v = store[o]
  BY <1>1 DEF Publishes, ApiWithin
<1>2. CASE Publish(o, v)
  <2>1. /\ store' = [store EXCEPT ![o] = v]
        /\ watch' = [watch EXCEPT ![o] = Append(watch[o], v)]
        /\ DOMAIN store = Objects /\ DOMAIN watch = Objects
    BY <1>2 DEF Publish, ApiSound
  <2>2. PICK w \in Seq(G[o]) : w = watch[o]
    BY DEF ApiWithin
  <2>3. Append(w, v) \in Seq(G[o])
    OBVIOUS
  <2> QED
    BY <2>1, <2>2, <2>3 DEF Publishes, ApiWithin
<1> QED
  BY <1>1, <1>2 DEF Publishes, Write

LEMMA SyncWithin ==
    ASSUME ApiSound, NEW G, ApiWithin(G), NEW o \in Objects, Sync(o)
    PROVE  /\ \A x \in Objects : /\ store'[x] \in G[x] \cup {None}
                                 /\ cache'[x] \in G[x] \cup {None}
                                 /\ watch'[x] \in Seq(G[x])
           /\ cache'[o] \in G[o] /\ \A x \in Objects \ {o} : cache'[x] = cache[x]
<1>1. PICK w \in Seq(G[o]) : w = watch[o]
  BY DEF ApiWithin
<1>2. w # <<>>
  BY <1>1 DEF Sync
<1>3. Head(w) \in G[o] /\ Tail(w) \in Seq(G[o])
  BY <1>2
<1>4. /\ cache' = [cache EXCEPT ![o] = Head(w)] /\ watch' = [watch EXCEPT ![o] = Tail(w)]
      /\ store' = store /\ DOMAIN cache = Objects /\ DOMAIN watch = Objects
  BY <1>1 DEF Sync, ApiSound
<1> QED
  BY <1>3, <1>4 DEF ApiWithin

LEMMA RestartWithin ==
    ASSUME NEW G, ApiWithin(G), ProcessStarts
    PROVE  \A x \in Objects : /\ store'[x] \in G[x] \cup {None}
                              /\ cache'[x] \in G[x] \cup {None}
                              /\ watch'[x] \in Seq(G[x])
BY DEF ApiWithin, ProcessStarts

(* Nobody has less than before: what exists stays what it is, and so does    *)
(* what the cache shows.                                                     *)
Grows ==
    /\ \A o \in Objects : /\ store[o] # None => store'[o] # None /\ store'[o].uid = store[o].uid
                          /\ cache[o] # None => cache'[o] # None
    /\ directory # None => directory' # None /\ directory'.uid = directory.uid

LEMMA OwnersGrow ==
    ASSUME Grows
    PROVE  /\ LiveOwners(directory) \subseteq LiveOwners(directory)'
           /\ \A p : Resolves(p) => Resolves(p)'
<1>1. ASSUME NEW x \in LiveOwners(directory)
      PROVE  x \in LiveOwners(directory)'
  <2>1. CASE \E o \in Objects : store[o] # None /\ x = [name |-> o, uid |-> store[o].uid]
    BY <2>1 DEF Grows, LiveOwners
  <2>2. CASE directory # None /\ x = [name |-> Directory, uid |-> directory.uid]
    BY <2>2 DEF Grows, LiveOwners
  <2> QED
    BY <1>1, <2>1, <2>2 DEF LiveOwners
<1>2. \A p : Resolves(p) => Resolves(p)'
  BY DEF Grows, Resolves
<1> QED
  BY <1>1, <1>2

(* Versions a step may publish. *)
Newer(o, v) ==
    /\ v \in VersionsOf(o) /\ ~v.deleting /\ v.owner \in Owners
    /\ store[o] # None => v.uid = store[o].uid

ApiMoves ==
    \/ UNCHANGED <<store, cache, watch>>
    \/ \E o \in Objects : \E v : Newer(o, v) /\ Publishes(o, v)
    \/ \E o \in Objects : Sync(o)
    \/ ProcessStarts

LEMMA LivingVersions ==
    ASSUME NEW o \in Objects
    PROVE  /\ Living[o] = {v \in VersionsOf(o) : Lives(o, v)}
           /\ None \notin Living[o]
BY VersionParts DEF Living

LEMMA ApiGrows ==
    ASSUME ApiSound, ApiWithin(Living), ApiMoves,
           directory # None => directory' # None /\ directory'.uid = directory.uid
    PROVE  Grows
<1>1. ASSUME NEW o \in Objects
      PROVE  /\ store[o] # None => store'[o] # None /\ store'[o].uid = store[o].uid
             /\ cache[o] # None => cache'[o] # None
  <2>1. cache[o] # None => store[o] # None
    BY LivingVersions DEF ApiWithin, Lives
  <2>2. ASSUME NEW x \in Objects, NEW v, Newer(x, v), Publishes(x, v)
        PROVE  /\ store'[x] = v /\ v # None
               /\ cache' = cache /\ \A y \in Objects \ {x} : store'[y] = store[y]
    BY <2>2, VersionParts DEF Newer, Publishes, Publish, Write, ApiSound
  <2>3. ASSUME NEW x \in Objects, NEW v, Newer(x, v), Publishes(x, v)
        PROVE  /\ store[o] # None => store'[o] # None /\ store'[o].uid = store[o].uid
               /\ cache[o] # None => cache'[o] # None
    BY <2>2, <2>3 DEF Newer
  <2>4. ASSUME NEW x \in Objects, Sync(x)
        PROVE  store' = store /\ (cache[o] # None => cache'[o] # None)
    <3>1. PICK G : G = Living
      OBVIOUS
    <3>2. cache'[x] \in G[x] /\ \A y \in Objects \ {x} : cache'[y] = cache[y]
      BY <2>4, <3>1, SyncWithin
    <3>3. None \notin G[x]
      BY <3>1, LivingVersions
    <3> QED
      BY <2>4, <3>2, <3>3 DEF Sync
  <2>5. ProcessStarts => store' = store /\ cache' = store
    BY DEF ProcessStarts
  <2> QED
    BY <2>1, <2>3, <2>4, <2>5 DEF ApiMoves
<1> QED
  BY <1>1 DEF Grows

LEMMA LivingStay ==
    ASSUME ApiSound, ApiWithin(Living), ApiMoves, Grows
    PROVE  ApiWithin(Living)'
<1>1. PICK G : G = Living'
  OBVIOUS
<1>2. ASSUME NEW o \in Objects
      PROVE  /\ G[o] = {v \in VersionsOf(o) : Lives(o, v)'}
             /\ None \notin G[o] /\ Living[o] \subseteq G[o]
  <2>1. G[o] = {v \in VersionsOf(o) : Lives(o, v)'}
    BY <1>1 DEF Living
  <2>2. \A v \in VersionsOf(o) : Lives(o, v) => Lives(o, v)'
    BY OwnersGrow DEF Lives, Grows, Owners
  <2> QED
    BY <2>1, <2>2, LivingVersions, VersionParts
<1>3. ApiWithin(G)
  <2>1. ASSUME NEW o \in Objects
        PROVE  watch[o] \in Seq(G[o])
    BY <1>2, SeqMonotonic DEF ApiWithin
  <2> QED
    BY <1>2, <2>1 DEF ApiWithin
<1>4. CASE UNCHANGED <<store, cache, watch>>
  BY <1>1, <1>3, <1>4 DEF ApiWithin
<1>5. ASSUME NEW o \in Objects, NEW v, Newer(o, v), Publishes(o, v)
      PROVE  ApiWithin(Living)'
  <2>1. store'[o] = v /\ v # None
    BY <1>5, VersionParts DEF Newer, Publishes, Publish, Write, ApiSound
  <2>2. v \in G[o]
    BY <1>2, <1>5, <2>1, OwnersGrow DEF Newer, Lives, Owners
  <2> QED
    BY <1>1, <1>2, <1>3, <1>5, <2>2, PublishWithin DEF ApiWithin
<1>6. ASSUME NEW o \in Objects, Sync(o)
      PROVE  ApiWithin(Living)'
  BY <1>1, <1>3, <1>6, SyncWithin DEF ApiWithin
<1>7. CASE ProcessStarts
  BY <1>1, <1>3, <1>7, RestartWithin DEF ApiWithin
<1> QED
  BY <1>4, <1>5, <1>6, <1>7 DEF ApiMoves

-----------------------------------------------------------------------------
(* A step that keeps everybody climbing.                                   *)

LEMMA ClimbsStay ==
    ASSUME Grows
    PROVE  \A w, height : Climbs(w, height) => Climbs(w, height)'
<1>1. directory # None => directory' # None
  BY DEF Grows
<1> QED
  BY <1>1, OwnersGrow DEF Climbs

LEMMA IdleClimbs == \A height : Climbs(Idle, height)
BY IdleSound DEF Climbs

(* What one worker does, or the environment. *)
StepGrows(height) ==
    /\ ApiMoves
    /\ directory # None => directory' # None /\ directory'.uid = directory.uid
    /\ \A k \in Kinds : \E w : worker'[k] = w /\ Climbs(w, height)

LEMMA GrowKeeps ==
    ASSUME NEW height, ApiSound, GrowInv(height), StepGrows(height)
    PROVE  GrowInv(height)'
<1>1. Grows
  BY ApiGrows DEF GrowInv, StepGrows
<1>2. ApiWithin(Living)'
  BY <1>1, LivingStay DEF GrowInv, StepGrows
<1>3. ASSUME NEW k \in Kinds
      PROVE  Climbs(worker[k], height)'
  <2>1. PICK w : worker'[k] = w /\ Climbs(w, height)
    BY DEF StepGrows
  <2>2. Climbs(w, height)'
    BY <1>1, <2>1, ClimbsStay
  <2>3. Resolves(w.obj.spec.parent)' => Resolves(worker[k].obj.spec.parent)'
    BY <2>1
  <2> QED
    BY <2>1, <2>2 DEF Climbs, Resolves
<1> QED
  BY <1>2, <1>3 DEF GrowInv

(* Worker k becomes w, and the others go on. *)
LEMMA WorkerGrows ==
    ASSUME NEW height, GrowInv(height), ApiMoves, UNCHANGED directory,
           NEW k \in Kinds, NEW w, Climbs(w, height),
           worker' = [worker EXCEPT ![k] = w], DOMAIN worker = Kinds
    PROVE  StepGrows(height)
<1>1. ASSUME NEW j \in Kinds
      PROVE  \E n : worker'[j] = n /\ Climbs(n, height)
  BY <1>1 DEF GrowInv
<1> QED
  BY <1>1 DEF StepGrows

LEMMA FinishGrows ==
    ASSUME NEW height, GrowInv(height), ApiMoves, UNCHANGED directory,
           NEW k \in Kinds, NEW requeue, Finish(k, requeue), DOMAIN worker = Kinds
    PROVE  StepGrows(height)
BY WorkerGrows, IdleClimbs DEF Finish

LEMMA ContinueGrows ==
    ASSUME NEW height, GrowInv(height), ApiMoves, UNCHANGED directory,
           NEW k \in Kinds, NEW w, Climbs(w, height), Continue(k, w), DOMAIN worker = Kinds
    PROVE  StepGrows(height)
BY WorkerGrows DEF Continue

LEMMA MarkingGrows ==
    ASSUME NEW height, GrowInv(height), ApiMoves, UNCHANGED directory,
           NEW k \in Kinds, DOMAIN worker = Kinds, WorkersSound, worker[k].pc # "idle",
           \E phase, requeue : Continue(k, Marking(worker[k], phase, requeue))
    PROVE  StepGrows(height)
<1>1. PICK phase, requeue : Continue(k, Marking(worker[k], phase, requeue))
  OBVIOUS
<1>2. PICK n : n = Marking(worker[k], phase, requeue)
  OBVIOUS
<1>3. n.pc = "mark" /\ n.obj = worker[k].obj
  BY <1>2 DEF Marking, WorkersSound, Worker
<1>4. ~worker[k].obj.deleting
  BY DEF GrowInv, Climbs
<1>5. Climbs(n, height)
  BY <1>3, <1>4 DEF Climbs
<1> QED
  BY <1>1, <1>2, <1>5, ContinueGrows

-----------------------------------------------------------------------------
(* The steps of Reconcile.                                                 *)

(* What a worker at work may rely on. *)
LEMMA GrowAtWork ==
    ASSUME NEW height, ReconcilerSound, GrowInv(height), NEW k \in Kinds, worker[k].pc # "idle"
    PROVE  /\ worker[k] \in Worker /\ DOMAIN worker = Kinds /\ WorkersSound /\ ApiSound
           /\ worker[k].key \in Objects /\ worker[k].obj \in VersionsOf(worker[k].key)
           /\ ~worker[k].obj.deleting /\ Climbs(worker[k], height)
           /\ store[worker[k].key] \in Living[worker[k].key] \cup {None}
           /\ cache[worker[k].key] \in Living[worker[k].key] \cup {None}
<1>1. DOMAIN worker = Kinds /\ WorkersSound /\ ApiSound
  BY DEF ReconcilerSound, WorkersSound
<1>2. Climbs(worker[k], height)
  BY DEF GrowInv
<1> QED
  BY <1>1, <1>2, AtWork DEF Climbs, GrowInv, ApiWithin

(* A version of a living object is newer if it keeps what matters. *)
LEMMA NewerVersion ==
    ASSUME NEW o \in Objects, store[o] \in Living[o], NEW v \in VersionsOf(o),
           v.uid = store[o].uid, v.deleting = store[o].deleting, v.owner \in Owners
    PROVE  Newer(o, v)
BY LivingVersions DEF Newer, Lives

LEMMA AddFinalizerGrows ==
    ASSUME NEW height, ReconcilerSound, GrowInv(height), NEW k \in Kinds, AddFinalizer(k)
    PROVE  StepGrows(height)
<1>w. PICK w : w = worker[k]
  OBVIOUS
<1>o. PICK o : o = w.key
  OBVIOUS
<1>1. worker[k].pc # "idle" /\ UNCHANGED directory /\ UNCHANGED cache
  BY DEF AddFinalizer, At, environment
<1>2. /\ w \in Worker /\ DOMAIN worker = Kinds /\ o \in Objects /\ ApiSound
      /\ store[o] \in Living[o] \cup {None} /\ cache[o] \in Living[o] \cup {None}
  BY <1>w, <1>o, <1>1, GrowAtWork
<1>3. ASSUME NEW v \in VersionsOf(o), ~v.deleting
      PROVE  Climbs([To(w, "resolveReferences") EXCEPT !.obj = v], height)
  <2>1. PICK n : n = [To(w, "resolveReferences") EXCEPT !.obj = v]
    OBVIOUS
  <2>2. n.pc = "resolveReferences" /\ n.obj = v
    BY <1>2, <2>1 DEF To, Worker
  <2> QED
    BY <1>3, <2>1, <2>2 DEF Climbs
<1>4. CASE /\ cache[o] # None
           /\ Continue(k, [To(w, "resolveReferences") EXCEPT !.obj = cache[o]])
           /\ UNCHANGED <<store, watch>>
  <2>1. cache[o] \in VersionsOf(o) /\ ~cache[o].deleting
    BY <1>2, <1>4, LivingVersions DEF Lives
  <2>2. ApiMoves
    BY <1>1, <1>4 DEF ApiMoves
  <2> QED
    BY <1>1, <1>2, <1>3, <1>4, <2>1, <2>2, ContinueGrows
<1>5. CASE /\ store[o] # None
           /\ LET new == [store[o] EXCEPT !.finalizer = TRUE]
              IN  /\ Write(o, new)
                  /\ Continue(k, [To(w, "resolveReferences") EXCEPT !.obj = new])
  <2>1. PICK s : s = store[o]
    OBVIOUS
  <2>2. s \in VersionsOf(o) /\ s \in Living[o] /\ ~s.deleting /\ s.owner \in Owners
    BY <1>2, <1>5, <2>1, LivingVersions DEF Lives
  <2>3. PICK new : new = [s EXCEPT !.finalizer = TRUE]
    OBVIOUS
  <2>4. new \in VersionsOf(o) /\ new.uid = s.uid /\ new.deleting = s.deleting /\ new.owner = s.owner
    BY <2>2, <2>3 DEF VersionsOf, Version
  <2>5. Newer(o, new)
    BY <1>2, <2>1, <2>2, <2>4, NewerVersion
  <2>6. ApiMoves
    BY <1>1, <1>2, <1>5, <2>1, <2>3, <2>5 DEF ApiMoves, Publishes
  <2>7. Climbs([To(w, "resolveReferences") EXCEPT !.obj = new], height)
    BY <1>3, <2>2, <2>4
  <2> QED
    BY <1>1, <1>2, <1>5, <2>1, <2>3, <2>6, <2>7, ContinueGrows
<1>6. CASE Finish(k, TRUE) /\ UNCHANGED <<store, watch>>
  <2>1. ApiMoves
    BY <1>1, <1>6 DEF ApiMoves
  <2> QED
    BY <1>1, <1>2, <1>6, <2>1, FinishGrows
<1> QED
  BY <1>w, <1>o, <1>4, <1>5, <1>6 DEF AddFinalizer, Unpatchable

LEMMA ResolveReferencesGrows ==
    ASSUME NEW height, ReconcilerSound, GrowInv(height), NEW k \in Kinds, ResolveReferences(k)
    PROVE  StepGrows(height)
<1>w. PICK w : w = worker[k]
  OBVIOUS
<1>1. worker[k].pc # "idle" /\ UNCHANGED directory /\ ApiMoves
  BY DEF ResolveReferences, At, environment, ApiMoves
<1>2. w \in Worker /\ DOMAIN worker = Kinds /\ WorkersSound /\ ~w.obj.deleting
  BY <1>w, <1>1, GrowAtWork
<1>3. CASE Resolvable(w.obj.spec) /\ Continue(k, To(w, "resolveDirectory"))
  <2>1. PICK n : n = To(w, "resolveDirectory")
    OBVIOUS
  <2>2. n.pc = "resolveDirectory" /\ n.obj = w.obj
    BY <1>2, <2>1 DEF To, Worker
  <2>3. Climbs(n, height)
    BY <1>2, <1>3, <2>2 DEF Climbs, Resolvable, TreeResolves
  <2> QED
    BY <1>1, <1>2, <1>3, <2>1, <2>3, ContinueGrows
<1>4. CASE MarkPending(k)
  BY <1>1, <1>2, <1>4, MarkingGrows DEF MarkPending
<1> QED
  BY <1>w, <1>2, <1>3, <1>4 DEF ResolveReferences, Unresolved

LEMMA ResolveDirectoryGrows ==
    ASSUME NEW height, ReconcilerSound, GrowInv(height), NEW k \in Kinds, ResolveDirectory(k)
    PROVE  StepGrows(height)
<1>w. PICK w : w = worker[k]
  OBVIOUS
<1>d. PICK d : d = [name |-> Directory, uid |-> directory.uid]
  OBVIOUS
<1>1. worker[k].pc = "resolveDirectory" /\ UNCHANGED directory /\ ApiMoves /\ directory # None
  BY DEF ResolveDirectory, At, environment, ApiMoves
<1>2. /\ w \in Worker /\ DOMAIN worker = Kinds /\ WorkersSound
      /\ ~w.obj.deleting /\ Resolves(w.obj.spec.parent)
  BY <1>w, <1>1, GrowAtWork DEF Climbs
<1>3. CASE MarkPending(k)
  BY <1>1, <1>2, <1>3, MarkingGrows DEF MarkPending
<1>4. CASE Continue(k, [To(w, "resolveParent") EXCEPT !.owner = d])
  <2>1. PICK n : n = [To(w, "resolveParent") EXCEPT !.owner = d]
    OBVIOUS
  <2>2. n.pc = "resolveParent" /\ n.obj = w.obj /\ n.owner = d
    BY <1>2, <2>1 DEF To, Worker
  <2>3. d \in LiveOwners(directory)
    BY <1>d, <1>1 DEF LiveOwners
  <2>4. Climbs(n, height)
    BY <1>2, <2>2, <2>3 DEF Climbs
  <2> QED
    BY <1>1, <1>2, <1>4, <2>1, <2>4, ContinueGrows
<1> QED
  BY <1>w, <1>d, <1>3, <1>4 DEF ResolveDirectory

(* The climb to the top begins below where the object is. *)
LEMMA NamedClimbs ==
    ASSUME NEW height, Heights(height), NEW w \in Worker, w.key \in Objects,
           w.obj \in VersionsOf(w.key), ~w.obj.deleting, NEW owner \in LiveOwners(directory)
    PROVE  LET n == [Named(w) EXCEPT !.owner = owner]
           IN  /\ Climbs(n, height)
               /\ w.owner = owner => n = Named(w)
<1>1. PICK dn : dn = <<RDNOf(w.key, w.obj)>>
  OBVIOUS
<1>2. Len(dn) = 1
  BY <1>1
<1>3. PICK n : n = [Named(w) EXCEPT !.owner = owner]
  OBVIOUS
<1>4. /\ n.pc = "getDistinguishedName" /\ n.obj = w.obj /\ n.owner = owner
      /\ n.dn = dn /\ n.climb = w.obj.spec.parent
  BY <1>1, <1>3 DEF Named, To, Worker
<1>5. w.owner = owner => n = Named(w)
  BY <1>3 DEF Named, To, Worker
<1>6. PICK p, o : p = w.obj.spec.parent /\ o = w.key
  OBVIOUS
<1>7. p \in Objects => height[p] < height[o]
  BY <1>6, VersionParts DEF Heights
<1>8. p \in Objects => 1 + height[p] <= MaxDepth
  <2>1. p \in Objects => height[p] \in 1 .. MaxDepth /\ height[o] \in 1 .. MaxDepth
    BY <1>6 DEF Heights
  <2> QED
    BY <1>7, <2>1, BoundsAssumption
<1>9. (n.pc = "getDistinguishedName" /\ n.climb \in Objects)
         => Len(n.dn) + height[n.climb] <= MaxDepth
  BY <1>2, <1>4, <1>6, <1>8
<1> QED
  BY <1>3, <1>4, <1>5, <1>9 DEF Climbs

LEMMA ResolveParentGrows ==
    ASSUME NEW height, Heights(height), ReconcilerSound, GrowInv(height),
           NEW k \in Kinds, ResolveParent(k)
    PROVE  StepGrows(height)
<1>w. PICK w : w = worker[k]
  OBVIOUS
<1>p. PICK p : p = w.obj.spec.parent
  OBVIOUS
<1>1. worker[k].pc = "resolveParent" /\ UNCHANGED directory /\ ApiMoves
  BY DEF ResolveParent, At, environment, ApiMoves
<1>2. /\ w \in Worker /\ DOMAIN worker = Kinds /\ WorkersSound /\ w.key \in Objects
      /\ w.obj \in VersionsOf(w.key) /\ ~w.obj.deleting
      /\ Resolves(p) /\ w.owner \in LiveOwners(directory)
  BY <1>w, <1>p, <1>1, GrowAtWork DEF Climbs
<1>3. CASE Continue(k, Named(w))
  <2>1. PICK owner \in LiveOwners(directory) : owner = w.owner
    BY <1>2
  <2>2. Climbs(Named(w), height)
    BY <1>2, <2>1, NamedClimbs
  <2> QED
    BY <1>1, <1>2, <1>3, <2>2, ContinueGrows
<1>4. CASE MarkPending(k) \/ MarkFailed(k, TRUE)
  BY <1>1, <1>2, <1>4, MarkingGrows DEF MarkPending, MarkFailed
<1>5. CASE p \in Objects /\ cache[p] = None
  BY <1>2, <1>5 DEF Resolves
<1>6. CASE p \in Objects /\ cache[p] # None /\ Continue(k, [Named(w) EXCEPT !.owner = ParentOwner(p)])
  <2>1. PICK owner : owner = ParentOwner(p)
    OBVIOUS
  <2>2. cache[p] \in Living[p]
    BY <1>6 DEF GrowInv, ApiWithin
  <2>3. store[p] # None /\ cache[p].uid = store[p].uid
    BY <1>6, <2>2, LivingVersions DEF Lives
  <2>4. owner \in LiveOwners(directory)
    BY <1>6, <2>1, <2>3 DEF LiveOwners, ParentOwner
  <2>5. Climbs([Named(w) EXCEPT !.owner = owner], height)
    BY <1>2, <2>4, NamedClimbs
  <2> QED
    BY <1>1, <1>2, <1>6, <2>1, <2>5, ContinueGrows
<1> QED
  BY <1>w, <1>p, <1>3, <1>4, <1>5, <1>6 DEF ResolveParent

LEMMA GetDistinguishedNameGrows ==
    ASSUME NEW height, Heights(height), ReconcilerSound, GrowInv(height),
           NEW k \in Kinds, GetDistinguishedName(k)
    PROVE  StepGrows(height)
<1>w. PICK w : w = worker[k]
  OBVIOUS
<1>p. PICK p : p = w.climb
  OBVIOUS
<1>1. worker[k].pc = "getDistinguishedName" /\ UNCHANGED directory /\ ApiMoves
  BY DEF GetDistinguishedName, At, environment, ApiMoves
<1>2. /\ w \in Worker /\ DOMAIN worker = Kinds /\ ~w.obj.deleting
      /\ w.owner \in LiveOwners(directory)
      /\ p \in Objects => Len(w.dn) + height[p] <= MaxDepth
  BY <1>w, <1>p, <1>1, GrowAtWork DEF Climbs
<1>3. CASE Finish(k, TRUE)
  BY <1>1, <1>2, <1>3, FinishGrows
<1>4. CASE p \in Objects /\ cache[p] # None /\ Continue(k, Ascended(w, p))
  <2>1. PICK q, r : q = cache[p].spec.parent /\ r = RDNOf(p, cache[p])
    OBVIOUS
  <2>2. PICK dn \in Seq(RDN) : dn = w.dn
    BY <1>2 DEF Worker
  <2>3. r \in RDN /\ cache[p] \in VersionsOf(p)
    <3>1. cache[p] \in VersionsOf(p)
      BY <1>4, LivingVersions DEF GrowInv, ApiWithin
    <3> QED
      BY <2>1, <1>4, <3>1, RDNSound
  <2>4. Len(Append(dn, r)) = Len(dn) + 1 /\ Len(dn) \in Nat
    BY <2>3
  <2>5. PICK n : n = Ascended(w, p)
    OBVIOUS
  <2>6. /\ n.pc = w.pc /\ n.obj = w.obj /\ n.owner = w.owner
        /\ n.dn = Append(dn, r) /\ n.climb = q
    BY <1>2, <2>1, <2>2, <2>5 DEF Ascended, Worker
  <2>7. q \in Objects => height[q] < height[p] /\ height[q] \in 1 .. MaxDepth /\ height[p] \in 1 .. MaxDepth
    BY <1>4, <2>1, <2>3, VersionParts DEF Heights
  <2>8. q \in Objects => Len(Append(dn, r)) + height[q] <= MaxDepth
    BY <1>2, <1>4, <2>2, <2>4, <2>7, BoundsAssumption
  <2>9. Climbs(n, height)
    BY <1>w, <1>1, <1>2, <2>6, <2>8 DEF Climbs
  <2> QED
    BY <1>1, <1>2, <1>4, <2>5, <2>9, ContinueGrows
<1>5. CASE Continue(k, To(w, "setOwner"))
  <2>1. PICK n : n = To(w, "setOwner")
    OBVIOUS
  <2>2. n.pc = "setOwner" /\ n.obj = w.obj /\ n.owner = w.owner
    BY <1>2, <2>1 DEF To, Worker
  <2>3. Climbs(n, height)
    BY <1>2, <2>2 DEF Climbs
  <2> QED
    BY <1>1, <1>2, <1>5, <2>1, <2>3, ContinueGrows
<1> QED
  BY <1>w, <1>p, <1>2, <1>3, <1>4, <1>5 DEF GetDistinguishedName, OnceNamed

LEMMA SetOwnerGrows ==
    ASSUME NEW height, ReconcilerSound, GrowInv(height), NEW k \in Kinds, SetOwner(k)
    PROVE  StepGrows(height)
<1>w. PICK w : w = worker[k]
  OBVIOUS
<1>o. PICK o : o = w.key
  OBVIOUS
<1>1. worker[k].pc = "setOwner" /\ UNCHANGED directory /\ UNCHANGED cache
  BY DEF SetOwner, At, environment
<1>2. /\ w \in Worker /\ DOMAIN worker = Kinds /\ o \in Objects /\ ApiSound /\ WorkersSound
      /\ w.owner \in LiveOwners(directory)
      /\ store[o] \in Living[o] \cup {None} /\ cache[o] \in Living[o] \cup {None}
  BY <1>w, <1>o, <1>1, GrowAtWork DEF Climbs
<1>3. ASSUME NEW v \in VersionsOf(o), ~v.deleting
      PROVE  Climbs([To(w, "mapToEntry") EXCEPT !.obj = v], height)
  <2>1. PICK n : n = [To(w, "mapToEntry") EXCEPT !.obj = v]
    OBVIOUS
  <2>2. n.pc = "mapToEntry" /\ n.obj = v
    BY <1>2, <2>1 DEF To, Worker
  <2> QED
    BY <1>3, <2>1, <2>2 DEF Climbs
<1>4. CASE MarkFailed(k, FALSE) /\ UNCHANGED <<store, watch>>
  <2>1. ApiMoves
    BY <1>1, <1>4 DEF ApiMoves
  <2> QED
    BY <1>1, <1>2, <1>4, <2>1, MarkingGrows DEF MarkFailed
<1>5. CASE /\ cache[o] # None
           /\ Continue(k, [To(w, "mapToEntry") EXCEPT !.obj = cache[o]])
           /\ UNCHANGED <<store, watch>>
  <2>1. cache[o] \in VersionsOf(o) /\ ~cache[o].deleting
    BY <1>2, <1>5, LivingVersions DEF Lives
  <2>2. ApiMoves
    BY <1>1, <1>5 DEF ApiMoves
  <2> QED
    BY <1>1, <1>2, <1>3, <1>5, <2>1, <2>2, ContinueGrows
<1>6. CASE /\ store[o] # None
           /\ LET new == Owned(o, w.owner)
              IN  /\ Write(o, new)
                  /\ Continue(k, [To(w, "mapToEntry") EXCEPT !.obj = new])
  <2>1. PICK s, owner : s = store[o] /\ owner = w.owner
    OBVIOUS
  <2>2. s \in VersionsOf(o) /\ s \in Living[o] /\ ~s.deleting
    BY <1>2, <1>6, <2>1, LivingVersions DEF Lives
  <2>3. PICK new : new = [s EXCEPT !.owner = owner]
    OBVIOUS
  <2>4. owner \in Owners /\ owner \in Owner \cup {None}
    BY <1>2, <2>1 DEF Owners, Worker
  <2>5. new \in VersionsOf(o) /\ new.uid = s.uid /\ new.deleting = s.deleting /\ new.owner = owner
    BY <2>2, <2>3, <2>4 DEF VersionsOf, Version
  <2>6. Newer(o, new)
    BY <1>2, <2>1, <2>2, <2>4, <2>5, NewerVersion
  <2>7. new = Owned(o, w.owner)
    BY <2>1, <2>3 DEF Owned
  <2>8. ApiMoves
    BY <1>1, <1>2, <1>6, <2>6, <2>7 DEF ApiMoves, Publishes
  <2>9. Climbs([To(w, "mapToEntry") EXCEPT !.obj = new], height)
    BY <1>3, <2>2, <2>5
  <2> QED
    BY <1>1, <1>2, <1>6, <2>7, <2>8, <2>9, ContinueGrows
<1> QED
  BY <1>w, <1>o, <1>4, <1>5, <1>6 DEF SetOwner

LEMMA MapToEntryGrows ==
    ASSUME NEW height, ReconcilerSound, GrowInv(height), NEW k \in Kinds, MapToEntry(k)
    PROVE  StepGrows(height)
<1>w. PICK w : w = worker[k]
  OBVIOUS
<1>1. worker[k].pc = "mapToEntry" /\ UNCHANGED directory /\ ApiMoves
  BY DEF MapToEntry, At, environment, ApiMoves
<1>2. w \in Worker /\ DOMAIN worker = Kinds /\ WorkersSound /\ ~w.obj.deleting
  BY <1>w, <1>1, GrowAtWork
<1>3. CASE Continue(k, To(w, "upsertEntry"))
  <2>1. PICK n : n = To(w, "upsertEntry")
    OBVIOUS
  <2>2. n.pc = "upsertEntry" /\ n.obj = w.obj
    BY <1>2, <2>1 DEF To, Worker
  <2>3. Climbs(n, height)
    BY <1>2, <2>2 DEF Climbs
  <2> QED
    BY <1>1, <1>2, <1>3, <2>1, <2>3, ContinueGrows
<1>4. CASE MarkFailed(k, FALSE)
  BY <1>1, <1>2, <1>4, MarkingGrows DEF MarkFailed
<1> QED
  BY <1>w, <1>3, <1>4 DEF MapToEntry

LEMMA CreateOrUpdateEntryGrows ==
    ASSUME NEW height, ReconcilerSound, GrowInv(height), NEW k \in Kinds, CreateOrUpdateEntry(k)
    PROVE  StepGrows(height)
<1>1. worker[k].pc = "upsertEntry" /\ UNCHANGED directory /\ ApiMoves
  BY DEF CreateOrUpdateEntry, At, environment, ApiMoves
<1>2. DOMAIN worker = Kinds /\ WorkersSound
  BY <1>1, GrowAtWork
<1>3. CASE MarkFailed(k, FALSE) \/ Continue(k, Marking(worker[k], "Ready", FALSE))
  BY <1>1, <1>2, <1>3, MarkingGrows DEF MarkFailed
<1>4. CASE Finish(k, FALSE)
  BY <1>1, <1>2, <1>4, FinishGrows
<1> QED
  BY <1>3, <1>4 DEF CreateOrUpdateEntry

LEMMA MarkGrows ==
    ASSUME NEW height, ReconcilerSound, GrowInv(height), NEW k \in Kinds, Mark(k)
    PROVE  StepGrows(height)
<1>w. PICK w : w = worker[k]
  OBVIOUS
<1>o. PICK o : o = w.key
  OBVIOUS
<1>1. worker[k].pc = "mark" /\ UNCHANGED directory /\ UNCHANGED cache
  BY DEF Mark, At, environment
<1>2. /\ w \in Worker /\ DOMAIN worker = Kinds /\ o \in Objects
      /\ store[o] \in Living[o] \cup {None}
  BY <1>w, <1>o, <1>1, GrowAtWork
<1>3. ApiMoves
  <2>1. CASE UNCHANGED <<store, watch>>
    BY <1>1, <2>1 DEF ApiMoves
  <2>2. CASE store[o] # None /\ Write(o, [store[o] EXCEPT !.status = StatusOf(w, store[o])])
    <3>1. PICK s, status : s = store[o] /\ status = StatusOf(w, store[o])
      OBVIOUS
    <3>2. s \in VersionsOf(o) /\ s \in Living[o] /\ s.owner \in Owners
      BY <1>2, <2>2, <3>1, LivingVersions DEF Lives
    <3>3. status \in Status
      BY <1>2, <3>1, <3>2, VersionParts DEF StatusOf, Status, Worker
    <3>4. PICK new : new = [s EXCEPT !.status = status]
      OBVIOUS
    <3>5. /\ new \in VersionsOf(o) /\ new.uid = s.uid
          /\ new.deleting = s.deleting /\ new.owner = s.owner
      BY <3>2, <3>3, <3>4 DEF VersionsOf, Version
    <3>6. Newer(o, new)
      BY <1>2, <3>1, <3>2, <3>5, NewerVersion
    <3> QED
      BY <1>1, <1>2, <2>2, <3>1, <3>4, <3>6 DEF ApiMoves, Publishes
  <2> QED
    BY <1>w, <1>o, <2>1, <2>2 DEF Mark, Unpatchable
<1> QED
  BY <1>1, <1>2, <1>3, FinishGrows DEF Mark

LEMMA ApiFailsGrows ==
    ASSUME NEW height, ReconcilerSound, GrowInv(height), NEW k \in Kinds, ApiFails(k)
    PROVE  StepGrows(height)
<1>1. worker[k].pc # "idle" /\ UNCHANGED directory /\ ApiMoves
  BY DEF ApiFails, environment, ApiMoves
<1>2. DOMAIN worker = Kinds /\ WorkersSound
  BY <1>1, GrowAtWork
<1>3. CASE MarkFailed(k, TRUE) \/ MarkFailed(k, FALSE)
  BY <1>1, <1>2, <1>3, MarkingGrows DEF MarkFailed
<1>4. ASSUME NEW requeue, Finish(k, requeue)
      PROVE  StepGrows(height)
  BY <1>1, <1>2, <1>4, FinishGrows
<1> QED
  BY <1>3, <1>4 DEF ApiFails

LEMMA GetGrows ==
    ASSUME NEW height, ReconcilerSound, GrowInv(height), NEW k \in Kinds, NEW o \in Objects, Get(k, o)
    PROVE  StepGrows(height)
<1>1. UNCHANGED directory /\ ApiMoves /\ DOMAIN worker = Kinds
  BY DEF Get, environment, ApiMoves, ReconcilerSound, WorkersSound
<1>2. CASE UNCHANGED worker
  BY <1>1, <1>2 DEF GrowInv, StepGrows
<1>3. CASE cache[o] # None
  <2>1. PICK v : v = cache[o]
    OBVIOUS
  <2>2. v \in VersionsOf(o) /\ ~v.deleting
    BY <1>3, <2>1, LivingVersions DEF GrowInv, ApiWithin, Lives
  <2>3. PICK n : n = [Idle EXCEPT !.key = o, !.obj = v, !.pc = FirstStep(v)]
    OBVIOUS
  <2>4. n.pc \in {"resolveReferences", "addFinalizer"} /\ n.obj = v
    BY <2>3 DEF Idle, FirstStep
  <2>5. Climbs(n, height)
    BY <2>2, <2>4 DEF Climbs
  <2>6. UNCHANGED worker \/ worker' = [worker EXCEPT ![k] = n]
    BY <2>1, <2>3 DEF Get
  <2> QED
    BY <1>1, <1>2, <2>5, <2>6, WorkerGrows
<1> QED
  BY <1>2, <1>3 DEF Get

-----------------------------------------------------------------------------
(* The environment, and the induction.                                     *)

(* The workers go on. *)
LEMMA AsideGrows ==
    ASSUME NEW height, GrowInv(height), ApiMoves, UNCHANGED worker,
           directory # None => directory' # None /\ directory'.uid = directory.uid
    PROVE  StepGrows(height)
BY DEF GrowInv, StepGrows

LEMMA UsersGrow ==
    ASSUME NEW height, NothingGoes, ReconcilerSound, GrowInv(height), NEW o \in Objects, Users(o)
    PROVE  StepGrows(height)
<1>1. UNCHANGED worker /\ UNCHANGED directory /\ UNCHANGED cache
  BY DEF Users, Create, Edit, Delete
<1>2. ~Delete(o)
  BY DEF Delete, Happens, NothingGoes, ReconcilerSound, EnvironmentSound, Events
<1>3. ASSUME NEW v, Newer(o, v), Publish(o, v)
      PROVE  StepGrows(height)
  <2>1. ApiMoves
    BY <1>1, <1>3 DEF ApiMoves, Publishes
  <2> QED
    BY <1>1, <2>1, AsideGrows
<1>4. CASE Create(o)
  <2>1. PICK spec \in Specs[o] : Publish(o, NewVersion(spec))
    BY <1>4 DEF Create
  <2>2. PICK v : v = NewVersion(spec)
    OBVIOUS
  <2>3. v \in VersionsOf(o) /\ ~v.deleting /\ v.owner = None
    BY <2>2, NewVersionSound DEF ReconcilerSound
  <2>4. Newer(o, v)
    BY <1>4, <2>3 DEF Newer, Owners, Create
  <2> QED
    BY <1>3, <2>1, <2>2, <2>4
<1>5. CASE Edit(o)
  <2>1. PICK spec \in Specs[o] : Publish(o, [store[o] EXCEPT !.spec = spec, !.generation = @ + 1])
    BY <1>5 DEF Edit
  <2>2. PICK s \in Living[o] : s = store[o]
    BY <1>5 DEF Edit, GrowInv, ApiWithin
  <2>3. s \in VersionsOf(o) /\ s.owner \in Owners
    BY <2>2, LivingVersions DEF Lives
  <2>4. PICK n : n = [s EXCEPT !.spec = spec, !.generation = @ + 1]
    OBVIOUS
  <2>5. n \in VersionsOf(o) /\ n.uid = s.uid /\ n.deleting = s.deleting /\ n.owner = s.owner
    BY ZenonT(60), <2>3, <2>4, EditedSound
  <2>6. Newer(o, n)
    BY <2>2, <2>3, <2>5, NewerVersion
  <2> QED
    BY <1>3, <2>1, <2>2, <2>4, <2>6
<1> QED
  BY <1>2, <1>4, <1>5 DEF Users

(* Nobody's owner is gone, so the garbage collector has nothing to do. *)
LEMMA NothingCollected ==
    ASSUME NEW height, GrowInv(height), NEW o \in Objects
    PROVE  ~GarbageCollect(o)
<1>1. store[o] \in Living[o] \cup {None}
  BY DEF GrowInv, ApiWithin
<1> QED
  BY <1>1, LivingVersions DEF GarbageCollect, Orphaned, Lives, Owners

(* A worker that panics has lost what it had resolved, or climbs for ever. *)
LEMMA ClimbersDontPanic ==
    ASSUME NEW height, Heights(height), ReconcilerSound, GrowInv(height), NEW k \in Kinds
    PROVE  ~Panicking(k)
<1>w. PICK w : w = worker[k]
  OBVIOUS
<1>1. Climbs(w, height)
  BY <1>w DEF GrowInv
<1>2. w.pc = "setOwner" => w.owner # None
  BY <1>1, NothingAssumption DEF Climbs, LiveOwners, Owner, ReconcilerSound, EnvironmentSound,
     DirectoryVersion, ApiSound, Version
<1>3. (w.pc = "getDistinguishedName" /\ w.climb \in Objects) => Len(w.dn) < MaxDepth
  <2>1. w \in Worker
    BY <1>w DEF ReconcilerSound, WorkersSound
  <2>2. Len(w.dn) \in Nat
    BY <2>1 DEF Worker
  <2>3. w.climb \in Objects => height[w.climb] \in 1 .. MaxDepth
    BY DEF Heights
  <2> QED
    BY <1>1, <2>2, <2>3, BoundsAssumption DEF Climbs
<1>4. w.pc = "getDistinguishedName" /\ w.climb \in Objects => ~(Len(w.dn) >= MaxDepth)
  <2>1. Len(w.dn) \in Nat
    BY <1>w DEF ReconcilerSound, WorkersSound, Worker
  <2> QED
    BY <1>3, <2>1, BoundsAssumption
<1> QED
  BY <1>w, <1>1, <1>2, <1>4 DEF Panicking, At, Climbs

LEMMA EnvironmentGrows ==
    ASSUME NEW height, NothingGoes, ReconcilerSound, GrowInv(height), Environment
    PROVE  StepGrows(height)
<1>1. ASSUME NEW o \in Objects, Resync(o)
      PROVE  StepGrows(height)
  BY <1>1, AsideGrows DEF Resync, ApiMoves
<1>2. ASSUME NEW s \in SecretRefs, SecretWritten(s) \/ SecretDeleted(s)
      PROVE  StepGrows(height)
  BY <1>2, AsideGrows DEF SecretWritten, SecretDeleted, ApiMoves, kubernetes
<1>3. CASE DirectoryChanges
  <2>1. directory # None => directory' # None /\ directory'.uid = directory.uid
    <3>1. PICK uids : /\ directory' \in [uid : uids, phase : {"Pending", "Ready"}]
                      /\ directory # None => uids = {directory.uid}
      BY <1>3 DEF DirectoryChanges
    <3>2. directory # None => directory'.uid = directory.uid
      BY <3>1
    <3>3. used["directory"] + 1 \in Nat
      BY DEF ReconcilerSound, EnvironmentSound, Events
    <3>4. directory' \in DirectoryVersion
      BY <1>3, <3>3 DEF DirectoryChanges, ReconcilerSound, EnvironmentSound, DirectoryVersion
    <3> QED
      BY <3>2, <3>4, NothingAssumption
  <2> QED
    BY <1>3, <2>1, AsideGrows DEF DirectoryChanges, ApiMoves, kubernetes
<1>4. ~DirectoryDeleted
  BY DEF DirectoryDeleted, Happens, NothingGoes, ReconcilerSound, EnvironmentSound, Events
<1>5. CASE Crash
  <2>1. ProcessStarts /\ UNCHANGED directory
    BY <1>5 DEF Crash, Restart
  <2>2. ASSUME NEW k \in Kinds
        PROVE  \E w : worker'[k] = w /\ Climbs(w, height)
    BY <2>1, IdleClimbs DEF ProcessStarts
  <2> QED
    BY <2>1, <2>2 DEF StepGrows, ApiMoves
<1>6. ASSUME NEW k \in Kinds, ClientFails(k)
      PROVE  StepGrows(height)
  BY <1>6, AsideGrows DEF ClientFails, ApiMoves, kubernetes, environment
<1> QED
  BY <1>1, <1>2, <1>3, <1>4, <1>5, <1>6, UsersGrow, ApiFailsGrows DEF Environment

LEMMA ReconcileGrows ==
    ASSUME NEW height, Heights(height), ReconcilerSound, GrowInv(height),
           NEW k \in Kinds, Reconcile(k)
    PROVE  StepGrows(height)
<1>1. ~DeleteEntry(k) /\ ~RemoveFinalizer(k)
  BY DEF GrowInv, Climbs, DeleteEntry, RemoveFinalizer, At
<1> QED
  BY <1>1, AddFinalizerGrows, ResolveReferencesGrows, ResolveDirectoryGrows,
     ResolveParentGrows, GetDistinguishedNameGrows, SetOwnerGrows, MapToEntryGrows,
     CreateOrUpdateEntryGrows, MarkGrows DEF Reconcile

LEMMA NextGrows ==
    ASSUME NEW height, Heights(height), NothingGoes, ReconcilerSound, GrowInv(height), [Next]_vars
    PROVE  StepGrows(height)
<1>1. ASSUME NEW k \in Kinds, Panic(k)
      PROVE  FALSE
  BY <1>1, ClimbersDontPanic DEF Panic
<1>2. ASSUME NEW k \in Kinds, ClientRequest(k)
      PROVE  StepGrows(height)
  BY <1>2, AsideGrows DEF ClientRequest, ApiMoves, kubernetes, environment
<1>3. ASSUME NEW o \in Objects, Sync(o) \/ GarbageCollect(o)
      PROVE  StepGrows(height)
  <2>1. Sync(o)
    BY <1>3, NothingCollected
  <2> QED
    BY <2>1, AsideGrows DEF Sync, ApiMoves, environment
<1>4. ASSUME UNCHANGED vars
      PROVE  StepGrows(height)
  <2>1. UNCHANGED <<store, cache, watch, worker, directory>>
    BY <1>4 DEF vars, kubernetes, environment
  <2> QED
    BY <2>1, AsideGrows DEF ApiMoves
<1>5. ASSUME NEW k \in Kinds, NEW o \in Objects, Get(k, o)
      PROVE  StepGrows(height)
  BY <1>5, GetGrows
<1>6. ASSUME NEW k \in Kinds, Reconcile(k)
      PROVE  StepGrows(height)
  BY <1>6, ReconcileGrows
<1>7. ASSUME Environment
      PROVE  StepGrows(height)
  BY <1>7, EnvironmentGrows
<1> QED
  BY <1>1, <1>2, <1>3, <1>4, <1>5, <1>6, <1>7 DEF Next

LEMMA InitGrows ==
    ASSUME NEW height, Init
    PROVE  GrowInv(height)
<1>i. /\ store = [o \in Objects |-> None] /\ cache = store
      /\ watch = [o \in Objects |-> <<>>] /\ worker = [k \in Kinds |-> Idle]
  BY DEF Init
<1>1. ApiWithin(Living)
  <2>1. ASSUME NEW o \in Objects
        PROVE  store[o] = None /\ cache[o] = None /\ watch[o] = <<>>
    BY <1>i, <2>1
  <2>2. \A G : <<>> \in Seq(G)
    OBVIOUS
  <2> QED
    BY <2>1, <2>2 DEF ApiWithin
<1>2. ASSUME NEW k \in Kinds
      PROVE  Climbs(worker[k], height)
  <2>1. PICK w : w = Idle
    OBVIOUS
  <2>2. worker[k] = w /\ Climbs(w, height)
    BY <1>i, <2>1, IdleClimbs
  <2> QED
    BY <2>2
<1> QED
  BY <1>1, <1>2 DEF GrowInv

(* As long as nothing that was there goes away, no worker dereferences nil   *)
(* or climbs a tree that never ends (lines 131-143, 162, 240-246): whatever  *)
(* is edited or fails, whenever the process dies and however far the caches  *)
(* are behind.  What a worker resolved once it finds again, because neither  *)
(* objects nor the directory are deleted, and the garbage collector finds no *)
(* object without its owner; and the specs users give form a tree.           *)
THEOREM NothingPanics == (NothingGoes /\ Treelike) => (Spec => []NeverPanics)
<1>1. SUFFICES ASSUME NothingGoes, Treelike
               PROVE  Spec => []NeverPanics
  OBVIOUS
<1>2. PICK height : Heights(height)
  BY <1>1 DEF Treelike
<1>3. Init => GrowInv(height)
  BY InitGrows
<1>4. ObjectInv /\ GrowInv(height) /\ [Next]_vars => GrowInv(height)'
  BY <1>1, <1>2, NextGrows, GrowKeeps DEF ObjectInv, ReconcilerSound
<1>5. ObjectInv /\ GrowInv(height) => NeverPanics
  BY <1>2, ClimbersDontPanic DEF NeverPanics, ObjectInv
<1> QED
  BY <1>3, <1>4, <1>5, ObjectInvHolds, PTL DEF Spec

-----------------------------------------------------------------------------
(* Where nothing fails either, no object becomes Failed.                   *)

(* No request fails, no process dies, and no secret disappears. *)
NothingFails == MaxFaults = 0 /\ Limits["secretLoss"] = 0

(* However an object is edited, it keeps its place in the tree, path[o], and *)
(* its secret, without which a user could not be updated (client.go:425).    *)
Places(path) ==
    /\ path \in [Objects -> DN]
    /\ \A o \in Objects : Len(path[o]) <= MaxDepth
    /\ \A o \in Objects : \A spec \in Specs[o] :
          /\ spec.parent \in Objects \cup {None}
          /\ path[o] = <<[kind |-> KindOf[o], name |-> spec.name]>> \o Upto(spec.parent, path)
          /\ KindOf[o] = User => spec.secretRef # None
          /\ \A other \in Specs[o] :
                other.parent = spec.parent /\ other.secretRef = spec.secretRef

Planned == \E path : Places(path)

InDirectory(dn) == dn \in Entries \cup {<<>>}

OwnerName(spec) == IF spec.parent = None THEN Directory ELSE spec.parent

(* A version that says Ready only of an entry that is there. *)
Steadfast(o, v, path) ==
    /\ v.status.phase # "Failed"
    /\ v.status.phase = "Ready" => path[o] \in Entries
    /\ v.owner # None => v.owner.name = OwnerName(v.spec)

Steady(path) == [o \in Objects |-> {v \in VersionsOf(o) : Steadfast(o, v, path)}]

Supplied(spec) == \A s \in SecretRefs \ {None} : spec.secretRef = s => secret[s] # None

(* What a worker knows when nothing it has seen is lost. *)
Rises(w, path) ==
    LET spec == w.obj.spec IN
    /\ w.pc # "idle" => w.key \in Objects /\ cache[w.key] # None
    /\ w.pc \in {"resolveDirectory", "resolveParent", "getDistinguishedName",
                 "setOwner", "mapToEntry"} => Supplied(spec)
    /\ w.pc = "resolveParent" => w.owner # None /\ w.owner.name = Directory
    /\ w.pc \in {"getDistinguishedName", "setOwner"}
          => w.owner # None /\ w.owner.name = OwnerName(spec)
    /\ w.pc \in {"getDistinguishedName", "setOwner", "mapToEntry"}
          => InDirectory(Upto(spec.parent, path))
    /\ w.pc = "getDistinguishedName"
          => w.climb \in Objects \cup {None} /\ w.dn \o Upto(w.climb, path) = path[w.key]
    /\ w.pc \in {"setOwner", "mapToEntry", "upsertEntry"} => w.dn = path[w.key]
    /\ w.pc = "mark" => /\ w.status # "Failed"
                        /\ w.status = "Ready" => path[w.key] \in Entries

(* A call that slapd refuses nothing: what an upsert has found stays there,  *)
(* and what it adds nobody else adds.                                        *)
CallRises(k) ==
    LET c == call[k] IN
    c.step # "idle" =>
       /\ c.entry # None /\ c.entry.name = Head(c.dn).name
       /\ k = User => c.entry.pw # None
       /\ InDirectory(Tail(c.dn))
       /\ c.step \in Upserting \cup {"returned"}
       /\ c.step = "add" => c.dn \notin Entries
       /\ c.step \in {"modify", "bind", "setPassword", "returned"} => c.dn \in Entries
       /\ c.step = "returned" => c.ok

RiseInv(path) ==
    /\ ApiWithin(Steady(path))
    /\ \A k \in Kinds : Rises(worker[k], path) /\ CallRises(k)

(* What one worker or client does, or the environment. *)
StepRises(path) ==
    /\ \/ UNCHANGED <<store, cache, watch>>
       \/ \E o \in Objects : \E v \in Steady(path)[o] : Publishes(o, v)
       \/ \E o \in Objects : Sync(o)
    /\ Entries \subseteq Entries'
    /\ \A s \in SecretRefs : secret[s] # None => secret'[s] # None
    /\ \A k \in Kinds : \E w : worker'[k] = w /\ Rises(w, path)
    /\ \A k \in Kinds : CallRises(k)'

(* The height of a place is the length of its name. *)
LEMMA PlacesHaveHeights ==
    ASSUME NEW path, Places(path)
    PROVE  Heights([o \in Objects |-> Len(path[o])])
<1>1. ASSUME NEW o \in Objects
      PROVE  path[o] \in Seq(RDN) /\ Len(path[o]) \in 1 .. MaxDepth
  <2>1. PICK s \in Seq(RDN) : s = path[o] /\ s # <<>>
    BY <1>1 DEF Places, DN
  <2>2. Len(s) \in Nat /\ Len(s) # 0
    BY <2>1
  <2> QED
    BY <2>1, <2>2, BoundsAssumption DEF Places
<1>2. ASSUME NEW o \in Objects, NEW spec \in Specs[o], spec.parent \in Objects
      PROVE  Len(path[spec.parent]) < Len(path[o])
  <2>1. PICK s, r : s \in Seq(RDN) /\ s = path[spec.parent] /\ r = [kind |-> KindOf[o], name |-> spec.name]
    BY <1>1, <1>2
  <2>2. r \in RDN
    BY <1>2, <2>1, ObjectsAssumption DEF RDN, ObjectSpec
  <2>3. path[o] = <<r>> \o s
    BY <1>2, <2>1 DEF Places, Upto
  <2>4. Len(<<r>> \o s) = 1 + Len(s) /\ Len(s) \in Nat
    BY <2>2
  <2> QED
    BY <2>1, <2>3, <2>4
<1> QED
  BY <1>1, <1>2 DEF Heights

LEMMA PlaceParts ==
    ASSUME NEW path, Places(path), NEW o \in Objects, NEW v \in VersionsOf(o)
    PROVE  /\ path[o] \in DN /\ path[o] = <<RDNOf(o, v)>> \o Upto(v.spec.parent, path)
           /\ Upto(v.spec.parent, path) \in Seq(RDN)
           /\ v.spec.parent \in Objects \cup {None}
           /\ KindOf[o] = User => v.spec.secretRef # None
           /\ Head(path[o]) = RDNOf(o, v) /\ Head(path[o]).name = v.spec.name
           /\ Tail(path[o]) = Upto(v.spec.parent, path)
           /\ \A n \in VersionsOf(o) :
                 n.spec.parent = v.spec.parent /\ n.spec.secretRef = v.spec.secretRef
<1>1. PICK p, r : p = v.spec.parent /\ r = RDNOf(o, v)
  OBVIOUS
<1>2. v.spec \in Specs[o]
  BY VersionParts
<1>3. r \in RDN /\ r.name = v.spec.name
  BY <1>1, RDNSound DEF RDNOf
<1>4. PICK s \in Seq(RDN) : s = Upto(p, path)
  <2>1. <<>> \in Seq(RDN)
    OBVIOUS
  <2>2. path \in [Objects -> DN]
    BY DEF Places
  <2>3. p \in Objects => path[p] \in Seq(RDN)
    BY <2>2 DEF DN
  <2> QED
    BY <2>1, <2>3 DEF Upto
<1>5. path[o] \in DN /\ path[o] = <<r>> \o s
  BY <1>1, <1>2, <1>4 DEF Places, RDNOf
<1>6. Head(<<r>> \o s) = r /\ Tail(<<r>> \o s) = s
  BY <1>3
<1>7. \A n \in VersionsOf(o) :
         n.spec.parent = v.spec.parent /\ n.spec.secretRef = v.spec.secretRef
  <2>1. \A spec, other \in Specs[o] :
           other.parent = spec.parent /\ other.secretRef = spec.secretRef
    BY DEF Places
  <2> QED
    BY <1>2, <2>1, VersionParts
<1> QED
  BY <1>1, <1>2, <1>3, <1>4, <1>5, <1>6, <1>7 DEF Places

-----------------------------------------------------------------------------
(* A step that keeps everybody rising.                                     *)

LEMMA SteadyVersions ==
    ASSUME NEW path, NEW o \in Objects
    PROVE  /\ Steady(path)[o] = {v \in VersionsOf(o) : Steadfast(o, v, path)}
           /\ None \notin Steady(path)[o]
BY VersionParts DEF Steady

LEMMA RisesStay ==
    ASSUME Grows, Entries \subseteq Entries',
           \A s \in SecretRefs : secret[s] # None => secret'[s] # None
    PROVE  \A w, path : Rises(w, path) => Rises(w, path)'
<1>1. \A o \in Objects : cache[o] # None => cache'[o] # None
  BY DEF Grows
<1>2. \A spec : Supplied(spec) => Supplied(spec)'
  BY DEF Supplied
<1>3. \A dn : InDirectory(dn) => InDirectory(dn)'
  BY DEF InDirectory
<1>4. ASSUME NEW w, NEW path, Rises(w, path)
      PROVE  Rises(w, path)'
  <2>1. w.pc # "idle" => w.key \in Objects /\ cache'[w.key] # None
    BY <1>1, <1>4 DEF Rises
  <2>2. Supplied(w.obj.spec) => Supplied(w.obj.spec)'
    BY <1>2
  <2>3. InDirectory(Upto(w.obj.spec.parent, path)) => InDirectory(Upto(w.obj.spec.parent, path))'
    <3>1. PICK dn : dn = Upto(w.obj.spec.parent, path)
      OBVIOUS
    <3>2. InDirectory(dn) => InDirectory(dn)'
      BY <1>3
    <3> QED
      BY <3>1, <3>2 DEF InDirectory, Upto
  <2>4. w.dn \o Upto(w.climb, path) = path[w.key] => (w.dn \o Upto(w.climb, path) = path[w.key])'
    BY DEF Upto
  <2> QED
    BY <1>4, <2>1, <2>2, <2>3, <2>4 DEF Rises
<1> QED
  BY <1>4

LEMMA SteadyStay ==
    ASSUME ApiSound, NEW path, ApiWithin(Steady(path)), StepRises(path)
    PROVE  ApiWithin(Steady(path))'
<1>1. PICK G : G = Steady(path)'
  OBVIOUS
<1>2. ASSUME NEW o \in Objects
      PROVE  None \notin G[o] /\ Steady(path)[o] \subseteq G[o]
  <2>1. G[o] = {v \in VersionsOf(o) : Steadfast(o, v, path)'}
    BY <1>1 DEF Steady
  <2>2. \A v : Steadfast(o, v, path) => Steadfast(o, v, path)'
    BY DEF Steadfast, StepRises
  <2> QED
    BY <2>1, <2>2, SteadyVersions, VersionParts
<1>3. ApiWithin(G)
  <2>1. ASSUME NEW o \in Objects
        PROVE  watch[o] \in Seq(G[o])
    BY <1>2, SeqMonotonic DEF ApiWithin
  <2> QED
    BY <1>2, <2>1 DEF ApiWithin
<1>4. CASE UNCHANGED <<store, cache, watch>>
  BY <1>1, <1>3, <1>4 DEF ApiWithin
<1>5. ASSUME NEW o \in Objects, NEW v \in Steady(path)[o], Publishes(o, v)
      PROVE  ApiWithin(Steady(path))'
  <2>1. v \in G[o]
    BY <1>2
  <2> QED
    BY <1>1, <1>2, <1>3, <1>5, <2>1, PublishWithin DEF ApiWithin
<1>6. ASSUME NEW o \in Objects, Sync(o)
      PROVE  ApiWithin(Steady(path))'
  BY <1>1, <1>3, <1>6, SyncWithin DEF ApiWithin
<1> QED
  BY <1>4, <1>5, <1>6 DEF StepRises

LEMMA RiseKeeps ==
    ASSUME ApiSound, NEW path, RiseInv(path), Grows, StepRises(path)
    PROVE  RiseInv(path)'
<1>1. ApiWithin(Steady(path))'
  BY SteadyStay DEF RiseInv
<1>2. ASSUME NEW k \in Kinds
      PROVE  Rises(worker[k], path)'
  <2>1. PICK w : worker'[k] = w /\ Rises(w, path)
    BY DEF StepRises
  <2>2. Rises(w, path)'
    BY <2>1, RisesStay DEF StepRises
  <2> QED
    BY <2>1, <2>2 DEF Rises, Supplied, InDirectory
<1> QED
  BY <1>1, <1>2 DEF RiseInv, StepRises

(* A step of worker k that leaves slapd alone. *)
Calm(path) ==
    /\ \/ UNCHANGED <<store, cache, watch>>
       \/ \E o \in Objects : \E v \in Steady(path)[o] : Publishes(o, v)
       \/ \E o \in Objects : Sync(o)
    /\ UNCHANGED <<dit, call>>
    /\ \A s \in SecretRefs : secret[s] # None => secret'[s] # None

LEMMA CalmRises ==
    ASSUME NEW path, RiseInv(path), Calm(path),
           \A k \in Kinds : \E w : worker'[k] = w /\ Rises(w, path)
    PROVE  StepRises(path)
<1>1. Entries' = Entries
  BY DEF Calm, Entries
<1>2. \A k \in Kinds : CallRises(k)'
  BY <1>1 DEF Calm, RiseInv, CallRises, InDirectory
<1> QED
  BY <1>1, <1>2 DEF Calm, StepRises

LEMMA CalmWorkerRises ==
    ASSUME NEW path, RiseInv(path), Calm(path), NEW k \in Kinds, NEW w, Rises(w, path),
           worker' = [worker EXCEPT ![k] = w], DOMAIN worker = Kinds
    PROVE  StepRises(path)
<1>1. ASSUME NEW j \in Kinds
      PROVE  \E n : worker'[j] = n /\ Rises(n, path)
  BY <1>1 DEF RiseInv
<1> QED
  BY <1>1, CalmRises

LEMMA IdleRises == \A path : Rises(Idle, path)
BY IdleSound DEF Rises

LEMMA FinishRises ==
    ASSUME NEW path, RiseInv(path), Calm(path), NEW k \in Kinds, DOMAIN worker = Kinds,
           NEW requeue, Finish(k, requeue)
    PROVE  StepRises(path)
BY CalmWorkerRises, IdleRises DEF Finish

LEMMA ContinueRises ==
    ASSUME NEW path, RiseInv(path), Calm(path), NEW k \in Kinds, DOMAIN worker = Kinds,
           NEW w, Rises(w, path), Continue(k, w)
    PROVE  StepRises(path)
BY CalmWorkerRises DEF Continue

(* The status Failed is the only one that would end the climb. *)
LEMMA MarkedRises ==
    ASSUME NEW path, NEW w \in Worker, w.pc # "idle", Rises(w, path),
           NEW phase \in {"Pending", "Ready"}, phase = "Ready" => path[w.key] \in Entries,
           NEW requeue
    PROVE  Rises(Marking(w, phase, requeue), path)
<1>1. PICK n : n = Marking(w, phase, requeue)
  OBVIOUS
<1>2. n.pc = "mark" /\ n.key = w.key /\ n.obj = w.obj /\ n.status = phase
  BY <1>1 DEF Marking, Worker
<1>3. Rises(n, path)
  BY <1>2 DEF Rises
<1> QED
  BY <1>1, <1>3

LEMMA MarkPendingRises ==
    ASSUME NEW path, RiseInv(path), Calm(path), NEW k \in Kinds, WorkersSound,
           worker[k].pc # "idle", MarkPending(k)
    PROVE  StepRises(path)
<1>1. worker[k] \in Worker /\ DOMAIN worker = Kinds /\ Rises(worker[k], path)
  BY DEF WorkersSound, RiseInv
<1>2. PICK n : n = Marking(worker[k], "Pending", TRUE)
  OBVIOUS
<1>3. Rises(n, path)
  BY <1>1, <1>2, MarkedRises
<1> QED
  BY <1>1, <1>2, <1>3, ContinueRises DEF MarkPending

-----------------------------------------------------------------------------
(* The steps of Reconcile where nothing fails.                             *)

(* What a worker at work may rely on. *)
LEMMA RiseAtWork ==
    ASSUME NEW path, ReconcilerSound, RiseInv(path), NEW k \in Kinds, worker[k].pc # "idle"
    PROVE  /\ worker[k] \in Worker /\ DOMAIN worker = Kinds /\ WorkersSound /\ ApiSound
           /\ worker[k].key \in Objects /\ KindOf[worker[k].key] = k
           /\ worker[k].obj \in VersionsOf(worker[k].key) /\ Rises(worker[k], path)
           /\ store[worker[k].key] \in Steady(path)[worker[k].key] \cup {None}
           /\ cache[worker[k].key] \in Steady(path)[worker[k].key]
<1>1. DOMAIN worker = Kinds /\ WorkersSound /\ ApiSound
  BY DEF ReconcilerSound, WorkersSound
<1>2. Rises(worker[k], path) /\ cache[worker[k].key] # None
  BY DEF RiseInv, Rises
<1> QED
  BY <1>1, <1>2, AtWork DEF RiseInv, ApiWithin

(* A patch of anything but owner and status leaves a version steady. *)
LEMMA SteadyVersion ==
    ASSUME NEW path, NEW o \in Objects, NEW s \in Steady(path)[o], NEW v \in VersionsOf(o),
           v.status = s.status, v.owner = s.owner, Places(path)
    PROVE  v \in Steady(path)[o]
<1>1. s \in VersionsOf(o) /\ Steadfast(o, s, path)
  BY SteadyVersions
<1>2. s.spec.parent = v.spec.parent
  BY <1>1, PlaceParts
<1> QED
  BY <1>1, <1>2, SteadyVersions DEF Steadfast, OwnerName

LEMMA AddFinalizerRises ==
    ASSUME NEW path, Places(path), ReconcilerSound, RiseInv(path), NEW k \in Kinds, AddFinalizer(k)
    PROVE  StepRises(path)
<1>w. PICK w : w = worker[k]
  OBVIOUS
<1>o. PICK o : o = w.key
  OBVIOUS
<1>1. worker[k].pc # "idle" /\ UNCHANGED <<secret, cache, dit, call>>
  BY DEF AddFinalizer, At, environment, clientVars
<1>2. /\ w \in Worker /\ DOMAIN worker = Kinds /\ o \in Objects /\ ApiSound
      /\ store[o] \in Steady(path)[o] \cup {None} /\ cache[o] # None
  BY <1>w, <1>o, <1>1, RiseAtWork, SteadyVersions
<1>3. ASSUME NEW v
      PROVE  Rises([To(w, "resolveReferences") EXCEPT !.obj = v], path)
  <2>1. PICK n : n = [To(w, "resolveReferences") EXCEPT !.obj = v]
    OBVIOUS
  <2>2. n.pc = "resolveReferences" /\ n.key = o
    BY <1>o, <1>2, <2>1 DEF To, Worker
  <2>3. Rises(n, path)
    BY <1>2, <2>2 DEF Rises
  <2> QED
    BY <2>1, <2>3
<1>4. CASE /\ Continue(k, [To(w, "resolveReferences") EXCEPT !.obj = cache[o]])
           /\ UNCHANGED <<store, watch>>
  <2>1. Calm(path)
    BY <1>1, <1>4 DEF Calm
  <2> QED
    BY <1>2, <1>3, <1>4, <2>1, ContinueRises
<1>5. CASE /\ store[o] # None
           /\ LET new == [store[o] EXCEPT !.finalizer = TRUE]
              IN  /\ Write(o, new)
                  /\ Continue(k, [To(w, "resolveReferences") EXCEPT !.obj = new])
  <2>1. PICK s : s = store[o]
    OBVIOUS
  <2>2. s \in Steady(path)[o] /\ s \in VersionsOf(o)
    BY <1>2, <1>5, <2>1, SteadyVersions
  <2>3. PICK new : new = [s EXCEPT !.finalizer = TRUE]
    OBVIOUS
  <2>4. new \in VersionsOf(o) /\ new.status = s.status /\ new.owner = s.owner
    BY <2>2, <2>3 DEF VersionsOf, Version
  <2>5. new \in Steady(path)[o]
    BY <1>2, <2>2, <2>4, SteadyVersion
  <2>6. Calm(path)
    BY <1>1, <1>2, <1>5, <2>1, <2>3, <2>5 DEF Calm, Publishes
  <2> QED
    BY <1>2, <1>3, <1>5, <2>1, <2>3, <2>6, ContinueRises
<1>6. CASE Finish(k, TRUE) /\ UNCHANGED <<store, watch>>
  <2>1. Calm(path)
    BY <1>1, <1>6 DEF Calm
  <2> QED
    BY <1>2, <1>6, <2>1, FinishRises
<1> QED
  BY <1>w, <1>o, <1>4, <1>5, <1>6 DEF AddFinalizer, Unpatchable

LEMMA ResolveReferencesRises ==
    ASSUME NEW height, NEW path, ReconcilerSound, GrowInv(height), RiseInv(path),
           NEW k \in Kinds, ResolveReferences(k)
    PROVE  StepRises(path)
<1>w. PICK w : w = worker[k]
  OBVIOUS
<1>1. worker[k].pc # "idle" /\ Calm(path)
  BY DEF ResolveReferences, At, environment, clientVars, Calm
<1>2. /\ w \in Worker /\ DOMAIN worker = Kinds /\ WorkersSound /\ ~w.obj.deleting
      /\ w.key \in Objects /\ cache[w.key] # None
  BY <1>w, <1>1, GrowAtWork, RiseAtWork, SteadyVersions
<1>3. CASE Resolvable(w.obj.spec) /\ Continue(k, To(w, "resolveDirectory"))
  <2>1. PICK n : n = To(w, "resolveDirectory")
    OBVIOUS
  <2>2. n.pc = "resolveDirectory" /\ n.obj = w.obj /\ n.key = w.key
    BY <1>2, <2>1 DEF To, Worker
  <2>3. Supplied(w.obj.spec)
    BY <1>3 DEF Resolvable, Supplied
  <2>4. Rises(n, path)
    BY <1>2, <2>2, <2>3 DEF Rises
  <2> QED
    BY <1>1, <1>2, <1>3, <2>1, <2>4, ContinueRises
<1>4. CASE MarkPending(k)
  BY <1>1, <1>2, <1>4, MarkPendingRises
<1> QED
  BY <1>w, <1>2, <1>3, <1>4 DEF ResolveReferences, Unresolved

LEMMA ResolveDirectoryRises ==
    ASSUME NEW path, ReconcilerSound, RiseInv(path), NEW k \in Kinds, ResolveDirectory(k)
    PROVE  StepRises(path)
<1>w. PICK w : w = worker[k]
  OBVIOUS
<1>d. PICK d : d = [name |-> Directory, uid |-> directory.uid]
  OBVIOUS
<1>1. worker[k].pc = "resolveDirectory" /\ Calm(path)
  BY DEF ResolveDirectory, At, environment, clientVars, Calm
<1>2. /\ w \in Worker /\ DOMAIN worker = Kinds /\ WorkersSound
      /\ w.key \in Objects /\ cache[w.key] # None /\ Supplied(w.obj.spec)
  BY <1>w, <1>1, RiseAtWork DEF Rises
<1>3. CASE MarkPending(k)
  BY <1>1, <1>2, <1>3, MarkPendingRises
<1>4. CASE directory # None /\ Continue(k, [To(w, "resolveParent") EXCEPT !.owner = d])
  <2>1. PICK n : n = [To(w, "resolveParent") EXCEPT !.owner = d]
    OBVIOUS
  <2>2. n.pc = "resolveParent" /\ n.obj = w.obj /\ n.key = w.key /\ n.owner = d
    BY <1>2, <2>1 DEF To, Worker
  <2>3. d.name = Directory /\ d # None
    <3>1. directory.uid \in Nat
      BY <1>4 DEF ReconcilerSound, EnvironmentSound, DirectoryVersion
    <3>2. d \in Owner
      BY <1>d, <3>1 DEF Owner
    <3> QED
      BY <1>d, <3>2, NothingAssumption
  <2>4. Rises(n, path)
    BY <1>2, <2>2, <2>3 DEF Rises
  <2> QED
    BY <1>1, <1>2, <1>4, <2>1, <2>4, ContinueRises
<1> QED
  BY <1>w, <1>d, <1>3, <1>4 DEF ResolveDirectory

LEMMA ResolveParentRises ==
    ASSUME NEW height, NEW path, Places(path), ReconcilerSound, GrowInv(height), RiseInv(path),
           NEW k \in Kinds, ResolveParent(k)
    PROVE  StepRises(path)
<1>w. PICK w : w = worker[k]
  OBVIOUS
<1>p. PICK p : p = w.obj.spec.parent
  OBVIOUS
<1>o. PICK o : o = w.key
  OBVIOUS
<1>1. worker[k].pc = "resolveParent" /\ Calm(path)
  BY DEF ResolveParent, At, environment, clientVars, Calm
<1>2. /\ w \in Worker /\ DOMAIN worker = Kinds /\ WorkersSound /\ ApiSound
      /\ o \in Objects /\ cache[o] # None /\ Supplied(w.obj.spec)
      /\ w.obj \in VersionsOf(o) /\ w.owner # None /\ w.owner.name = Directory
  BY <1>w, <1>o, <1>1, RiseAtWork DEF Rises
<1>3. Resolves(p)
  BY <1>w, <1>p, <1>1 DEF GrowInv, Climbs
<1>4. /\ p \in Objects \cup {None} /\ path[o] = <<RDNOf(o, w.obj)>> \o Upto(p, path)
      /\ p # Foreign
  <2>1. PICK v \in VersionsOf(o) : v = w.obj
    BY <1>2
  <2>2. /\ v.spec.parent \in Objects \cup {None}
        /\ path[o] = <<RDNOf(o, v)>> \o Upto(v.spec.parent, path)
    BY <1>2, PlaceParts
  <2>3. Foreign \notin Objects \cup {None}
    BY ObjectsAssumption
  <2> QED
    BY <1>p, <2>1, <2>2, <2>3
<1>5. ASSUME NEW n, n.pc = "getDistinguishedName", n.key = o, n.obj = w.obj,
             n.dn = <<RDNOf(o, w.obj)>>, n.climb = p, n.owner # None,
             n.owner.name = OwnerName(w.obj.spec), InDirectory(Upto(p, path))
      PROVE  Rises(n, path)
  <2>1. n.dn \o Upto(n.climb, path) = path[n.key]
    BY <1>4, <1>5
  <2>2. n.obj.spec.parent = p /\ n.obj.spec = w.obj.spec
    BY <1>p, <1>5
  <2> QED
    BY <1>2, <1>4, <1>5, <2>1, <2>2 DEF Rises
<1>6. CASE p = None /\ Continue(k, Named(w))
  <2>1. PICK n : n = Named(w)
    OBVIOUS
  <2>2. /\ n.pc = "getDistinguishedName" /\ n.key = o /\ n.obj = w.obj
        /\ n.dn = <<RDNOf(o, w.obj)>> /\ n.climb = p /\ n.owner = w.owner
    BY <1>o, <1>p, <1>2, <2>1 DEF Named, To, Worker
  <2>3. OwnerName(w.obj.spec) = Directory
    BY <1>p, <1>6 DEF OwnerName
  <2>4. InDirectory(Upto(p, path))
    BY <1>6, ObjectsAssumption DEF InDirectory, Upto
  <2>5. Rises(n, path)
    BY <1>2, <1>5, <2>2, <2>3, <2>4
  <2> QED
    BY <1>1, <1>2, <1>6, <2>1, <2>5, ContinueRises
<1>7. CASE MarkPending(k)
  BY <1>1, <1>2, <1>7, MarkPendingRises
<1>8. CASE /\ p \in Objects /\ cache[p] # None /\ cache[p].status.phase = "Ready"
           /\ Continue(k, [Named(w) EXCEPT !.owner = ParentOwner(p)])
  <2>1. PICK owner : owner = ParentOwner(p)
    OBVIOUS
  <2>2. cache[p] \in Steady(path)[p] /\ cache[p].uid \in Nat
    <3>1. cache[p] \in Steady(path)[p]
      BY <1>8 DEF RiseInv, ApiWithin
    <3> QED
      BY <1>8, <3>1, SteadyVersions, VersionParts
  <2>3. path[p] \in Entries
    BY <1>8, <2>2, SteadyVersions DEF Steadfast
  <2>4. owner.name = p /\ owner # None
    <3>1. owner \in Owner
      BY <1>8, <2>1, <2>2 DEF ParentOwner, Owner
    <3> QED
      BY <2>1, <3>1, NothingAssumption DEF ParentOwner
  <2>5. PICK n : n = [Named(w) EXCEPT !.owner = owner]
    OBVIOUS
  <2>6. /\ n.pc = "getDistinguishedName" /\ n.key = o /\ n.obj = w.obj
        /\ n.dn = <<RDNOf(o, w.obj)>> /\ n.climb = p /\ n.owner = owner
    BY <1>o, <1>p, <1>2, <2>5 DEF Named, To, Worker
  <2>7. OwnerName(w.obj.spec) = p
    BY <1>p, <1>8, ObjectsAssumption DEF OwnerName
  <2>8. InDirectory(Upto(p, path))
    BY <1>8, <2>3 DEF InDirectory, Upto
  <2>9. Rises(n, path)
    BY <1>5, <2>4, <2>6, <2>7, <2>8
  <2> QED
    BY <1>1, <1>2, <1>8, <2>1, <2>5, <2>9, ContinueRises
<1> QED
  BY <1>w, <1>p, <1>3, <1>4, <1>6, <1>7, <1>8 DEF ResolveParent, Resolves

LEMMA GetDistinguishedNameRises ==
    ASSUME NEW height, NEW path, Places(path), ReconcilerSound, GrowInv(height), RiseInv(path),
           NEW k \in Kinds, GetDistinguishedName(k)
    PROVE  StepRises(path)
<1>w. PICK w : w = worker[k]
  OBVIOUS
<1>p. PICK p : p = w.climb
  OBVIOUS
<1>o. PICK o : o = w.key
  OBVIOUS
<1>1. worker[k].pc = "getDistinguishedName" /\ Calm(path)
  BY DEF GetDistinguishedName, At, environment, clientVars, Calm
<1>2. /\ w \in Worker /\ DOMAIN worker = Kinds /\ ~w.obj.deleting
      /\ o \in Objects /\ cache[o] # None /\ Supplied(w.obj.spec)
      /\ w.owner # None /\ w.owner.name = OwnerName(w.obj.spec)
      /\ InDirectory(Upto(w.obj.spec.parent, path))
      /\ p \in Objects \cup {None} /\ w.dn \o Upto(p, path) = path[o]
  BY ZenonT(60), <1>w, <1>p, <1>o, <1>1, GrowAtWork, RiseAtWork DEF Rises
<1>3. CASE Finish(k, TRUE)
  BY <1>1, <1>2, <1>3, FinishRises
<1>4. CASE p \in Objects /\ cache[p] # None /\ Continue(k, Ascended(w, p))
  <2>1. PICK v : v = cache[p]
    OBVIOUS
  <2>2. v \in VersionsOf(p)
    BY <1>4, <2>1, SteadyVersions DEF RiseInv, ApiWithin
  <2>3. PICK r \in RDN, q \in Objects \cup {None}, s \in Seq(RDN) :
           /\ r = RDNOf(p, v) /\ q = v.spec.parent /\ s = Upto(q, path)
           /\ path[p] = <<r>> \o s
    BY <1>4, <2>2, PlaceParts, RDNSound
  <2>4. PICK dn \in Seq(RDN) : dn = w.dn
    BY <1>2 DEF Worker
  <2>5. Append(dn, r) \o s = dn \o (<<r>> \o s)
    BY AppendUp
  <2>6. Append(dn, r) \o Upto(q, path) = path[o]
    BY <1>2, <1>4, <2>3, <2>4, <2>5 DEF Upto
  <2>7. PICK n : n = Ascended(w, p)
    OBVIOUS
  <2>8. /\ n.pc = w.pc /\ n.obj = w.obj /\ n.owner = w.owner /\ n.key = o
        /\ n.dn = Append(dn, r) /\ n.climb = q
    BY <1>o, <1>2, <2>1, <2>3, <2>4, <2>7 DEF Ascended, Worker
  <2>9. Rises(n, path)
    BY <1>w, <1>1, <1>2, <2>6, <2>8 DEF Rises
  <2> QED
    BY <1>1, <1>2, <1>4, <2>7, <2>9, ContinueRises
<1>5. CASE p = None /\ Continue(k, To(w, "setOwner"))
  <2>1. PICK n : n = To(w, "setOwner")
    OBVIOUS
  <2>2. n.pc = "setOwner" /\ n.obj = w.obj /\ n.owner = w.owner /\ n.key = o /\ n.dn = w.dn
    BY <1>o, <1>2, <2>1 DEF To, Worker
  <2>3. w.dn = path[o]
    <3>1. PICK dn \in Seq(RDN) : dn = w.dn
      BY <1>2 DEF Worker
    <3>2. dn \o <<>> = dn
      OBVIOUS
    <3> QED
      BY <1>2, <1>5, <3>1, <3>2, ObjectsAssumption DEF Upto
  <2>4. Rises(n, path)
    BY <1>2, <2>2, <2>3 DEF Rises
  <2> QED
    BY <1>1, <1>2, <1>5, <2>1, <2>4, ContinueRises
<1> QED
  BY <1>w, <1>p, <1>2, <1>3, <1>4, <1>5 DEF GetDistinguishedName, OnceNamed

(* The owner is the one every version of the object has or gets. *)
LEMMA SetOwnerRises ==
    ASSUME NEW height, NEW path, Places(path), ReconcilerSound, GrowInv(height), RiseInv(path),
           NEW k \in Kinds, SetOwner(k)
    PROVE  StepRises(path)
<1>w. PICK w : w = worker[k]
  OBVIOUS
<1>o. PICK o : o = w.key
  OBVIOUS
<1>1. worker[k].pc = "setOwner" /\ UNCHANGED <<secret, cache, dit, call>>
  BY DEF SetOwner, At, environment, clientVars
<1>2. /\ w \in Worker /\ DOMAIN worker = Kinds /\ o \in Objects /\ ApiSound
      /\ w.obj \in VersionsOf(o) /\ Supplied(w.obj.spec)
      /\ w.owner # None /\ w.owner.name = OwnerName(w.obj.spec)
      /\ InDirectory(Upto(w.obj.spec.parent, path)) /\ w.dn = path[o]
  BY ZenonT(60), <1>w, <1>o, <1>1, RiseAtWork DEF Rises
<1>3. store[o] \in Steady(path)[o] \cup {None} /\ cache[o] \in Steady(path)[o]
  BY <1>w, <1>o, <1>1, RiseAtWork
<1>4. store[o] # None
  BY <1>2, <1>3, SteadyVersions, LivingVersions DEF GrowInv, ApiWithin, Lives
<1>5. ASSUME NEW v \in VersionsOf(o)
      PROVE  /\ Rises([To(w, "mapToEntry") EXCEPT !.obj = v], path)
             /\ OwnerName(v.spec) = w.owner.name
  <2>1. v.spec.parent = w.obj.spec.parent /\ v.spec.secretRef = w.obj.spec.secretRef
    BY <1>2, <1>5, PlaceParts
  <2>2. PICK n : n = [To(w, "mapToEntry") EXCEPT !.obj = v]
    OBVIOUS
  <2>3. n.pc = "mapToEntry" /\ n.key = o /\ n.obj = v /\ n.dn = w.dn
    BY <1>o, <1>2, <2>2 DEF To, Worker
  <2>4. Supplied(v.spec) /\ OwnerName(v.spec) = OwnerName(w.obj.spec)
    BY <1>2, <2>1 DEF Supplied, OwnerName
  <2>5. Rises(n, path)
    BY <1>2, <1>3, <2>1, <2>3, <2>4, SteadyVersions DEF Rises
  <2> QED
    BY <1>2, <2>2, <2>4, <2>5
<1>6. cache[o] # None /\ (cache[o].owner # None => cache[o].owner.name = w.owner.name)
  <2>1. cache[o] \in VersionsOf(o) /\ Steadfast(o, cache[o], path) /\ cache[o] # None
    BY <1>2, <1>3, SteadyVersions
  <2> QED
    BY <1>5, <2>1 DEF Steadfast
<1>7. CASE Continue(k, [To(w, "mapToEntry") EXCEPT !.obj = cache[o]]) /\ UNCHANGED <<store, watch>>
  <2>1. cache[o] \in VersionsOf(o)
    BY <1>2, <1>3, SteadyVersions
  <2>2. Rises([To(w, "mapToEntry") EXCEPT !.obj = cache[o]], path)
    BY <1>5, <2>1
  <2>3. Calm(path)
    BY <1>1, <1>7 DEF Calm
  <2> QED
    BY <1>2, <1>7, <2>2, <2>3, ContinueRises
<1>8. CASE LET new == Owned(o, w.owner)
           IN  /\ Write(o, new)
               /\ Continue(k, [To(w, "mapToEntry") EXCEPT !.obj = new])
  <2>1. PICK s, owner : s = store[o] /\ owner = w.owner
    OBVIOUS
  <2>2. s \in VersionsOf(o) /\ Steadfast(o, s, path)
    BY <1>2, <1>3, <1>4, <2>1, SteadyVersions
  <2>3. PICK new : new = [s EXCEPT !.owner = owner]
    OBVIOUS
  <2>4. /\ new \in VersionsOf(o) /\ new.status = s.status
        /\ new.spec = s.spec /\ new.owner = owner
    BY <1>2, <2>1, <2>2, <2>3 DEF VersionsOf, Version, Worker
  <2>5. OwnerName(new.spec) = owner.name
    BY <1>5, <2>1, <2>4
  <2>6. new \in Steady(path)[o]
    BY <1>2, <2>2, <2>4, <2>5, SteadyVersions DEF Steadfast
  <2>7. new = Owned(o, w.owner)
    BY <2>1, <2>3 DEF Owned
  <2>8. Calm(path)
    BY <1>1, <1>2, <1>8, <2>6, <2>7 DEF Calm, Publishes
  <2>9. Rises([To(w, "mapToEntry") EXCEPT !.obj = new], path)
    BY <1>5, <2>4
  <2> QED
    BY <1>2, <1>8, <2>7, <2>8, <2>9, ContinueRises
<1> QED
  BY <1>w, <1>o, <1>4, <1>6, <1>7, <1>8 DEF SetOwner

(* A user's password is there, so the entry can be asked for. *)
LEMMA MapToEntryRises ==
    ASSUME NEW path, Places(path), ReconcilerSound, RiseInv(path), NEW k \in Kinds,
           DOMAIN call = Kinds, MapToEntry(k)
    PROVE  StepRises(path)
<1>w. PICK w : w = worker[k]
  OBVIOUS
<1>o. PICK o : o = w.key
  OBVIOUS
<1>s. PICK spec : spec = w.obj.spec
  OBVIOUS
<1>1. worker[k].pc = "mapToEntry" /\ UNCHANGED <<secret, store, cache, watch>>
  BY DEF MapToEntry, At, environment
<1>2. /\ w \in Worker /\ DOMAIN worker = Kinds /\ o \in Objects /\ KindOf[o] = k
      /\ w.obj \in VersionsOf(o) /\ Supplied(spec) /\ cache[o] # None
      /\ InDirectory(Upto(spec.parent, path)) /\ w.dn = path[o]
  <2>1. Rises(w, path)
    BY <1>w DEF RiseInv
  <2>2. /\ w \in Worker /\ DOMAIN worker = Kinds /\ o \in Objects /\ KindOf[o] = k
        /\ w.obj \in VersionsOf(o)
    BY <1>w, <1>o, <1>1, RiseAtWork
  <2> QED
    BY <1>w, <1>o, <1>s, <1>1, <2>1, <2>2 DEF Rises
<1>3. /\ Head(path[o]).name = spec.name /\ Tail(path[o]) = Upto(spec.parent, path)
      /\ k = User => spec.secretRef # None
  <2>1. PICK v : v = w.obj
    OBVIOUS
  <2>2. o \in Objects /\ v \in VersionsOf(o) /\ KindOf[o] = k
    BY <1>2, <2>1
  <2>3. /\ Head(path[o]).name = v.spec.name /\ Tail(path[o]) = Upto(v.spec.parent, path)
        /\ KindOf[o] = User => v.spec.secretRef # None
    BY <2>2, PlaceParts
  <2> QED
    BY <1>s, <2>1, <2>2, <2>3
<1>4. spec.secretRef \in SecretRefs \cup {None}
  BY <1>2, <1>s, VersionParts DEF ObjectSpec
<1>5. Mappable(spec)
  BY <1>2, <1>4 DEF Mappable, Supplied
<1>6. CallUpsert(k, w.dn, EntryOf(spec)) /\ Continue(k, To(w, "upsertEntry"))
  BY <1>w, <1>s, <1>5 DEF MapToEntry
<1>7. PICK c : c = NewCall("search", w.dn, EntryOf(spec), <<>>)
  OBVIOUS
<1>8. call' = [call EXCEPT ![k] = c] /\ UNCHANGED dit
  BY <1>6, <1>7 DEF CallUpsert
<1>9. /\ c.step = "search" /\ c.dn = path[o] /\ c.entry = EntryOf(spec)
      /\ c.entry.name = spec.name
      /\ k = User => c.entry.pw # None
  <2>1. c.step = "search" /\ c.dn = path[o] /\ c.entry = EntryOf(spec)
    BY <1>2, <1>7 DEF NewCall
  <2>2. EntryOf(spec).name = spec.name /\ (k = User => EntryOf(spec).pw # None)
    BY <1>3, <1>4, <1>5 DEF EntryOf, Mappable
  <2> QED
    BY <2>1, <2>2
<1>10. c.entry # None
  <2>1. EntryOf(w.obj.spec) \in Desired
    BY <1>2, EntryOfSound DEF ReconcilerSound
  <2> QED
    BY <1>s, <1>9, <2>1, NoneAssumption
<1>11. Entries' = Entries
  BY <1>8 DEF Entries
<1>12. \A j \in Kinds : CallRises(j)'
  <2>1. ASSUME NEW j \in Kinds \ {k}
        PROVE  CallRises(j)'
    <3>1. call'[j] = call[j]
      BY <1>8, <2>1
    <3> QED
      BY <1>11, <3>1 DEF RiseInv, CallRises, InDirectory
  <2>2. call'[k] = c
    BY <1>8
  <2>3. InDirectory(Tail(c.dn))'
    BY <1>2, <1>3, <1>9, <1>11 DEF InDirectory
  <2>4. CallRises(k)'
    BY <1>3, <1>9, <1>10, <2>2, <2>3 DEF CallRises, Upserting
  <2> QED
    BY <2>1, <2>4
<1>13. PICK n : n = To(w, "upsertEntry")
  OBVIOUS
<1>14. n.pc = "upsertEntry" /\ n.key = o /\ n.obj = w.obj /\ n.dn = w.dn
  BY <1>o, <1>2, <1>13 DEF To, Worker
<1>15. Rises(n, path)
  BY <1>2, <1>14 DEF Rises
<1>16. ASSUME NEW j \in Kinds
       PROVE  \E m : worker'[j] = m /\ Rises(m, path)
  BY <1>2, <1>6, <1>13, <1>15 DEF RiseInv, Continue
<1> QED
  BY <1>1, <1>11, <1>12, <1>16 DEF StepRises

(* A call that returns has brought about the entry. *)
LEMMA CreateOrUpdateEntryRises ==
    ASSUME NEW path, ObjectInv, RiseInv(path), NEW k \in Kinds, CreateOrUpdateEntry(k)
    PROVE  StepRises(path)
<1>w. PICK w : w = worker[k]
  OBVIOUS
<1>c. PICK c : c = call[k]
  OBVIOUS
<1>1. worker[k].pc = "upsertEntry" /\ UNCHANGED <<secret, store, cache, watch, dit>>
  BY DEF CreateOrUpdateEntry, Collect, At, environment
<1>2. /\ w \in Worker /\ DOMAIN worker = Kinds /\ w.pc # "idle"
      /\ w.dn = path[w.key] /\ Rises(w, path)
  <2>1. ReconcilerSound
    BY DEF ObjectInv
  <2> QED
    BY ZenonT(60), <1>w, <1>1, <2>1, RiseAtWork DEF Rises
<1>3. c.step = "returned" /\ call' = [call EXCEPT ![k] = NoCall] /\ DOMAIN call = Kinds
  BY <1>c DEF CreateOrUpdateEntry, Collect, ObjectInv, ClientInv, ClientTypeOK
<1>4. c.ok /\ path[w.key] \in Entries
  <2>1. c.ok /\ c.dn \in Entries
    BY <1>c, <1>3 DEF RiseInv, CallRises
  <2>2. c.dn = w.dn
    BY <1>w, <1>c, <1>1 DEF ObjectInv, Linked
  <2> QED
    BY <1>2, <2>1, <2>2
<1>5. Entries' = Entries
  BY <1>1 DEF Entries
<1>6. \A j \in Kinds : CallRises(j)'
  <2>1. ASSUME NEW j \in Kinds \ {k}
        PROVE  CallRises(j)'
    <3>1. call'[j] = call[j]
      BY <1>3, <2>1
    <3> QED
      BY <1>5, <3>1 DEF RiseInv, CallRises, InDirectory
  <2>2. call'[k].step = "idle"
    BY <1>3 DEF NoCall, NewCall
  <2> QED
    BY <2>1, <2>2 DEF CallRises
<1>7. \E n : Rises(n, path) /\ worker' = [worker EXCEPT ![k] = n]
  <2>1. CASE Continue(k, Marking(w, "Ready", FALSE))
    BY <1>2, <1>4, <2>1, MarkedRises DEF Continue
  <2>2. CASE Finish(k, FALSE)
    BY <2>2, IdleRises DEF Finish
  <2> QED
    BY <1>w, <1>c, <1>4, <2>1, <2>2 DEF CreateOrUpdateEntry
<1>8. ASSUME NEW j \in Kinds
      PROVE  \E n : worker'[j] = n /\ Rises(n, path)
  BY <1>2, <1>7 DEF RiseInv
<1> QED
  BY <1>1, <1>5, <1>6, <1>8 DEF StepRises

LEMMA MarkRises ==
    ASSUME NEW path, Places(path), ReconcilerSound, RiseInv(path), NEW k \in Kinds, Mark(k)
    PROVE  StepRises(path)
<1>w. PICK w : w = worker[k]
  OBVIOUS
<1>o. PICK o : o = w.key
  OBVIOUS
<1>1. worker[k].pc = "mark" /\ UNCHANGED <<secret, cache, dit, call>>
  BY DEF Mark, At, environment, clientVars
<1>2. /\ w \in Worker /\ DOMAIN worker = Kinds /\ o \in Objects
      /\ store[o] \in Steady(path)[o] \cup {None}
  BY <1>w, <1>o, <1>1, RiseAtWork
<1>3. w.status # "Failed" /\ (w.status = "Ready" => path[o] \in Entries)
  BY <1>w, <1>o, <1>1 DEF RiseInv, Rises
<1>4. CASE UNCHANGED <<store, watch>>
  <2>1. Calm(path)
    BY <1>1, <1>4 DEF Calm
  <2>2. PICK requeue : Finish(k, requeue)
    BY DEF Mark
  <2> QED
    BY <1>2, <2>1, <2>2, FinishRises
<1>5. CASE store[o] # None /\ Write(o, [store[o] EXCEPT !.status = StatusOf(w, store[o])])
  <2>1. PICK s, status : s = store[o] /\ status = StatusOf(w, store[o])
    OBVIOUS
  <2>2. s \in VersionsOf(o) /\ Steadfast(o, s, path)
    BY <1>2, <1>5, <2>1, SteadyVersions
  <2>3. status \in Status /\ status.phase = w.status
    BY <1>2, <2>1, <2>2, VersionParts DEF StatusOf, Status, Worker
  <2>4. PICK new : new = [s EXCEPT !.status = status]
    OBVIOUS
  <2>5. /\ new \in VersionsOf(o) /\ new.status = status
        /\ new.owner = s.owner /\ new.spec = s.spec
    BY <2>2, <2>3, <2>4 DEF VersionsOf, Version
  <2>6. new \in Steady(path)[o]
    BY <1>2, <1>3, <2>2, <2>3, <2>5, SteadyVersions DEF Steadfast
  <2>7. Calm(path)
    BY <1>1, <1>2, <1>5, <2>1, <2>4, <2>6 DEF Calm, Publishes
  <2>8. PICK requeue : Finish(k, requeue)
    BY DEF Mark
  <2> QED
    BY <1>2, <2>7, <2>8, FinishRises
<1> QED
  BY <1>w, <1>o, <1>4, <1>5 DEF Mark, Unpatchable

LEMMA GetRises ==
    ASSUME NEW path, ReconcilerSound, RiseInv(path), NEW k \in Kinds, NEW o \in Objects, Get(k, o)
    PROVE  StepRises(path)
<1>1. Calm(path) /\ DOMAIN worker = Kinds
  BY DEF Get, Calm, environment, clientVars, ReconcilerSound, WorkersSound
<1>2. CASE UNCHANGED worker
  <2>1. \A j \in Kinds : \E n : worker'[j] = n /\ Rises(n, path)
    BY <1>2 DEF RiseInv
  <2> QED
    BY <1>1, <2>1, CalmRises
<1>3. CASE /\ cache[o] # None
           /\ worker' = [worker EXCEPT ![k] =
                [Idle EXCEPT !.key = o, !.obj = cache[o], !.pc = FirstStep(cache[o])]]
  <2>1. PICK n : n = [Idle EXCEPT !.key = o, !.obj = cache[o], !.pc = FirstStep(cache[o])]
    OBVIOUS
  <2>2. n.pc \in {"resolveReferences", "addFinalizer"} /\ n.key = o
    BY <2>1 DEF Idle, FirstStep
  <2>3. Rises(n, path)
    BY <1>3, <2>2 DEF Rises
  <2> QED
    BY <1>1, <1>3, <2>1, <2>3, CalmWorkerRises
<1> QED
  BY <1>2, <1>3 DEF Get

LEMMA ReconcileRises ==
    ASSUME NEW height, Heights(height), NEW path, Places(path), ObjectInv,
           GrowInv(height), RiseInv(path), NEW k \in Kinds, Reconcile(k)
    PROVE  StepRises(path)
<1>1. ReconcilerSound /\ DOMAIN call = Kinds
  BY DEF ObjectInv, ClientInv, ClientTypeOK
<1>2. ~DeleteEntry(k) /\ ~RemoveFinalizer(k)
  BY DEF GrowInv, Climbs, DeleteEntry, RemoveFinalizer, At
<1> QED
  BY <1>1, <1>2, AddFinalizerRises, ResolveReferencesRises, ResolveDirectoryRises,
     ResolveParentRises, GetDistinguishedNameRises, SetOwnerRises, MapToEntryRises,
     CreateOrUpdateEntryRises, MarkRises DEF Reconcile

-----------------------------------------------------------------------------
(* The requests of the clients.                                            *)

(* A request of client k refuses nothing to the others: theirs are entries   *)
(* of other kinds.                                                           *)
LEMMA ServedRises ==
    ASSUME NEW path, ObjectInv, RiseInv(path), NEW k \in Kinds, call[k].step # "idle",
           \A j \in Kinds \ {k} : call'[j] = call[j],
           \A d \in Entries' : d \in Entries \/ d = call[k].dn,
           Entries \subseteq Entries', CallRises(k)',
           UNCHANGED <<kubernetes, worker, environment>>
    PROVE  StepRises(path)
<1>1. ASSUME NEW j \in Kinds \ {k}, call[j].step # "idle"
      PROVE  call[j].dn \in Entries' => call[j].dn \in Entries
  <2>1. Head(call[j].dn).kind = j /\ Head(call[k].dn).kind = k
    BY <1>1 DEF ObjectInv, ClientInv, CallSound
  <2> QED
    BY <1>1, <2>1
<1>2. ASSUME NEW j \in Kinds \ {k}
      PROVE  CallRises(j)'
  <2>1. call'[j] = call[j] /\ CallRises(j)
    BY <1>2 DEF RiseInv
  <2>2. \A dn : InDirectory(dn) => InDirectory(dn)'
    BY DEF InDirectory
  <2> QED
    BY <1>1, <2>1, <2>2 DEF CallRises, InDirectory
<1>3. ASSUME NEW j \in Kinds
      PROVE  \E n : worker'[j] = n /\ Rises(n, path)
  BY <1>3 DEF RiseInv
<1> QED
  BY <1>2, <1>3 DEF StepRises, kubernetes, environment

LEMMA BecomesRises ==
    ASSUME NEW path, ObjectInv, RiseInv(path), NEW k \in Kinds, call[k].step # "idle",
           NEW step \in Upserting \cup {"returned"}, NEW found, NEW frames, NEW created, NEW ok,
           Becomes(k, step, found, frames, created, ok), Entries \subseteq Entries',
           step = "add" => call[k].dn \notin Entries',
           step \in {"modify", "bind", "setPassword", "returned"} => call[k].dn \in Entries',
           step = "returned" => ok
    PROVE  CallRises(k)' /\ \A j \in Kinds \ {k} : call'[j] = call[j]
<1>1. DOMAIN call = Kinds
  BY DEF ObjectInv, ClientInv, ClientTypeOK
<1>2. /\ call'[k].step = step /\ call'[k].dn = call[k].dn /\ call'[k].entry = call[k].entry
      /\ call'[k].ok = ok /\ \A j \in Kinds \ {k} : call'[j] = call[j]
  BY <1>1 DEF Becomes
<1>3. CallRises(k)
  BY DEF RiseInv
<1>4. InDirectory(Tail(call[k].dn))'
  BY <1>2, <1>3 DEF CallRises, InDirectory
<1> QED
  BY <1>2, <1>3, <1>4 DEF CallRises, InDirectory

(* The search finds the entry, or something below it, or there is no entry. *)
LEMMA Hits ==
    ASSUME ObjectInv, NEW k \in Kinds, NEW c, c = call[k], c.step # "idle",
           c.entry.name = Head(c.dn).name
    PROVE  LET hits == First(c.dn, Matches(c.dn, k, c.entry.name))
           IN  /\ hits = {} => c.dn \notin Entries
               /\ \A d \in hits : c.dn \in Entries
<1>1. c.dn \in DN /\ Head(c.dn).kind = k
  BY DEF ObjectInv, ClientInv, CallSound
<1>2. ASSUME c.dn \in Entries
      PROVE  c.dn \in Matches(c.dn, k, c.entry.name)
  <2>1. IsSuffix(c.dn, c.dn)
    BY <1>1, SuffixOfItself DEF DN
  <2>2. Head(c.dn) \in RDN
    BY <1>1, HeadTailProperties DEF DN
  <2>3. Head(c.dn) = [kind |-> k, name |-> c.entry.name]
    BY <1>1, <2>2 DEF RDN
  <2> QED
    BY <1>2, <2>1, <2>3 DEF Matches
<1>3. ASSUME NEW d \in Matches(c.dn, k, c.entry.name)
      PROVE  c.dn \in Entries
  BY <1>1, <1>3 DEF Matches, ObjectInv, DeletionInv, Rooted
<1> QED
  BY <1>2, <1>3 DEF First

LEMMA SearchRises ==
    ASSUME NEW path, ObjectInv, RiseInv(path), NEW k \in Kinds, Search(k),
           UNCHANGED <<kubernetes, worker, environment>>
    PROVE  StepRises(path)
<1>c. PICK c : c = call[k]
  OBVIOUS
<1>h. PICK hits : hits = First(c.dn, Matches(c.dn, k, c.entry.name))
  OBVIOUS
<1>1. c.step = "search" /\ UNCHANGED dit
  BY <1>c DEF Search
<1>2. Entries' = Entries
  BY <1>1 DEF Entries
<1>3. (hits = {} => c.dn \notin Entries) /\ \A d \in hits : c.dn \in Entries
  <2>1. c.entry.name = Head(c.dn).name
    BY <1>c, <1>1 DEF RiseInv, CallRises
  <2> QED
    BY <1>c, <1>h, <1>1, <2>1, Hits
<1>4. ASSUME NEW step, NEW found, NEW created, NEW ok,
             Becomes(k, step, found, <<>>, created, ok),
             \/ step = "add" /\ hits = {}
             \/ step \in {"modify", "bind"} /\ hits # {}
             \/ step = "returned" /\ hits # {} /\ ok
      PROVE  StepRises(path)
  <2>1. step \in Upserting \cup {"returned"}
    BY <1>4 DEF Upserting
  <2>2. CallRises(k)' /\ \A j \in Kinds \ {k} : call'[j] = call[j]
    BY <1>c, <1>1, <1>2, <1>3, <1>4, <2>1, BecomesRises
  <2> QED
    BY <1>c, <1>1, <1>2, <2>2, ServedRises
<1>5. CASE hits = {} /\ Goto(k, "add")
  BY <1>4, <1>5 DEF Goto
<1>6. ASSUME NEW d \in hits, Becomes(k, "modify", dit[d].content, <<>>, FALSE, FALSE)
      PROVE  StepRises(path)
  BY <1>4, <1>6
<1>7. CASE hits # {} /\ (Goto(k, "bind") \/ Return(k, FALSE, TRUE))
  BY <1>4, <1>7 DEF Goto, Return
<1> QED
  BY <1>c, <1>h, <1>5, <1>6, <1>7 DEF Search

LEMMA AddRises ==
    ASSUME NEW path, ObjectInv, RiseInv(path), NEW k \in Kinds, Add(k),
           UNCHANGED <<kubernetes, worker, environment>>
    PROVE  StepRises(path)
<1>c. PICK c : c = call[k]
  OBVIOUS
<1>1. c.step = "add"
  BY <1>c DEF Add
<1>2. AddAccepted(c)
  BY <1>c, <1>1 DEF RiseInv, CallRises, AddAccepted, InDirectory
<1>3. dit' = Added(c)
  BY <1>c, <1>2 DEF Add
<1>4. Entries' = Entries \cup {c.dn}
  BY <1>3 DEF Added, With, Entries
<1>5. ASSUME NEW step \in {"setPassword", "returned"}, NEW created, NEW ok,
             Becomes(k, step, None, <<>>, created, ok), step = "returned" => ok
      PROVE  StepRises(path)
  <2>1. step \in Upserting \cup {"returned"}
    BY <1>5 DEF Upserting
  <2>2. CallRises(k)' /\ \A j \in Kinds \ {k} : call'[j] = call[j]
    BY <1>c, <1>1, <1>4, <1>5, <2>1, BecomesRises
  <2> QED
    BY <1>c, <1>1, <1>4, <2>2, ServedRises
<1> QED
  BY <1>c, <1>2, <1>5 DEF Add, Return

(* Nobody has changed the entry since the search. *)
LEMMA ModifyRises ==
    ASSUME NEW path, ObjectInv, RiseInv(path), NEW k \in Kinds, Modify(k),
           UNCHANGED <<kubernetes, worker, environment>>
    PROVE  StepRises(path)
<1>c. PICK c : c = call[k]
  OBVIOUS
<1>1. c.step = "modify"
  BY <1>c DEF Modify
<1>2. c.dn \in Entries /\ c.entry # None /\ c.entry.name = Head(c.dn).name
  BY <1>c, <1>1 DEF RiseInv, CallRises
<1>3. dit[c.dn].content = c.found
  BY <1>c, <1>1, <1>2 DEF ObjectInv, ClientInv, Converging
<1>4. ModifyAccepted(c)
  BY <1>2, <1>3 DEF ModifyAccepted, OptAccepted
<1>5. dit' = Modified(c)
  BY <1>c, <1>4 DEF Modify
<1>6. Entries' = Entries
  BY <1>2, <1>5 DEF Modified, With, Entries
<1>7. ASSUME NEW step \in {"bind", "returned"}, NEW created, NEW ok,
             Becomes(k, step, None, <<>>, created, ok), step = "returned" => ok
      PROVE  StepRises(path)
  <2>1. step \in Upserting \cup {"returned"}
    BY <1>7 DEF Upserting
  <2>2. CallRises(k)' /\ \A j \in Kinds \ {k} : call'[j] = call[j]
    BY <1>c, <1>1, <1>2, <1>6, <1>7, <2>1, BecomesRises
  <2> QED
    BY <1>c, <1>1, <1>6, <2>2, ServedRises
<1> QED
  BY <1>c, <1>4, <1>7 DEF Modify, Goto, Return

LEMMA BindRises ==
    ASSUME NEW path, ObjectInv, RiseInv(path), NEW k \in Kinds, Bind(k),
           UNCHANGED <<kubernetes, worker, environment>>
    PROVE  StepRises(path)
<1>c. PICK c : c = call[k]
  OBVIOUS
<1>1. c.step = "bind" /\ UNCHANGED dit
  BY <1>c DEF Bind
<1>2. c.dn \in Entries /\ c.entry.pw # None
  BY <1>c, <1>1 DEF RiseInv, CallRises, ObjectInv, ClientInv, CallSound
<1>3. Entries' = Entries
  BY <1>1 DEF Entries
<1>4. ASSUME NEW step \in {"setPassword", "returned"}, NEW created, NEW ok,
             Becomes(k, step, None, <<>>, created, ok), step = "returned" => ok
      PROVE  StepRises(path)
  <2>1. step \in Upserting \cup {"returned"}
    BY <1>4 DEF Upserting
  <2>2. CallRises(k)' /\ \A j \in Kinds \ {k} : call'[j] = call[j]
    BY <1>c, <1>1, <1>2, <1>3, <1>4, <2>1, BecomesRises
  <2> QED
    BY <1>c, <1>1, <1>3, <2>2, ServedRises
<1> QED
  BY <1>c, <1>2, <1>4 DEF Bind, Goto, Return

LEMMA SetPasswordRises ==
    ASSUME NEW path, ObjectInv, RiseInv(path), NEW k \in Kinds, SetPassword(k),
           UNCHANGED <<kubernetes, worker, environment>>
    PROVE  StepRises(path)
<1>c. PICK c : c = call[k]
  OBVIOUS
<1>1. c.step = "setPassword"
  BY <1>c DEF SetPassword
<1>2. c.dn \in Entries
  BY <1>c, <1>1 DEF RiseInv, CallRises
<1>3. dit' = PasswordSet(c) /\ Return(k, c.created, TRUE)
  BY <1>c, <1>2 DEF SetPassword, SetPasswordAccepted
<1>4. Entries' = Entries
  BY <1>2, <1>3 DEF PasswordSet, With, Entries
<1>5. CallRises(k)' /\ \A j \in Kinds \ {k} : call'[j] = call[j]
  BY <1>c, <1>1, <1>2, <1>3, <1>4, BecomesRises DEF Return
<1> QED
  BY <1>c, <1>1, <1>4, <1>5, ServedRises

LEMMA ClientRequestRises ==
    ASSUME NEW path, ObjectInv, RiseInv(path), NEW k \in Kinds, ClientRequest(k)
    PROVE  StepRises(path)
<1>1. UNCHANGED <<kubernetes, worker, environment>>
  BY DEF ClientRequest
<1>2. ~Deletion(k)
  BY DEF Deletion, DeleteSearch, DeleteRequest, RiseInv, CallRises, Upserting
<1> QED
  BY <1>1, <1>2, SearchRises, AddRises, ModifyRises, BindRises, SetPasswordRises
     DEF ClientRequest, Request, UpsertUser, UpsertEntry

-----------------------------------------------------------------------------
(* The environment, and the induction.                                     *)

(* A new object has no status yet. *)
LEMMA UnsetIsNoPhase == Unset # "Failed" /\ Unset # "Ready"
BY Zenon DEF Unset

(* Nobody's entry is touched. *)
LEMMA AsideRises ==
    ASSUME NEW path, RiseInv(path), Calm(path), UNCHANGED worker
    PROVE  StepRises(path)
<1>1. \A k \in Kinds : \E w : worker'[k] = w /\ Rises(w, path)
  BY DEF RiseInv
<1> QED
  BY <1>1, CalmRises

LEMMA UsersRise ==
    ASSUME NEW path, Places(path), NothingGoes, ReconcilerSound, RiseInv(path),
           NEW o \in Objects, Users(o)
    PROVE  StepRises(path)
<1>1. UNCHANGED <<worker, secret, cache, dit, call>>
  BY DEF Users, Create, Edit, Delete, clientVars
<1>2. ~Delete(o)
  BY DEF Delete, Happens, NothingGoes, ReconcilerSound, EnvironmentSound, Events
<1>3. ASSUME NEW v \in Steady(path)[o], Publish(o, v)
      PROVE  StepRises(path)
  <2>1. Calm(path)
    BY <1>1, <1>3 DEF Calm, Publishes
  <2> QED
    BY <1>1, <2>1, AsideRises
<1>4. CASE Create(o)
  <2>1. PICK spec \in Specs[o] : Publish(o, NewVersion(spec))
    BY <1>4 DEF Create
  <2>2. PICK v : v = NewVersion(spec)
    OBVIOUS
  <2>3. v \in VersionsOf(o) /\ v.owner = None
    BY <2>2, NewVersionSound DEF ReconcilerSound
  <2>4. v.status.phase = Unset
    BY <2>2 DEF NewVersion
  <2>5. v \in Steady(path)[o]
    BY <2>3, <2>4, UnsetIsNoPhase, SteadyVersions DEF Steadfast
  <2> QED
    BY <1>3, <2>1, <2>2, <2>5
<1>5. CASE Edit(o)
  <2>1. PICK spec \in Specs[o] : Publish(o, [store[o] EXCEPT !.spec = spec, !.generation = @ + 1])
    BY <1>5 DEF Edit
  <2>2. PICK s \in Steady(path)[o] : s = store[o]
    BY <1>5 DEF Edit, RiseInv, ApiWithin
  <2>3. s \in VersionsOf(o)
    BY <2>2, SteadyVersions
  <2>4. PICK n : n = [s EXCEPT !.spec = spec, !.generation = @ + 1]
    OBVIOUS
  <2>5. n \in VersionsOf(o) /\ n.owner = s.owner
    BY ZenonT(60), <2>3, <2>4, EditedSound
  <2>6. n.status = s.status
    BY <2>3, <2>4, VersionParts DEF Version
  <2>7. n \in Steady(path)[o]
    BY <2>2, <2>5, <2>6, SteadyVersion
  <2> QED
    BY <1>3, <2>1, <2>2, <2>4, <2>7
<1> QED
  BY <1>2, <1>4, <1>5 DEF Users

LEMMA EnvironmentRises ==
    ASSUME NEW path, Places(path), NothingGoes, NothingFails, ObjectInv, RiseInv(path), Environment
    PROVE  StepRises(path)
<1>1. ReconcilerSound /\ ~(faults > 0)
  <2>1. faults \in 0 .. 0
    BY DEF NothingFails, ObjectInv, ClientInv, ClientTypeOK
  <2> QED
    BY <2>1 DEF ObjectInv
<1>2. /\ ~Crash
      /\ \A k \in Kinds : ~ApiFails(k) /\ ~ClientFails(k)
  BY <1>1 DEF Crash, ApiFails, Fault, ClientFails, RequestFails, ReplyLost
<1>3. /\ ~DirectoryDeleted
      /\ \A s \in SecretRefs : ~SecretDeleted(s)
  <2>1. used["directoryLoss"] \in Nat /\ used["secretLoss"] \in Nat
    BY <1>1 DEF ReconcilerSound, EnvironmentSound, Events
  <2>2. ~Happens("directoryLoss") /\ ~Happens("secretLoss")
    BY <2>1 DEF Happens, NothingGoes, NothingFails
  <2> QED
    BY <2>2 DEF DirectoryDeleted, SecretDeleted
<1>4. ASSUME NEW o \in Objects, Resync(o)
      PROVE  StepRises(path)
  BY <1>4, AsideRises DEF Resync, Calm, clientVars
<1>5. ASSUME NEW s \in SecretRefs, SecretWritten(s)
      PROVE  StepRises(path)
  <2>1. PICK p \in Passwords : secret' = [secret EXCEPT ![s] = p]
    BY <1>5 DEF SecretWritten
  <2>2. p # None /\ DOMAIN secret = SecretRefs
    BY <1>1, NoneAssumption DEF ReconcilerSound, EnvironmentSound
  <2>3. \A x \in SecretRefs : secret[x] # None => secret'[x] # None
    BY <2>1, <2>2
  <2>4. Calm(path) /\ UNCHANGED worker
    BY <1>5, <2>3 DEF SecretWritten, Calm, clientVars, kubernetes
  <2> QED
    BY <2>4, AsideRises
<1>6. CASE DirectoryChanges
  BY <1>6, AsideRises DEF DirectoryChanges, Calm, clientVars, kubernetes
<1> QED
  BY <1>1, <1>2, <1>3, <1>4, <1>5, <1>6, UsersRise DEF Environment

LEMMA NextRises ==
    ASSUME NEW height, Heights(height), NEW path, Places(path), NothingGoes, NothingFails,
           ObjectInv, GrowInv(height), RiseInv(path), [Next]_vars
    PROVE  StepRises(path)
<1>1. ReconcilerSound
  BY DEF ObjectInv
<1>2. ASSUME NEW k \in Kinds, Panic(k)
      PROVE  FALSE
  BY <1>1, <1>2, ClimbersDontPanic DEF Panic
<1>3. ASSUME NEW o \in Objects, Sync(o) \/ GarbageCollect(o)
      PROVE  StepRises(path)
  <2>1. Sync(o)
    BY <1>3, NothingCollected
  <2> QED
    BY <2>1, AsideRises DEF Sync, Calm, environment, clientVars
<1>4. ASSUME UNCHANGED vars
      PROVE  StepRises(path)
  <2>1. UNCHANGED <<store, cache, watch, worker, dit, call, secret>>
    BY <1>4 DEF vars, kubernetes, environment, clientVars
  <2> QED
    BY <2>1, AsideRises DEF Calm
<1>5. ASSUME NEW k \in Kinds, NEW o \in Objects, Get(k, o)
      PROVE  StepRises(path)
  BY <1>1, <1>5, GetRises
<1>6. ASSUME NEW k \in Kinds, Reconcile(k)
      PROVE  StepRises(path)
  BY <1>6, ReconcileRises
<1>7. ASSUME NEW k \in Kinds, ClientRequest(k)
      PROVE  StepRises(path)
  BY <1>7, ClientRequestRises
<1>8. ASSUME Environment
      PROVE  StepRises(path)
  BY <1>8, EnvironmentRises
<1> QED
  BY <1>2, <1>3, <1>4, <1>5, <1>6, <1>7, <1>8 DEF Next

LEMMA InitRises ==
    ASSUME NEW path, Init
    PROVE  RiseInv(path)
<1>i. /\ store = [o \in Objects |-> None] /\ cache = store
      /\ watch = [o \in Objects |-> <<>>] /\ worker = [k \in Kinds |-> Idle]
      /\ call = [k \in Kinds |-> NoCall]
  BY DEF Init, ClientInit
<1>1. ApiWithin(Steady(path))
  <2>1. ASSUME NEW o \in Objects
        PROVE  store[o] = None /\ cache[o] = None /\ watch[o] = <<>>
    BY <1>i, <2>1
  <2>2. \A G : <<>> \in Seq(G)
    OBVIOUS
  <2> QED
    BY <2>1, <2>2 DEF ApiWithin
<1>2. ASSUME NEW k \in Kinds
      PROVE  Rises(worker[k], path) /\ CallRises(k)
  <2>1. PICK w : w = Idle
    OBVIOUS
  <2>2. worker[k] = w /\ Rises(w, path)
    BY <1>i, <2>1, IdleRises
  <2>3. call[k].step = "idle"
    BY <1>i DEF NoCall, NewCall
  <2> QED
    BY <2>2, <2>3 DEF CallRises
<1> QED
  BY <1>1, <1>2 DEF RiseInv

LEMMA RisingNeverFails ==
    ASSUME NEW path, RiseInv(path)
    PROVE  NeverFailed
BY SteadyVersions DEF RiseInv, ApiWithin, Steadfast, NeverFailed

(* An object is asked for only when its directory and its parent are ready   *)
(* (lines 92-204), so where nothing fails or goes away, no order of creation *)
(* and no order of the controllers makes an object Failed: the parent's      *)
(* entry is there before the child's is added, the owner set once is the     *)
(* owner wanted ever after, the password a user needs stays there, and       *)
(* slapd refuses no request, since nobody else touches entries of the kind.  *)
(* Contents may be edited at any time; names and places may not.             *)
THEOREM NothingMarkedFailed ==
    (NothingGoes /\ NothingFails /\ Planned) => (Spec => []NeverFailed)
<1>1. SUFFICES ASSUME NothingGoes, NothingFails, Planned
               PROVE  Spec => []NeverFailed
  OBVIOUS
<1>2. PICK path : Places(path)
  BY <1>1 DEF Planned
<1>3. PICK height : Heights(height)
  BY <1>2, PlacesHaveHeights
<1>4. Init => GrowInv(height) /\ RiseInv(path)
  BY InitGrows, InitRises
<1>5. ObjectInv /\ GrowInv(height) /\ RiseInv(path) /\ [Next]_vars
      => GrowInv(height)' /\ RiseInv(path)'
  <2> SUFFICES ASSUME ObjectInv, GrowInv(height), RiseInv(path), [Next]_vars
               PROVE  GrowInv(height)' /\ RiseInv(path)'
    OBVIOUS
  <2>1. ReconcilerSound /\ ApiSound
    BY DEF ObjectInv, ReconcilerSound
  <2>2. StepGrows(height)
    BY <1>1, <1>3, <2>1, NextGrows
  <2>3. Grows
    BY <2>1, <2>2, ApiGrows DEF GrowInv, StepGrows
  <2>4. StepRises(path)
    BY <1>1, <1>2, <1>3, NextRises
  <2> QED
    BY <2>1, <2>2, <2>3, <2>4, GrowKeeps, RiseKeeps
<1>6. RiseInv(path) => NeverFailed
  BY RisingNeverFails
<1> QED
  BY <1>4, <1>5, <1>6, ObjectInvHolds, PTL DEF Spec

-----------------------------------------------------------------------------
(***************************************************************************)
(* The status tells the truth: when the operator is done with a Ready      *)
(* object at the top of the tree, slapd has its entry as the newest spec   *)
(* wants it.                                                               *)
(*                                                                         *)
(* Ready is written once, when the entry is created (line 284), and stays  *)
(* through every later edit, so the argument is about what the operator    *)
(* still has to do.  If nothing is on its way to it that concerns an       *)
(* object, then its worker works on the version the API server holds, or   *)
(* it has done so and left slapd right.                                    *)
(***************************************************************************)

(* Each secret keeps its password, though it may vanish and come back: of    *)
(* another one nothing would tell the operator (line 296).                   *)
CONSTANT PasswordIn

SecretsKept == \A s \in SecretRefs : secret[s] \in {None, PasswordIn[s]}

(* No two objects ever ask for the same entry at the top of the tree.        *)
OwnPlaces ==
    \A o, x \in Objects : (o # x /\ KindOf[o] = KindOf[x]) =>
        \A s \in Specs[o], t \in Specs[x] :
            (s.parent = None /\ t.parent = None) => s.name # t.name

(* Nothing is on its way to the operator that concerns o. *)
Current(o) == store[o] # None /\ watch[o] = <<>> /\ o \notin queue

PasswordsFor(spec) == {IF spec.secretRef = None THEN None ELSE PasswordIn[spec.secretRef]}

(* slapd has what o asks for, being version v at the top of the tree. *)
Right(o, v) ==
    LET d == <<RDNOf(o, v)>>
    IN  /\ d \in Entries
        /\ dit[d].content = v.spec.content
        /\ dit[d].pw \in PasswordsFor(v.spec)

(* A name of one RDN is that of a top entry, once it is complete. *)
Placed(k) ==
    LET w == worker[k] IN
    (w.pc \in Composed /\ Len(w.dn) = 1) =>
        \E s \in Specs[w.key] :
            /\ w.dn[1].name = s.name
            /\ s.parent = IF w.pc = "getDistinguishedName" THEN w.climb ELSE None

(* The call asks for the entry of a spec, and knows whether it is there. *)
Asks(k, spec) ==
    LET c == call[k] IN
    /\ c.entry.name = spec.name /\ c.entry.content = spec.content
    /\ c.entry.pw \in PasswordsFor(spec)

Found(k) ==
    LET c == call[k] IN
    (c.step \in {"modify", "bind", "setPassword"} \/ (c.step = "returned" /\ c.ok))
    => c.dn \in Entries

(* A worker at a current object works on the version the API server holds,  *)
(* and says Ready only of what is right.                                     *)
InStep(k) ==
    LET w == worker[k] IN
    (w.pc # "idle" /\ Current(w.key)) =>
        /\ w.obj = store[w.key]
        /\ w.pc \in {"deleteEntry", "removeFinalizer"} => w.obj.deleting
        /\ w.obj.spec.parent = None =>
             /\ w.pc \in Composed => w.dn = <<RDNOf(w.key, w.obj)>>
             /\ w.pc = "getDistinguishedName" => w.climb = None
             /\ w.pc = "upsertEntry" => Asks(k, w.obj.spec) /\ Found(k)
             /\ (w.pc = "mark" /\ w.status = "Ready") => Right(w.key, w.obj)

(* A deletion gets at no other top entry than its own. *)
FramesBelow(d) ==
    {f \in Frame : /\ f.dn = d \/ Len(f.dn) # 1
                   /\ \A e \in f.kids : Len(e) # 1}

DeletesBelow(k) ==
    LET c == call[k] IN
    c.step = "delete" => c.frames \in Seq(FramesBelow(c.dn))

(* What the operator is done with is right. *)
ReadyTrue(o) ==
    (/\ Current(o) /\ worker[KindOf[o]].key # o
     /\ IsReady(o) /\ ~store[o].deleting /\ store[o].spec.parent = None)
    => Right(o, store[o])

ReadyInv ==
    /\ \A k \in Kinds : Placed(k) /\ InStep(k) /\ DeletesBelow(k)
    /\ \A o \in Objects : ReadyTrue(o)

-----------------------------------------------------------------------------
(* Top entries and the requests of the clients.                            *)

(* slapd keeps a top entry that a client has not been called for. *)
LEMMA TopKept ==
    ASSUME ClientInv, NEW j \in Kinds, DeletesBelow(j), ClientStep(j),
           NEW d \in Entries, Len(d) = 1, d # call[j].dn
    PROVE  d \in Entries' /\ dit'[d] = dit[d]
<1> DEFINE c == call[j]
<1>1. CASE UNCHANGED dit
  BY <1>1 DEF Entries
<1>2. ASSUME NEW e, dit' = With(c.dn, e)
      PROVE  d \in Entries' /\ dit'[d] = dit[d]
  BY <1>2 DEF With, Entries
<1>3. CASE c.step = "delete" /\ Unvisited(c) = {} /\ dit' = Deleted(c)
  <2>1. c.frames # <<>> /\ c.frames \in Seq(FramesBelow(c.dn))
    BY <1>3 DEF Unvisited, DeletesBelow
  <2>2. PICK f \in FramesBelow(c.dn) : f = Head(c.frames)
    BY <2>1
  <2>3. f.dn # d
    <3>1. f.dn = c.dn \/ Len(f.dn) # 1
      BY DEF FramesBelow
    <3> QED
      BY <3>1
  <2> QED
    BY <1>3, <2>2, <2>3 DEF Deleted, Without, Entries
<1>4. ASSUME \/ UNCHANGED dit
             \/ dit' = Added(c) \/ dit' = Modified(c) \/ dit' = PasswordSet(c)
             \/ c.step = "delete" /\ Unvisited(c) = {} /\ dit' = Deleted(c)
      PROVE  d \in Entries' /\ dit'[d] = dit[d]
  <2>1. CASE dit' = Added(c) \/ dit' = Modified(c) \/ dit' = PasswordSet(c)
    <3>1. PICK e : dit' = With(c.dn, e)
      BY <2>1, Zenon DEF Added, Modified, PasswordSet
    <3> QED
      BY <1>2, <3>1
  <2> QED
    BY <1>1, <1>3, <1>4, <2>1
<1>5. CASE Search(j) \/ Bind(j) \/ DeleteSearch(j) \/ RequestFails(j)
  BY <1>1, <1>5 DEF Search, Bind, DeleteSearch, RequestFails
<1>6. CASE Add(j) \/ Modify(j) \/ SetPassword(j)
  BY <1>4, <1>6 DEF Add, Modify, SetPassword
<1>7. CASE DeleteRequest(j) \/ ReplyLost(j)
  BY <1>4, <1>7 DEF DeleteRequest, ReplyLost
<1> QED
  BY <1>5, <1>6, <1>7 DEF ClientStep, Request, UpsertUser, UpsertEntry, Deletion

(* A child has a longer name than a top entry. *)
LEMMA KidsLonger ==
    ASSUME ClientInv, NEW d \in DN, NEW e \in Children(d)
    PROVE  Len(e) # 1
<1>1. /\ e \in Seq(RDN) /\ e # <<>> /\ d \in Seq(RDN) /\ d # <<>> /\ Tail(e) = d
  BY DEF Children, ClientInv, ClientTypeOK, DN
<1>2. Len(Tail(e)) = Len(e) - 1 /\ Len(e) \in Nat /\ Len(d) \in Nat /\ Len(d) # 0
  BY <1>1, HeadTailProperties, LenProperties, EmptySeq
<1> QED
  BY <1>1, <1>2

LEMMA DeletesBelowKept ==
    ASSUME ClientInv, NEW j \in Kinds, DeletesBelow(j), ClientStep(j)
    PROVE  DeletesBelow(j)'
<1> DEFINE c == call[j]
           S == FramesBelow(c.dn)
<1>0. c.frames \in Seq(Frame) /\ call \in [Kinds -> Call]
  BY DEF ClientInv, ClientTypeOK, Call
<1>1. ASSUME NEW step, NEW found, NEW created, NEW ok, NEW frames,
             Becomes(j, step, found, frames, created, ok),
             step = "delete" => frames \in Seq(S)
      PROVE  DeletesBelow(j)'
  <2>1. call'[j].step = step /\ call'[j].dn = c.dn /\ call'[j].frames = frames
    BY <1>1, BecomesFields
  <2> QED
    BY <1>1, <2>1 DEF DeletesBelow, FramesBelow
<1>2. ASSUME NEW d \in Unvisited(c), c.step = "delete"
      PROVE  Entered(c.frames, d) \in Seq(S)
  <2>0. c.frames \in Seq(S) /\ c.dn \in DN
    BY <1>2 DEF DeletesBelow, ClientInv, CallSound
  <2>1. PICK new : new = [dn |-> d, kids |-> Children(d)]
    OBVIOUS
  <2>2. d \in DN /\ (d = c.dn \/ Len(d) # 1)
    <3>1. CASE c.frames = <<>>
      BY <1>2, <2>0, <3>1 DEF Unvisited
    <3>2. CASE c.frames # <<>>
      <4>1. Head(c.frames) \in S /\ d \in Head(c.frames).kids
        BY <1>2, <2>0, <3>2 DEF Unvisited
      <4> QED
        BY <4>1 DEF FramesBelow, Frame
    <3> QED
      BY <3>1, <3>2
  <2>3. new \in S
    <3>1. Children(d) \in SUBSET DN
      BY DEF Children, ClientInv, ClientTypeOK
    <3> QED
      BY <2>1, <2>2, <3>1, KidsLonger DEF FramesBelow, Frame
  <2>4. CASE c.frames = <<>>
    <3>1. PICK t : t = <<>>
      OBVIOUS
    <3>2. t \in Seq(S)
      BY <3>1
    <3>3. Entered(c.frames, d) = <<new>> \o t
      BY <2>1, <2>4, <3>1 DEF Entered
    <3> QED
      BY <2>3, <3>2, <3>3, ConsProperties
  <2>5. CASE c.frames # <<>>
    <3>1. PICK old : old = [dn |-> Head(c.frames).dn, kids |-> Head(c.frames).kids \ {d}]
      OBVIOUS
    <3>2. Head(c.frames) \in S /\ Tail(c.frames) \in Seq(S)
      BY <2>0, <2>5, HeadTailProperties
    <3>3. old \in S
      BY <3>1, <3>2 DEF FramesBelow, Frame
    <3>4. PICK t : t = <<old>> \o Tail(c.frames)
      OBVIOUS
    <3>5. t \in Seq(S)
      BY <3>2, <3>3, <3>4, ConsProperties
    <3>6. Entered(c.frames, d) = <<new>> \o (<<old>> \o Tail(c.frames))
      BY <2>1, <2>5, <3>1, Zenon DEF Entered
    <3> QED
      BY <2>3, <3>4, <3>5, <3>6, ConsProperties
  <2> QED
    BY <2>4, <2>5
<1>3. CASE DeleteSearch(j)
  BY <1>1, <1>2, <1>3 DEF DeleteSearch
<1>4. CASE DeleteRequest(j)
  <2>1. c.step = "delete" /\ c.frames # <<>> /\ c.frames \in Seq(S)
    BY <1>4 DEF DeleteRequest, Unvisited, DeletesBelow
  <2>2. Tail(c.frames) \in Seq(S)
    BY <2>1, HeadTailProperties
  <2> QED
    BY <1>1, <1>4, <2>2 DEF DeleteRequest, Return, Fail
<1>5. CASE UpsertUser(j)
  BY <1>1, <1>5 DEF UpsertUser, UpsertEntry, Search, Add, Modify, Bind, SetPassword,
                    Goto, Return, Fail
<1>6. CASE RequestFails(j) \/ ReplyLost(j)
  BY <1>1, <1>6 DEF RequestFails, ReplyLost, Return, Fail
<1> QED
  BY <1>3, <1>4, <1>5, <1>6 DEF ClientStep, Request, Deletion

(* The entry a request was about is there when the next request is sent. *)
LEMMA FoundKept ==
    ASSUME ObjectInv, NEW k \in Kinds, call[k].entry # None, Found(k), ClientStep(k)
    PROVE  Found(k)'
<1> DEFINE c == call[k]
<1>0. ClientInv /\ c.dn \in DN
  BY ClientStepMoves DEF ObjectInv, ClientInv, CallSound, CallMoves
<1>1. ASSUME NEW step, NEW found, NEW created, NEW ok, NEW frames,
             Becomes(k, step, found, frames, created, ok),
             (step \in {"modify", "bind", "setPassword"} \/ (step = "returned" /\ ok))
                => c.dn \in Entries'
      PROVE  Found(k)'
  <2>1. call'[k].step = step /\ call'[k].dn = c.dn /\ call'[k].ok = ok
    BY <1>0, <1>1, BecomesFields
  <2> QED
    BY <1>1, <2>1 DEF Found
<1>2. CASE Fail(k)
  BY <1>1, <1>2 DEF Fail, Return
<1>3. CASE Search(k)
  <2>1. ASSUME NEW d \in First(c.dn, Matches(c.dn, k, c.entry.name))
        PROVE  c.dn \in Entries
    BY <1>0, <2>1 DEF First, Matches, ObjectInv, DeletionInv, Rooted
  <2>2. Entries' = Entries
    BY <1>3 DEF Search, Entries
  <2> QED
    BY <1>1, <1>3, <2>1, <2>2 DEF Search, Goto, Return
<1>4. ASSUME NEW e, dit' = With(c.dn, e)
      PROVE  c.dn \in Entries'
  BY <1>4 DEF With, Entries
<1>5. CASE Add(k)
  <2>1. ASSUME dit' = Added(c)
        PROVE  c.dn \in Entries'
    BY <1>4, <2>1 DEF Added
  <2> QED
    BY <1>1, <1>2, <1>5, <2>1 DEF Add, Return
<1>6. CASE Modify(k)
  <2>1. ASSUME dit' = Modified(c)
        PROVE  c.dn \in Entries'
    <3>1. PICK e : dit' = With(c.dn, e)
      BY <2>1, Zenon DEF Modified
    <3> QED
      BY <1>4, <3>1
  <2> QED
    BY <1>1, <1>2, <1>6, <2>1 DEF Modify, Goto, Return
<1>7. CASE Bind(k)
  <2>1. c.dn \in Entries'
    BY <1>7 DEF Bind, Found, Entries
  <2> QED
    BY <1>1, <1>2, <1>7, <2>1 DEF Bind, Goto, Return
<1>8. CASE SetPassword(k)
  <2>1. ASSUME dit' = PasswordSet(c)
        PROVE  c.dn \in Entries'
    BY <1>4, <2>1 DEF PasswordSet
  <2> QED
    BY <1>1, <1>2, <1>8, <2>1 DEF SetPassword, Return
<1>9. c.step # "delete"
  BY <1>0 DEF ClientInv, CallSound
<1> QED
  BY <1>2, <1>3, <1>5, <1>6, <1>7, <1>8, <1>9
     DEF ClientStep, Request, UpsertUser, UpsertEntry, Deletion, DeleteSearch, DeleteRequest,
         RequestFails, ReplyLost

-----------------------------------------------------------------------------
(* What comes between an object and its worker.                            *)

(* After the step o is current only if it was and the step did not touch it. *)
Undisturbed(o) == Current(o)' => (Current(o) /\ store'[o] = store[o])

(* The cache has caught up. *)
LEMMA CurrentCached ==
    ASSUME ObjectInv, LastIsStored, NEW o \in Objects, watch[o] = <<>>
    PROVE  cache[o] = store[o]
<1>1. ApiSound
  BY DEF ObjectInv, ReconcilerSound
<1>2. PICK c, n : c = Chain(o) /\ n = Len(watch[o])
  OBVIOUS
<1>3. Len(c) = n + 1 /\ c[1] = cache[o]
  BY <1>1, <1>2, ChainFacts
<1>4. n = 0
  BY <1>2
<1>5. c[Len(c)] = store[o]
  BY <1>2 DEF LastIsStored
<1> QED
  BY <1>3, <1>4, <1>5

LEMMA PublishUndisturbing ==
    ASSUME ObjectInv, NEW o \in Objects, NEW v, Publish(o, v), queue \subseteq queue'
    PROVE  \A x \in Objects : Undisturbed(x)
<1>1. /\ store' = [store EXCEPT ![o] = v] /\ watch' = [watch EXCEPT ![o] = Append(watch[o], v)]
      /\ DOMAIN store = Objects /\ DOMAIN watch = Objects
      /\ watch[o] \in Seq(Version \cup {None})
  BY DEF Publish, ObjectInv, ReconcilerSound, ApiSound
<1>2. Append(watch[o], v) # <<>>
  <2>1. PICK S : watch[o] \in Seq(S) /\ v \in S
    <3>1. watch[o] \in Seq(Version \cup {None, v})
      BY <1>1
    <3> QED
      BY <3>1
  <2> QED
    BY <2>1, AppendProperties
<1> QED
  BY <1>1, <1>2 DEF Undisturbed, Current

LEMMA WriteUndisturbing ==
    ASSUME ObjectInv, queue \subseteq queue',
           UNCHANGED <<store, watch>> \/ \E o \in Objects, v \in Version \cup {None} : Write(o, v)
    PROVE  \A x \in Objects : Undisturbed(x)
<1>1. CASE UNCHANGED <<store, watch>>
  BY <1>1 DEF Undisturbed, Current
<1> QED
  BY <1>1, PublishUndisturbing DEF Write

(* What is written is there, unless nobody has heard of it yet. *)
LEMMA WrittenThere ==
    ASSUME ObjectInv, NEW o \in Objects, NEW v, Write(o, v)
    PROVE  store'[o] = v
BY DEF Write, Publish, ObjectInv, ReconcilerSound, ApiSound

(* A worker that stands still, at an object to which nothing happens. *)
LEMMA StillInStep ==
    ASSUME NEW j \in Kinds, worker'[j] = worker[j], call'[j] = call[j], UNCHANGED dit,
           worker[j].pc # "idle" => Undisturbed(worker[j].key),
           Placed(j), InStep(j), DeletesBelow(j)
    PROVE  Placed(j)' /\ InStep(j)' /\ DeletesBelow(j)'
<1>1. PICK w, c : w = worker[j] /\ w = worker'[j] /\ c = call[j] /\ c = call'[j]
  OBVIOUS
<1>2. Placed(j)' /\ DeletesBelow(j)'
  BY DEF Placed, DeletesBelow
<1>3. ASSUME w.pc # "idle", Current(w.key)'
      PROVE  Current(w.key) /\ store'[w.key] = store[w.key]
  BY <1>1, <1>3 DEF Undisturbed, Current
<1>4. InStep(j)'
  BY <1>1, <1>3 DEF InStep, Current, Asks, Found, Right, Entries
<1> QED
  BY <1>2, <1>4

LEMMA StillTrue ==
    ASSUME NEW o \in Objects, Undisturbed(o), UNCHANGED dit, ReadyTrue(o),
           worker[KindOf[o]].key = o => worker'[KindOf[o]].key = o
    PROVE  ReadyTrue(o)'
BY DEF Undisturbed, ReadyTrue, IsReady, Right, RDNOf, Entries

(* Nothing happens to an object that the operator would not be told. *)
LEMMA AsideReady ==
    ASSUME ReadyInv, ObjectInv, UNCHANGED <<dit, call, worker>>,
           \A o \in Objects : Undisturbed(o)
    PROVE  ReadyInv'
<1>1. ASSUME NEW j \in Kinds
      PROVE  Placed(j)' /\ InStep(j)' /\ DeletesBelow(j)'
  <2>1. worker[j].pc # "idle" => worker[j].key \in Objects
    BY AtWork DEF ObjectInv
  <2> QED
    BY <2>1, StillInStep DEF ReadyInv
<1>2. \A o \in Objects : ReadyTrue(o)'
  BY StillTrue DEF ReadyInv
<1> QED
  BY <1>1, <1>2 DEF ReadyInv

(* Worker k acts on its object x. *)
OneActs(k, x) ==
    /\ x \in Objects /\ KindOf[x] = k /\ worker[k].key \in {x, None}
    /\ UNCHANGED dit
    /\ \A j \in Kinds \ {k} : worker'[j] = worker[j] /\ call'[j] = call[j]
    /\ \A o \in Objects \ {x} : Undisturbed(o)

LEMMA OneReady ==
    ASSUME ObjectInv, ReadyInv, NEW k \in Kinds, NEW x, OneActs(k, x),
           Placed(k)', InStep(k)', DeletesBelow(k)', ReadyTrue(x)'
    PROVE  ReadyInv'
<1>1. ASSUME NEW j \in Kinds \ {k}
      PROVE  Placed(j)' /\ InStep(j)' /\ DeletesBelow(j)'
  <2>1. worker[j].pc # "idle" => worker[j].key \in Objects \ {x}
    BY AtWork DEF ObjectInv, OneActs
  <2> QED
    BY <2>1, StillInStep DEF ReadyInv, OneActs
<1>2. ASSUME NEW o \in Objects \ {x}
      PROVE  ReadyTrue(o)'
  <2>1. worker[KindOf[o]].key = o => worker'[KindOf[o]].key = o
    BY ObjectsAssumption DEF OneActs
  <2> QED
    BY <2>1, StillTrue DEF ReadyInv, OneActs
<1> QED
  BY <1>1, <1>2 DEF ReadyInv, OneActs

(* Only deleteEntry deletes. *)
LEMMA NoDeletionUnderway ==
    ASSUME ObjectInv', NEW k \in Kinds, worker'[k].pc # "deleteEntry"
    PROVE  DeletesBelow(k)'
<1>1. call'[k].step = "idle" \/ call'[k].entry # None
  BY DEF ObjectInv, Linked, Calling
<1>2. call'[k].step # "delete"
  BY <1>1 DEF ObjectInv, ClientInv, CallSound
<1> QED
  BY <1>2 DEF DeletesBelow

(* The worker returns: what it leaves behind comes back or is right. *)
LEMMA FinishReady ==
    ASSUME ObjectInv, ObjectInv', ReadyInv, NEW k \in Kinds, NEW x, OneActs(k, x),
           worker'[k] = Idle, x \in queue' \/ ReadyTrue(x)'
    PROVE  ReadyInv'
<1>1. worker'[k].pc = "idle"
  BY IdleSound
<1>2. Placed(k)' /\ InStep(k)'
  BY <1>1 DEF Placed, InStep, Composed
<1>3. DeletesBelow(k)'
  <2>1. worker'[k].pc # "deleteEntry"
    BY <1>1
  <2> QED
    BY <2>1, NoDeletionUnderway
<1>4. ReadyTrue(x)'
  BY DEF ReadyTrue, Current
<1> QED
  BY <1>2, <1>3, <1>4, OneReady

(* The worker goes on to step pc with its object. *)
LEMMA OnReady ==
    ASSUME ObjectInv, ObjectInv', ReadyInv, NEW k \in Kinds, NEW x, OneActs(k, x),
           worker'[k].key = x, worker'[k].pc # "deleteEntry", Placed(k)', InStep(k)'
    PROVE  ReadyInv'
<1>1. DeletesBelow(k)'
  BY NoDeletionUnderway
<1>2. ReadyTrue(x)'
  BY DEF ReadyTrue, OneActs
<1> QED
  BY <1>1, <1>2, OneReady

(* One step of Reconcile that leaves slapd alone. *)
Acts(k) ==
    /\ worker[k].pc # "idle" /\ UNCHANGED dit
    /\ \A j \in Kinds \ {k} : worker'[j] = worker[j] /\ call'[j] = call[j]
    /\ \A o \in Objects : Undisturbed(o)

LEMMA ActsAlone ==
    ASSUME ObjectInv, NEW k \in Kinds, Acts(k)
    PROVE  OneActs(k, worker[k].key)
BY AtWork DEF Acts, OneActs, ObjectInv

(* What a worker may do when nothing is written. *)
LEMMA ActsUnwritten ==
    ASSUME ObjectInv, NEW k \in Kinds, worker[k].pc # "idle",
           UNCHANGED <<dit, call, store, watch>>,
           \/ \E w : Continue(k, w)
           \/ \E requeue : Finish(k, requeue)
    PROVE  Acts(k)
<1>1. queue \subseteq queue'
  BY DEF Continue, Finish
<1>2. \A j \in Kinds \ {k} : worker'[j] = worker[j]
  BY WorkerBecomes
<1> QED
  BY <1>1, <1>2, WriteUndisturbing DEF Acts

(* The worker goes on with the object it has in memory. *)
Early == {"resolveReferences", "resolveDirectory", "resolveParent", "removeFinalizer", "mark"}

LEMMA GoesOnReady ==
    ASSUME ObjectInv, ObjectInv', ReadyInv, NEW k \in Kinds, Acts(k),
           NEW n, worker'[k] = n, n.key = worker[k].key, n.obj = worker[k].obj, n.pc \in Early,
           n.pc = "removeFinalizer" => n.obj.deleting \/ worker[k].pc = "deleteEntry",
           n.pc = "mark" => n.status # "Ready"
    PROVE  ReadyInv'
<1>1. PICK w, x : w = worker[k] /\ x = worker[k].key
  OBVIOUS
<1>2. OneActs(k, x) /\ Undisturbed(x) /\ w.pc # "idle"
  BY <1>1, ActsAlone DEF Acts, OneActs
<1>3. Placed(k)'
  BY DEF Placed, Early, Composed
<1>4. ASSUME Current(x)'
      PROVE  n.obj = store'[x] /\ (n.pc = "removeFinalizer" => n.obj.deleting)
  BY <1>1, <1>2, <1>4 DEF Undisturbed, ReadyInv, InStep
<1>5. InStep(k)'
  BY <1>1, <1>4 DEF InStep, Current, Early, Composed
<1> QED
  BY <1>1, <1>2, <1>3, <1>5, OnReady DEF Early

LEMMA MarkedReady ==
    ASSUME ObjectInv, ObjectInv', ReadyInv, NEW k \in Kinds, Acts(k),
           NEW requeue, MarkPending(k) \/ MarkFailed(k, requeue)
    PROVE  ReadyInv'
<1> DEFINE w == worker[k]
<1>1. w \in Worker /\ w.pc # "idle"
  BY AtWork DEF ObjectInv, Acts
<1>2. ASSUME NEW phase, phase # "Ready", NEW again, Continue(k, Marking(w, phase, again))
      PROVE  ReadyInv'
  <2>1. PICK n : n = Marking(w, phase, again)
    OBVIOUS
  <2>2. n.pc = "mark" /\ n.status = phase /\ n.key = w.key /\ n.obj = w.obj
    BY <1>1, <2>1 DEF Marking, Worker
  <2>3. worker'[k] = n
    BY <1>2, <2>1, WorkerBecomes
  <2> QED
    BY <1>2, <2>2, <2>3, GoesOnReady DEF Early
<1>3. CASE MarkPending(k)
  BY <1>2, <1>3 DEF MarkPending
<1>4. CASE MarkFailed(k, requeue)
  BY <1>2, <1>4 DEF MarkFailed
<1> QED
  BY <1>3, <1>4

(* The worker returns, and the key comes back. *)
LEMMA RetriedReady ==
    ASSUME ObjectInv, ObjectInv', ReadyInv, NEW k \in Kinds, Acts(k), Finish(k, TRUE)
    PROVE  ReadyInv'
<1>1. PICK x : x = worker[k].key
  OBVIOUS
<1>2. worker'[k] = Idle /\ x \in queue'
  BY <1>1, WorkerBecomes DEF Finish
<1> QED
  BY <1>1, <1>2, ActsAlone, FinishReady

-----------------------------------------------------------------------------
(* The steps of Reconcile that lead to the name.                           *)

LEMMA GetReady ==
    ASSUME ObjectInv, ObjectInv', LastIsStored, ReadyInv,
           NEW k \in Kinds, NEW o \in Objects, Get(k, o)
    PROVE  ReadyInv'
<1>1. /\ worker[k].pc = "idle" /\ worker[k].key = None /\ KindOf[o] = k
      /\ UNCHANGED <<dit, call, store, cache, watch>> /\ queue' = queue \ {o}
      /\ worker \in [Kinds -> Worker]
  BY IdleSound DEF Get, At, clientVars, ObjectInv, ReconcilerSound, WorkersSound, Sound
<1>2. \A j \in Kinds \ {k} : worker'[j] = worker[j]
  BY <1>1 DEF Get
<1>3. OneActs(k, o)
  BY <1>1, <1>2 DEF OneActs, Undisturbed, Current
<1>4. ASSUME Current(o)'
      PROVE  cache[o] = store'[o] /\ store'[o] # None
  BY <1>1, <1>4, CurrentCached DEF Current
<1>5. CASE cache[o] = None /\ UNCHANGED worker
  <2>1. worker'[k].pc = "idle" /\ worker'[k].pc # "deleteEntry"
    BY <1>1, <1>5
  <2>2. Placed(k)' /\ InStep(k)' /\ DeletesBelow(k)'
    BY <2>1, NoDeletionUnderway DEF Placed, InStep, Composed
  <2>3. ReadyTrue(o)'
    BY <1>4, <1>5 DEF ReadyTrue
  <2> QED
    BY <1>3, <2>2, <2>3, OneReady
<1>6. CASE cache[o] # None /\ worker' = [worker EXCEPT ![k] =
             [Idle EXCEPT !.key = o, !.obj = cache[o], !.pc = FirstStep(cache[o])]]
  <2>1. PICK n : n = [Idle EXCEPT !.key = o, !.obj = cache[o], !.pc = FirstStep(cache[o])]
    OBVIOUS
  <2>2. /\ worker'[k] = n /\ n.key = o /\ n.obj = cache[o]
        /\ n.pc \in {"addFinalizer", "resolveReferences"}
    BY <1>1, <1>6, <2>1, IdleSound DEF FirstStep, Worker
  <2>3. Placed(k)' /\ InStep(k)'
    BY <1>4, <2>2 DEF Placed, InStep, Current, Composed
  <2> QED
    BY <1>3, <2>2, <2>3, OnReady
<1> QED
  BY <1>5, <1>6 DEF Get

LEMMA AddFinalizerReady ==
    ASSUME ObjectInv, ObjectInv', LastIsStored, ReadyInv, NEW k \in Kinds, AddFinalizer(k)
    PROVE  ReadyInv'
<1> DEFINE w == worker[k]
<1>0. PICK o : o = w.key
  OBVIOUS
<1>1. /\ w.pc = "addFinalizer" /\ w.pc # "idle" /\ UNCHANGED <<dit, call, cache>>
      /\ w \in Worker /\ o \in Objects /\ KindOf[o] = k /\ store[o] \in VersionsOf(o) \cup {None}
  BY <1>0, AtWork DEF AddFinalizer, At, clientVars, ObjectInv
<1>2. ASSUME NEW v, Continue(k, [To(w, "resolveReferences") EXCEPT !.obj = v]), Acts(k),
             Current(o) => v = store'[o]
      PROVE  ReadyInv'
  <2>1. PICK n : n = [To(w, "resolveReferences") EXCEPT !.obj = v]
    OBVIOUS
  <2>2. n.pc = "resolveReferences" /\ n.key = o /\ n.obj = v
    BY <1>0, <1>1, <2>1 DEF To, Worker
  <2>3. worker'[k] = n
    BY <1>2, <2>1, WorkerBecomes
  <2>4. Current(o)' => v = store'[o]
    BY <1>1, <1>2 DEF Acts, Undisturbed
  <2>5. Placed(k)' /\ InStep(k)'
    BY <2>2, <2>3, <2>4 DEF Placed, InStep, Current, Composed
  <2> QED
    BY <1>0, <1>2, <2>2, <2>3, <2>5, ActsAlone, OnReady
<1>3. CASE /\ cache[o] # None
           /\ Continue(k, [To(w, "resolveReferences") EXCEPT !.obj = cache[o]])
           /\ UNCHANGED <<store, watch>>
  <2>1. Acts(k)
    BY <1>1, <1>3, ActsUnwritten
  <2>2. Current(o) => cache[o] = store'[o]
    BY <1>1, <1>3, CurrentCached DEF Current
  <2> QED
    BY <1>2, <1>3, <2>1, <2>2
<1>4. CASE /\ store[o] # None
           /\ Write(o, [store[o] EXCEPT !.finalizer = TRUE])
           /\ Continue(k, [To(w, "resolveReferences") EXCEPT
                 !.obj = [store[o] EXCEPT !.finalizer = TRUE]])
  <2>1. PICK v, n : v = store[o] /\ n = [v EXCEPT !.finalizer = TRUE]
    OBVIOUS
  <2>2. n \in Version
    BY <1>1, <1>4, <2>1 DEF VersionsOf, Version
  <2>3. Write(o, n) /\ Continue(k, [To(w, "resolveReferences") EXCEPT !.obj = n])
    BY <1>4, <2>1
  <2>4. Acts(k)
    BY <1>1, <2>2, <2>3, WriteUndisturbing, WorkerBecomes DEF Acts, Continue
  <2> QED
    BY <1>1, <1>2, <2>3, <2>4, WrittenThere
<1>5. CASE Finish(k, TRUE) /\ UNCHANGED <<store, watch>>
  BY <1>1, <1>5, ActsUnwritten, RetriedReady
<1> QED
  BY <1>0, <1>3, <1>4, <1>5 DEF AddFinalizer, Unpatchable

LEMMA ResolveReady ==
    ASSUME ObjectInv, ObjectInv', ReadyInv, NEW k \in Kinds,
           ResolveReferences(k) \/ ResolveDirectory(k)
    PROVE  ReadyInv'
<1> DEFINE w == worker[k]
<1>1. /\ w.pc \in {"resolveReferences", "resolveDirectory"} /\ w.pc # "idle" /\ w \in Worker
      /\ UNCHANGED <<dit, call, store, watch>>
  BY AtWork DEF ResolveReferences, ResolveDirectory, At, clientVars, ObjectInv
<1>2. CASE MarkPending(k)
  BY <1>1, <1>2, ActsUnwritten, MarkedReady DEF MarkPending
<1>3. ASSUME NEW n, Continue(k, n), n.key = w.key, n.obj = w.obj, n.pc \in Early \ {"mark"},
             n.pc = "removeFinalizer" => n.obj.deleting
      PROVE  ReadyInv'
  <2>1. worker'[k] = n
    BY <1>3, WorkerBecomes
  <2> QED
    BY <1>1, <1>3, <2>1, ActsUnwritten, GoesOnReady
<1>4. ASSUME NEW pc \in Early \ {"mark"}, Continue(k, To(w, pc)),
             pc = "removeFinalizer" => w.obj.deleting
      PROVE  ReadyInv'
  <2>1. PICK n : n = To(w, pc)
    OBVIOUS
  <2>2. n.pc = pc /\ n.key = w.key /\ n.obj = w.obj
    BY <1>1, <2>1 DEF To, Worker
  <2> QED
    BY <1>3, <1>4, <2>1, <2>2
<1>5. ASSUME NEW owner, Continue(k, [To(w, "resolveParent") EXCEPT !.owner = owner])
      PROVE  ReadyInv'
  <2>1. PICK n : n = [To(w, "resolveParent") EXCEPT !.owner = owner]
    OBVIOUS
  <2>2. n.pc = "resolveParent" /\ n.key = w.key /\ n.obj = w.obj
    BY <1>1, <2>1 DEF To, Worker
  <2> QED
    BY <1>3, <1>5, <2>1, <2>2 DEF Early
<1>6. CASE ResolveReferences(k)
  <2>1. CASE Continue(k, To(w, "resolveDirectory"))
    BY <1>4, <2>1 DEF Early
  <2>2. CASE w.obj.deleting /\ Continue(k, To(w, "removeFinalizer"))
    BY <1>4, <2>2 DEF Early
  <2> QED
    BY <1>2, <1>6, <2>1, <2>2 DEF ResolveReferences, Unresolved
<1> QED
  BY <1>2, <1>5, <1>6 DEF ResolveDirectory

(* A new name is that of the spec in memory. *)
LEMMA ResolveParentReady ==
    ASSUME ObjectInv, ObjectInv', ReadyInv, NEW k \in Kinds, ResolveParent(k)
    PROVE  ReadyInv'
<1> DEFINE w == worker[k]
<1>0. PICK x, v : x = w.key /\ v = w.obj
  OBVIOUS
<1>1. /\ w.pc = "resolveParent" /\ w.pc # "idle" /\ w \in Worker
      /\ x \in Objects /\ v \in VersionsOf(x)
      /\ UNCHANGED <<dit, call, store, watch>>
  BY <1>0, AtWork DEF ResolveParent, At, clientVars, ObjectInv
<1>2. CASE MarkPending(k) \/ MarkFailed(k, TRUE)
  BY <1>1, <1>2, ActsUnwritten, MarkedReady DEF MarkPending, MarkFailed
<1>3. ASSUME NEW n, Continue(k, n),
             n = Named(w) \/ \E owner : n = [Named(w) EXCEPT !.owner = owner]
      PROVE  ReadyInv'
  <2>1. PICK d : d = <<RDNOf(x, v)>>
    OBVIOUS
  <2>2. /\ n.pc = "getDistinguishedName" /\ n.key = x /\ n.obj = v
        /\ n.dn = d /\ n.climb = v.spec.parent
    BY <1>0, <1>1, <1>3, <2>1 DEF Named, To, Worker
  <2>3. worker'[k] = n /\ Acts(k)
    BY <1>1, <1>3, WorkerBecomes, ActsUnwritten
  <2>4. d[1].name = v.spec.name /\ v.spec \in Specs[x]
    BY <1>1, <2>1 DEF RDNOf, VersionsOf
  <2>5. Placed(k)'
    BY <2>2, <2>3, <2>4 DEF Placed
  <2>6. Current(x)' => v = store'[x]
    BY <1>0, <1>1, <2>3 DEF Acts, Undisturbed, ReadyInv, InStep
  <2>7. InStep(k)'
    BY <2>1, <2>2, <2>3, <2>6 DEF InStep, Current
  <2> QED
    BY <1>0, <2>2, <2>3, <2>5, <2>7, ActsAlone, OnReady
<1> QED
  BY <1>2, <1>3 DEF ResolveParent

(* An ancestor makes the name longer, and a complete one is that of a top    *)
(* entry only if no ancestor was asked for.                                  *)
LEMMA GetDistinguishedNameReady ==
    ASSUME ObjectInv, ObjectInv', ReadyInv, NEW k \in Kinds, GetDistinguishedName(k)
    PROVE  ReadyInv'
<1> DEFINE w == worker[k]
           p == w.climb
<1>0. PICK x, v, d : x = w.key /\ v = w.obj /\ d = w.dn
  OBVIOUS
<1>1. /\ w.pc = "getDistinguishedName" /\ w.pc # "idle" /\ w \in Worker
      /\ x \in Objects /\ v \in VersionsOf(x)
      /\ UNCHANGED <<dit, call, store, watch>>
  BY <1>0, AtWork DEF GetDistinguishedName, At, clientVars, ObjectInv
<1>2. CASE Finish(k, TRUE)
  BY <1>1, <1>2, ActsUnwritten, RetriedReady
<1>3. /\ d \in Seq(RDN) /\ d # <<>>
      /\ Len(d) = 1 => \E s \in Specs[x] : d[1].name = s.name /\ s.parent = p
      /\ Current(x) => /\ v = store[x]
                       /\ v.spec.parent = None => d = <<RDNOf(x, v)>> /\ p = None
  <2>1. w.pc \in Composed
    BY <1>1 DEF Composed
  <2>2. d \in Seq(RDN) /\ d # <<>>
    BY <1>0, <1>1, <2>1, AtWork DEF ObjectInv, Sound, DN
  <2> QED
    BY <1>0, <1>1, <2>1, <2>2 DEF ReadyInv, Placed, InStep
<1>4. ASSUME Acts(k)
      PROVE  Current(x)' => Current(x) /\ store'[x] = store[x]
  BY <1>1, <1>4 DEF Acts, Undisturbed
<1>5. CASE p \in Objects /\ Continue(k, Ascended(w, p))
  <2>1. PICK r, n : r = RDNOf(p, cache[p]) /\ n = Ascended(w, p)
    OBVIOUS
  <2>2. /\ n.pc = "getDistinguishedName" /\ n.key = x /\ n.obj = v /\ n.dn = Append(d, r)
    BY <1>0, <1>1, <2>1 DEF Ascended, Worker
  <2>3. worker'[k] = n /\ Acts(k)
    BY <1>1, <1>5, <2>1, WorkerBecomes, ActsUnwritten
  <2>4. Len(Append(d, r)) # 1
    <3>1. Len(d) \in Nat /\ Len(d) # 0
      BY <1>3, LenProperties, EmptySeq
    <3>2. Len(Append(d, r)) = Len(d) + 1
      BY <1>3
    <3> QED
      BY <3>1, <3>2
  <2>5. Placed(k)'
    BY <2>2, <2>3, <2>4 DEF Placed
  <2>6. Current(x)' => v = store'[x] /\ v.spec.parent # None
    BY <1>3, <1>4, <1>5, <2>3, ObjectsAssumption
  <2>7. InStep(k)'
    BY <2>2, <2>3, <2>6 DEF InStep, Current
  <2> QED
    BY <1>0, <2>2, <2>3, <2>5, <2>7, ActsAlone, OnReady
<1>6. ASSUME p = None, NEW pc, pc = IF v.deleting THEN "deleteEntry" ELSE "setOwner",
             Continue(k, To(w, pc))
      PROVE  ReadyInv'
  <2>1. PICK n : n = To(w, pc)
    OBVIOUS
  <2>2. n.pc = pc /\ n.key = x /\ n.obj = v /\ n.dn = d
    BY <1>0, <1>1, <2>1 DEF To, Worker
  <2>3. worker'[k] = n /\ Acts(k)
    BY <1>1, <1>6, <2>1, WorkerBecomes, ActsUnwritten
  <2>4. Placed(k)'
    BY <1>3, <1>6, <2>2, <2>3 DEF Placed
  <2>5. InStep(k)'
    BY <1>3, <1>4, <1>6, <2>2, <2>3 DEF InStep, Current
  <2>6. DeletesBelow(k)'
    <3>1. call'[k].step = "idle"
      BY <1>1 DEF ObjectInv, Linked, Calling
    <3> QED
      BY <3>1 DEF DeletesBelow
  <2>7. ReadyTrue(x)'
    BY <1>0, <1>1, <2>2, <2>3, AtWork DEF ReadyTrue, ObjectInv
  <2> QED
    BY <1>0, <2>3, <2>4, <2>5, <2>6, <2>7, ActsAlone, OneReady
<1> QED
  BY <1>0, <1>2, <1>5, <1>6 DEF GetDistinguishedName, OnceNamed

LEMMA SetOwnerReady ==
    ASSUME ObjectInv, ObjectInv', LastIsStored, ReadyInv, NEW k \in Kinds, SetOwner(k)
    PROVE  ReadyInv'
<1> DEFINE w == worker[k]
<1>0. PICK x, v, d : x = w.key /\ v = w.obj /\ d = w.dn
  OBVIOUS
<1>1. /\ w.pc = "setOwner" /\ w.pc # "idle" /\ w \in Worker /\ w.owner # None
      /\ x \in Objects /\ store[x] \in VersionsOf(x) \cup {None}
      /\ UNCHANGED <<dit, call, cache>>
  BY <1>0, AtWork DEF SetOwner, At, clientVars, ObjectInv
<1>2. /\ Len(d) = 1 => \E s \in Specs[x] : d[1].name = s.name /\ s.parent = None
      /\ Current(x) => /\ v = store[x] /\ v = cache[x]
                       /\ v.spec.parent = None => d = <<RDNOf(x, v)>>
  <2>1. w.pc \in Composed
    BY <1>1 DEF Composed
  <2>2. Current(x) => store[x] = cache[x]
    BY <1>1, CurrentCached DEF Current
  <2> QED
    BY <1>0, <1>1, <2>1, <2>2 DEF ReadyInv, Placed, InStep
<1>3. ASSUME NEW u, Continue(k, [To(w, "mapToEntry") EXCEPT !.obj = u]), Acts(k),
             u = cache[x] \/ u = store'[x]
      PROVE  ReadyInv'
  <2>1. PICK n : n = [To(w, "mapToEntry") EXCEPT !.obj = u]
    OBVIOUS
  <2>2. n.pc = "mapToEntry" /\ n.key = x /\ n.obj = u /\ n.dn = d
    BY <1>0, <1>1, <2>1 DEF To, Worker
  <2>3. worker'[k] = n
    BY <1>3, <2>1, WorkerBecomes
  <2>4. Current(x)' => Current(x) /\ u = store'[x] /\ u = v
    BY <1>1, <1>2, <1>3 DEF Acts, Undisturbed
  <2>5. Placed(k)'
    BY <1>2, <2>2, <2>3 DEF Placed
  <2>6. InStep(k)'
    BY <1>2, <2>2, <2>3, <2>4 DEF InStep, Current
  <2> QED
    BY <1>0, <1>3, <2>2, <2>3, <2>5, <2>6, ActsAlone, OnReady
<1>4. CASE /\ Continue(k, [To(w, "mapToEntry") EXCEPT !.obj = cache[x]])
           /\ UNCHANGED <<store, watch>>
  <2>1. Acts(k)
    BY <1>1, <1>4, ActsUnwritten
  <2> QED
    BY <1>3, <1>4, <2>1
<1>5. CASE /\ store[x] # None
           /\ Write(x, Owned(x, w.owner))
           /\ Continue(k, [To(w, "mapToEntry") EXCEPT !.obj = Owned(x, w.owner)])
  <2>1. PICK u : u = Owned(x, w.owner)
    OBVIOUS
  <2>2. u \in Version
    <3>1. w.owner \in Owner
      BY <1>1 DEF Worker
    <3> QED
      BY <1>1, <1>5, <2>1, <3>1 DEF Owned, VersionsOf, Version
  <2>3. Write(x, u) /\ Continue(k, [To(w, "mapToEntry") EXCEPT !.obj = u])
    BY <1>5, <2>1
  <2>4. Acts(k)
    BY <1>1, <2>2, <2>3, WriteUndisturbing, WorkerBecomes DEF Acts, Continue
  <2> QED
    BY <1>1, <1>3, <2>3, <2>4, WrittenThere
<1>6. CASE MarkFailed(k, FALSE) /\ UNCHANGED <<store, watch>>
  BY <1>1, <1>6, ActsUnwritten, MarkedReady DEF MarkFailed
<1> QED
  BY <1>0, <1>4, <1>5, <1>6 DEF SetOwner

(* A name leads to deleteEntry only if the object in memory is leaving. *)
LEMMA DeleteEntryReady ==
    ASSUME ObjectInv, ObjectInv', ReadyInv, NEW k \in Kinds, DeleteEntry(k)
    PROVE  ReadyInv'
<1> DEFINE w == worker[k]
<1>0. PICK x : x = w.key
  OBVIOUS
<1>1. /\ w.pc = "deleteEntry" /\ w.pc # "idle" /\ w \in Worker /\ worker \in [Kinds -> Worker]
      /\ call \in [Kinds -> Call] /\ x \in Objects /\ KindOf[x] = k
      /\ UNCHANGED <<dit, store, watch, queue>>
  BY <1>0, AtWork DEF DeleteEntry, At, CallDelete, Collect, kubernetes, ObjectInv, ReconcilerSound,
     WorkersSound, ClientInv, ClientTypeOK
<1>2. ASSUME \A j \in Kinds \ {k} : worker'[j] = worker[j] /\ call'[j] = call[j]
      PROVE  Acts(k)
  BY <1>1, <1>2, WriteUndisturbing DEF Acts
<1>3. CASE CallDelete(k, w.dn, TRUE) /\ UNCHANGED worker
  <2>1. call' = [call EXCEPT ![k] = NewCall("delete", w.dn, None, <<>>)]
    BY <1>3 DEF CallDelete
  <2>2. PICK c : c = NewCall("delete", w.dn, None, <<>>)
    OBVIOUS
  <2>3. call'[k] = c /\ c.frames = <<>> /\ \A j \in Kinds \ {k} : call'[j] = call[j]
    BY <1>1, <2>1, <2>2 DEF NewCall
  <2>4. Acts(k)
    BY <1>2, <1>3, <2>3
  <2>5. DeletesBelow(k)'
    <3>1. call'[k].frames = <<>>
      BY <2>3
    <3> QED
      BY <3>1 DEF DeletesBelow
  <2>6. Placed(k)'
    BY <1>3 DEF ReadyInv, Placed
  <2>7. InStep(k)'
    BY <1>1, <1>3 DEF ReadyInv, InStep, Current
  <2>8. ReadyTrue(x)'
    BY <1>0, <1>1, <1>3 DEF ReadyTrue
  <2> QED
    BY <1>0, <2>4, <2>5, <2>6, <2>7, <2>8, ActsAlone, OneReady
<1>4. CASE /\ Collect(k)
           /\ worker' = [worker EXCEPT ![k] =
                [To(w, "removeFinalizer") EXCEPT !.failed = ~call[k].ok]]
  <2>1. PICK n : n = [To(w, "removeFinalizer") EXCEPT !.failed = ~call[k].ok]
    OBVIOUS
  <2>2. n.pc = "removeFinalizer" /\ n.key = w.key /\ n.obj = w.obj
    BY <1>1, <2>1 DEF To, Worker
  <2>3. /\ worker'[k] = n /\ \A j \in Kinds \ {k} : worker'[j] = worker[j]
        /\ \A j \in Kinds \ {k} : call'[j] = call[j]
    BY <1>1, <1>4, <2>1 DEF Collect
  <2> QED
    BY <1>1, <1>2, <2>2, <2>3, GoesOnReady DEF Early
<1> QED
  BY <1>3, <1>4 DEF DeleteEntry

(* What is released is leaving, or has just been written. *)
LEMMA RemoveFinalizerReady ==
    ASSUME ObjectInv, ObjectInv', ReadyInv, NEW k \in Kinds, RemoveFinalizer(k)
    PROVE  ReadyInv'
<1> DEFINE w == worker[k]
<1>0. PICK x : x = w.key
  OBVIOUS
<1>1. /\ w.pc = "removeFinalizer" /\ w.pc # "idle"
      /\ x \in Objects /\ store[x] \in VersionsOf(x) \cup {None}
      /\ UNCHANGED <<dit, call>>
  BY <1>0, AtWork DEF RemoveFinalizer, At, clientVars, ObjectInv
<1>2. CASE Finish(k, TRUE) /\ UNCHANGED <<store, watch>>
  BY <1>1, <1>2, ActsUnwritten, RetriedReady
<1>3. ASSUME Finish(k, FALSE), Acts(k)
      PROVE  ReadyInv'
  <2>1. Current(x)' => store'[x].deleting
    BY <1>0, <1>1, <1>3 DEF Acts, Undisturbed, ReadyInv, InStep
  <2>2. ReadyTrue(x)'
    BY <2>1 DEF ReadyTrue
  <2> QED
    BY <1>0, <1>3, <2>2, WorkerBecomes, ActsAlone, FinishReady
<1>4. CASE Finish(k, FALSE) /\ UNCHANGED <<store, watch>>
  BY <1>1, <1>3, <1>4, ActsUnwritten
<1>5. CASE store[x] # None /\ Write(x, Unpinned(store[x])) /\ Finish(k, FALSE)
  <2>1. PICK v, n : v = store[x] /\ n = Unpinned(v)
    OBVIOUS
  <2>2. n \in Version \cup {None}
    BY <1>1, <1>5, <2>1 DEF Unpinned, VersionsOf, Version
  <2>3. Write(x, n)
    BY <1>5, <2>1
  <2>4. Acts(k)
    BY <1>1, <1>5, <2>2, <2>3, WriteUndisturbing, WorkerBecomes DEF Acts, Finish
  <2> QED
    BY <1>3, <1>5, <2>4
<1> QED
  BY <1>0, <1>2, <1>4, <1>5 DEF RemoveFinalizer, Unpatchable

-----------------------------------------------------------------------------
(* The steps of Reconcile that ask for the entry and tell of it.           *)

(* The mapper asks for what the spec says. *)
LEMMA EntryAsked ==
    ASSUME SecretsKept, NEW x \in Objects, NEW v \in VersionsOf(x), Mappable(v.spec)
    PROVE  /\ EntryOf(v.spec).name = v.spec.name /\ EntryOf(v.spec).content = v.spec.content
           /\ EntryOf(v.spec).pw \in PasswordsFor(v.spec)
<1>1. v.spec.secretRef \in SecretRefs \cup {None}
  BY DEF VersionsOf, Version, ObjectSpec
<1>2. v.spec.secretRef # None => secret[v.spec.secretRef] = PasswordIn[v.spec.secretRef]
  BY <1>1 DEF Mappable, SecretsKept
<1> QED
  BY <1>2 DEF EntryOf, PasswordsFor

LEMMA MapToEntryReady ==
    ASSUME SecretsKept, ObjectInv, ObjectInv', ReadyInv, NEW k \in Kinds, MapToEntry(k)
    PROVE  ReadyInv'
<1> DEFINE w == worker[k]
<1>0. PICK x, v, d : x = w.key /\ v = w.obj /\ d = w.dn
  OBVIOUS
<1>1. /\ w.pc = "mapToEntry" /\ w.pc # "idle" /\ w \in Worker /\ call \in [Kinds -> Call]
      /\ x \in Objects /\ v \in VersionsOf(x)
      /\ UNCHANGED <<store, watch>>
  BY <1>0, AtWork DEF MapToEntry, At, ObjectInv, ClientInv, ClientTypeOK
<1>2. CASE MarkFailed(k, FALSE) /\ UNCHANGED clientVars
  BY <1>1, <1>2, ActsUnwritten, MarkedReady DEF MarkFailed, clientVars
<1>3. CASE /\ Mappable(v.spec)
           /\ CallUpsert(k, d, EntryOf(v.spec))
           /\ Continue(k, To(w, "upsertEntry"))
  <2>1. PICK n, e, c : n = To(w, "upsertEntry") /\ e = EntryOf(v.spec)
                       /\ c = NewCall("search", d, e, <<>>)
    OBVIOUS
  <2>2. n.pc = "upsertEntry" /\ n.key = x /\ n.obj = v /\ n.dn = d
    BY <1>0, <1>1, <2>1 DEF To, Worker
  <2>3. worker'[k] = n /\ \A j \in Kinds \ {k} : worker'[j] = worker[j]
    BY <1>3, <2>1, WorkerBecomes
  <2>4. UNCHANGED dit /\ call'[k] = c /\ \A j \in Kinds \ {k} : call'[j] = call[j]
    BY <1>1, <1>3, <2>1 DEF CallUpsert
  <2>5. c.step = "search" /\ c.entry = e
    BY <2>1 DEF NewCall
  <2>6. Acts(k)
    BY <1>1, <1>3, <2>3, <2>4, WriteUndisturbing DEF Acts, Continue
  <2>7. Asks(k, v.spec)' /\ Found(k)'
    <3>1. e.name = v.spec.name /\ e.content = v.spec.content /\ e.pw \in PasswordsFor(v.spec)
      BY <1>1, <1>3, <2>1, EntryAsked
    <3> QED
      BY <2>4, <2>5, <3>1 DEF Asks, Found, PasswordsFor
  <2>8. /\ Len(d) = 1 => \E s \in Specs[x] : d[1].name = s.name /\ s.parent = None
        /\ Current(x) => /\ v = store[x]
                         /\ v.spec.parent = None => d = <<RDNOf(x, v)>>
    <3>1. w.pc \in Composed
      BY <1>1 DEF Composed
    <3> QED
      BY <1>0, <1>1, <3>1 DEF ReadyInv, Placed, InStep
  <2>9. Placed(k)'
    BY <2>2, <2>3, <2>8 DEF Placed
  <2>10. Current(x)' => Current(x) /\ store'[x] = store[x]
    BY <1>1, <2>6 DEF Acts, Undisturbed
  <2>11. InStep(k)'
    BY <2>2, <2>3, <2>7, <2>8, <2>10 DEF InStep, Current
  <2> QED
    BY <1>0, <2>2, <2>3, <2>6, <2>9, <2>11, ActsAlone, OnReady
<1> QED
  BY <1>0, <1>2, <1>3 DEF MapToEntry

(* When the call reports success slapd has what was asked for, and that is   *)
(* what the newest spec asks for.                                            *)
LEMMA UpsertedRight ==
    ASSUME ObjectInv, ReadyInv, NEW k \in Kinds, NEW x, x = worker[k].key, Current(x),
           worker[k].pc = "upsertEntry", call[k].step = "returned", call[k].ok,
           store[x].spec.parent = None
    PROVE  worker[k].obj = store[x] /\ Right(x, store[x])
<1>1. PICK v, c : v = worker[k].obj /\ c = call[k]
  OBVIOUS
<1>2. /\ v = store[x] /\ worker[k].dn = <<RDNOf(x, v)>>
      /\ Asks(k, v.spec) /\ Found(k)
  BY <1>1 DEF ReadyInv, InStep, Composed
<1>3. c.entry # None /\ c.dn = <<RDNOf(x, v)>>
  BY <1>1, <1>2 DEF ObjectInv, Linked
<1>4. c.dn \in Entries /\ c.entry.name = Head(c.dn).name
  <2>1. c.dn \in Entries
    BY <1>1, <1>2 DEF Found
  <2>2. c.entry.name = v.spec.name
    BY <1>1, <1>2 DEF Asks
  <2>3. Head(c.dn) = RDNOf(x, v)
    BY <1>3
  <2>4. RDNOf(x, v).name = v.spec.name
    BY DEF RDNOf
  <2> QED
    BY <2>1, <2>2, <2>3, <2>4
<1>5. dit[c.dn] = [content |-> c.entry.content, pw |-> c.entry.pw]
  BY <1>1, <1>3, <1>4 DEF ObjectInv, ClientInv, Converging
<1> QED
  BY <1>1, <1>2, <1>3, <1>4, <1>5 DEF Right, Asks

LEMMA CreateOrUpdateEntryReady ==
    ASSUME ObjectInv, ObjectInv', ReadyInv, NEW k \in Kinds, CreateOrUpdateEntry(k)
    PROVE  ReadyInv'
<1> DEFINE w == worker[k]
<1>0. PICK x, v : x = w.key /\ v = w.obj
  OBVIOUS
<1>1. /\ w.pc = "upsertEntry" /\ w.pc # "idle" /\ w \in Worker /\ call \in [Kinds -> Call]
      /\ x \in Objects /\ call[k].step = "returned"
      /\ UNCHANGED <<dit, store, watch>>
      /\ \A j \in Kinds \ {k} : call'[j] = call[j]
  BY <1>0, AtWork DEF CreateOrUpdateEntry, At, Collect, ObjectInv, ClientInv, ClientTypeOK
<1>2. ASSUME (\E n : Continue(k, n)) \/ (\E requeue : Finish(k, requeue))
      PROVE  Acts(k)
  <2>1. queue \subseteq queue' /\ \A j \in Kinds \ {k} : worker'[j] = worker[j]
    BY <1>2, WorkerBecomes DEF Continue, Finish
  <2> QED
    BY <1>1, <2>1, WriteUndisturbing DEF Acts
<1>3. ASSUME Acts(k), Current(x)'
      PROVE  Current(x) /\ store'[x] = store[x] /\ v = store'[x]
  BY <1>0, <1>1, <1>3 DEF Acts, Undisturbed, ReadyInv, InStep
<1>4. ASSUME Acts(k), call[k].ok, Current(x)', store'[x].spec.parent = None
      PROVE  v = store'[x] /\ Right(x, v)'
  <2>1. Current(x) /\ store'[x] = store[x]
    BY <1>3, <1>4
  <2>2. v = store[x] /\ Right(x, store[x])
    BY <1>0, <1>1, <1>4, <2>1, UpsertedRight
  <2> QED
    BY <1>1, <2>1, <2>2 DEF Right, RDNOf, Entries
<1>5. CASE MarkFailed(k, FALSE)
  BY <1>2, <1>5, MarkedReady DEF MarkFailed
<1>6. CASE call[k].ok /\ Continue(k, Marking(w, "Ready", FALSE))
  <2>1. PICK n : n = Marking(w, "Ready", FALSE)
    OBVIOUS
  <2>2. n.pc = "mark" /\ n.key = x /\ n.obj = v
    BY <1>0, <1>1, <2>1 DEF Marking, Worker
  <2>3. worker'[k] = n /\ Acts(k)
    BY <1>2, <1>6, <2>1, WorkerBecomes
  <2>4. Placed(k)'
    BY <2>2, <2>3 DEF Placed, Composed
  <2>5. ASSUME Current(x)'
        PROVE  v = store'[x] /\ (v.spec.parent = None => Right(x, v)')
    <3>1. v = store'[x]
      BY <1>3, <2>3, <2>5
    <3> QED
      BY <1>4, <1>6, <2>3, <2>5, <3>1
  <2>6. InStep(k)'
    BY <2>2, <2>3, <2>5 DEF InStep, Current, Composed, Right
  <2> QED
    BY <1>0, <2>2, <2>3, <2>4, <2>6, ActsAlone, OnReady
<1>7. CASE call[k].ok /\ Finish(k, FALSE)
  <2>1. worker'[k] = Idle /\ Acts(k)
    BY <1>2, <1>7, WorkerBecomes
  <2>2. ReadyTrue(x)'
    BY <1>4, <1>7, <2>1 DEF ReadyTrue, Right
  <2> QED
    BY <1>0, <2>1, <2>2, ActsAlone, FinishReady
<1> QED
  BY <1>5, <1>6, <1>7 DEF CreateOrUpdateEntry

(* The status is written to the version it tells of, or to another one that  *)
(* the operator will hear of.                                                *)
LEMMA MarkReady ==
    ASSUME ObjectInv, ObjectInv', LastIsStored, ReadyInv, NEW k \in Kinds, Mark(k)
    PROVE  ReadyInv'
<1> DEFINE w == worker[k]
<1>0. PICK x : x = w.key
  OBVIOUS
<1>1. /\ w.pc = "mark" /\ w.pc # "idle" /\ w \in Worker
      /\ x \in Objects /\ store[x] \in VersionsOf(x) \cup {None}
      /\ UNCHANGED <<dit, call>>
  BY <1>0, AtWork DEF Mark, At, clientVars, ObjectInv
<1>2. PICK requeue : Finish(k, requeue)
  BY DEF Mark
<1>3. ASSUME Acts(k), ReadyTrue(x)'
      PROVE  ReadyInv'
  BY <1>0, <1>2, <1>3, WorkerBecomes, ActsAlone, FinishReady
<1>4. CASE Unpatchable(x) /\ UNCHANGED <<store, watch>>
  <2>1. Acts(k)
    BY <1>1, <1>2, <1>4, ActsUnwritten
  <2>2. ~Current(x)
    BY <1>1, <1>4, CurrentCached DEF Current, Unpatchable
  <2>3. ReadyTrue(x)'
    BY <1>1, <2>1, <2>2 DEF Acts, Undisturbed, ReadyTrue
  <2> QED
    BY <1>3, <2>1, <2>3
<1>5. CASE store[x] # None /\ Write(x, [store[x] EXCEPT !.status = StatusOf(w, store[x])])
  <2>1. PICK v, n : v = store[x] /\ n = [v EXCEPT !.status = StatusOf(w, v)]
    OBVIOUS
  <2>2. v \in VersionsOf(x) /\ Write(x, n)
    BY <1>1, <1>5, <2>1
  <2>3. n \in Version /\ n.status.phase = w.status /\ n.spec = v.spec
    <3>1. StatusOf(w, v) \in Status /\ StatusOf(w, v).phase = w.status
      BY <1>1, <2>2 DEF StatusOf, Status, Worker, VersionsOf, Version
    <3> QED
      BY <2>1, <2>2, <3>1 DEF VersionsOf, Version
  <2>4. Acts(k) /\ store'[x] = n
    BY <1>1, <1>2, <2>2, <2>3, WriteUndisturbing, WorkerBecomes, WrittenThere DEF Acts, Finish
  <2>5. ASSUME Current(x)', n.status.phase = "Ready", n.spec.parent = None
        PROVE  Right(x, n)'
    <3>1. Current(x) /\ store[x] = n
      BY <1>1, <2>4, <2>5 DEF Acts, Undisturbed
    <3>2. Right(x, n)
      BY <1>0, <1>1, <2>3, <2>5, <3>1 DEF ReadyInv, InStep
    <3> QED
      BY <1>1, <3>2 DEF Right, Entries
  <2>6. ReadyTrue(x)'
    BY <2>4, <2>5 DEF ReadyTrue, IsReady, Right
  <2> QED
    BY <1>3, <2>4, <2>6
<1> QED
  BY <1>0, <1>4, <1>5 DEF Mark, Unpatchable

(* markFailed keeps it to itself that the API server has refused its update. *)
FailureUnrecorded(k) == At(k, "mark") /\ worker[k].status = "Failed" /\ ApiFails(k)

FailuresRecorded == \A k \in Kinds : ~FailureUnrecorded(k)

LEMMA ApiFailsReady ==
    ASSUME ObjectInv, ObjectInv', ReadyInv, NEW k \in Kinds, ApiFails(k), ~FailureUnrecorded(k)
    PROVE  ReadyInv'
<1>1. worker[k].pc # "idle" /\ UNCHANGED <<dit, call, store, watch>>
  BY DEF ApiFails
<1>2. CASE MarkFailed(k, TRUE) \/ MarkFailed(k, FALSE)
  BY <1>1, <1>2, ActsUnwritten, MarkedReady DEF MarkFailed
<1>3. CASE Finish(k, TRUE)
  BY <1>1, <1>3, ActsUnwritten, RetriedReady
<1>4. CASE worker[k].pc = "mark" /\ Finish(k, worker[k].status = "Failed" => worker[k].requeue)
  <2>1. worker[k].status # "Failed"
    BY <1>4 DEF FailureUnrecorded, At
  <2>2. Finish(k, TRUE)
    BY <1>4, <2>1 DEF Finish
  <2> QED
    BY <1>3, <2>2
<1> QED
  BY <1>2, <1>3, <1>4 DEF ApiFails

-----------------------------------------------------------------------------
(* The clients, the environment and the process.                           *)

LEMMA TopName ==
    ASSUME NEW o \in Objects, NEW v \in VersionsOf(o), NEW d, d = <<RDNOf(o, v)>>
    PROVE  Len(d) = 1 /\ d[1] = RDNOf(o, v) /\ Head(d).kind = KindOf[o] /\ d[1].name = v.spec.name
BY DEF RDNOf

LEMMA RightKept ==
    ASSUME ObjectInv, ReadyInv, NEW k \in Kinds, ClientStep(k),
           NEW o \in Objects, NEW v \in VersionsOf(o), Right(o, v),
           call[k].dn # <<RDNOf(o, v)>>
    PROVE  Right(o, v)'
<1>1. PICK d : d = <<RDNOf(o, v)>>
  OBVIOUS
<1>2. d \in Entries /\ Len(d) = 1 /\ d # call[k].dn
  BY <1>1, TopName DEF Right
<1>3. ClientInv /\ DeletesBelow(k)
  BY DEF ObjectInv, ReadyInv
<1>4. d \in Entries' /\ dit'[d] = dit[d]
  BY <1>2, <1>3, TopKept
<1> QED
  BY <1>1, <1>4 DEF Right

(* A client is never called for the top entry of an object whose worker is   *)
(* elsewhere.                                                                *)
LEMMA Elsewhere ==
    ASSUME OwnPlaces, ObjectInv, ReadyInv, NEW k \in Kinds, call[k].step # "idle",
           NEW o \in Objects, NEW v \in VersionsOf(o),
           KindOf[o] # k \/ (worker[k].key # o /\ v.spec.parent = None)
    PROVE  call[k].dn # <<RDNOf(o, v)>>
<1>1. SUFFICES ASSUME NEW d, d = <<RDNOf(o, v)>>, call[k].dn = d
               PROVE  FALSE
  OBVIOUS
<1>2. Len(d) = 1 /\ Head(d).kind = KindOf[o] /\ d[1].name = v.spec.name
  BY <1>1, TopName
<1>3. KindOf[o] = k
  BY <1>1, <1>2 DEF ObjectInv, ClientInv, CallSound
<1>4. PICK x : x = worker[k].key
  OBVIOUS
<1>5. worker[k].pc \in Calling /\ worker[k].dn = d
  BY <1>1 DEF ObjectInv, Linked, Calling
<1>6. x \in Objects /\ KindOf[x] = k /\ x # o
  BY <1>3, <1>4, <1>5, AtWork DEF ObjectInv, Calling
<1>7. PICK s \in Specs[x] : d[1].name = s.name /\ s.parent = None
  <2>1. worker[k].pc \in Composed /\ worker[k].pc # "getDistinguishedName"
    BY <1>5 DEF Calling, Composed
  <2> QED
    BY <1>2, <1>4, <1>5, <2>1 DEF ReadyInv, Placed
<1>8. v.spec \in Specs[o] /\ v.spec.parent = None
  BY <1>3 DEF VersionsOf
<1> QED
  BY <1>2, <1>3, <1>6, <1>7, <1>8 DEF OwnPlaces

LEMMA ClientReady ==
    ASSUME OwnPlaces, ObjectInv, ReadyInv, NEW k \in Kinds, ClientStep(k),
           UNCHANGED <<store, watch, queue, worker>>
    PROVE  ReadyInv'
<1>1. /\ call[k].step # "idle" /\ call'[k].dn = call[k].dn /\ call'[k].entry = call[k].entry
      /\ \A j \in Kinds \ {k} : call'[j] = call[j]
  BY ClientStepMoves DEF CallMoves, ObjectInv
<1>2. worker[k].pc \in Calling
  BY <1>1 DEF ObjectInv, Linked
<1>3. ASSUME NEW j \in Kinds
      PROVE  Placed(j)' /\ DeletesBelow(j)'
  <2>1. DeletesBelow(j)'
    <3>1. CASE j = k
      BY <3>1, DeletesBelowKept DEF ObjectInv, ReadyInv
    <3>2. CASE j # k
      BY <1>1, <3>2 DEF ReadyInv, DeletesBelow
    <3> QED
      BY <3>1, <3>2
  <2> QED
    BY <2>1 DEF ReadyInv, Placed
<1>4. ASSUME NEW j \in Kinds
      PROVE  InStep(j)'
  <2>1. PICK w, x, v : w = worker[j] /\ x = w.key /\ v = w.obj
    OBVIOUS
  <2>2. SUFFICES ASSUME w.pc # "idle", Current(x)
                 PROVE  v.spec.parent = None =>
                          /\ w.pc = "upsertEntry" => Asks(j, v.spec)' /\ Found(j)'
                          /\ (w.pc = "mark" /\ w.status = "Ready") => Right(x, v)'
    BY <2>1 DEF ReadyInv, InStep, Current, Right
  <2>3. x \in Objects /\ KindOf[x] = j /\ v \in VersionsOf(x)
    BY <2>1, <2>2, AtWork DEF ObjectInv
  <2>4. ASSUME v.spec.parent = None, w.pc = "upsertEntry"
        PROVE  Asks(j, v.spec)' /\ Found(j)'
    <3>1. Asks(j, v.spec) /\ Found(j) /\ w.dn = <<RDNOf(x, v)>>
      BY <2>1, <2>2, <2>4 DEF ReadyInv, InStep, Composed
    <3>2. Asks(j, v.spec)'
      <4>1. call'[j].entry = call[j].entry
        BY <1>1
      <4> QED
        BY <3>1, <4>1 DEF Asks
    <3>3. call[j].entry # None /\ call[j].dn = w.dn
      BY <2>1, <2>4 DEF ObjectInv, Linked
    <3>4. CASE j = k
      BY <3>1, <3>2, <3>3, <3>4, FoundKept
    <3>5. CASE j # k
      <4>1. PICK d : d = w.dn /\ d = <<RDNOf(x, v)>>
        BY <3>1
      <4>2. d # call[k].dn
        BY <1>1, <2>3, <3>5, <4>1, Elsewhere
      <4>3. Len(d) = 1
        BY <2>3, <4>1, TopName
      <4>4. d \in Entries => d \in Entries'
        BY <4>2, <4>3, TopKept DEF ObjectInv, ReadyInv
      <4> QED
        BY <1>1, <3>1, <3>2, <3>3, <3>5, <4>1, <4>4 DEF Found
    <3> QED
      BY <3>4, <3>5
  <2>5. ASSUME v.spec.parent = None, w.pc = "mark", w.status = "Ready"
        PROVE  Right(x, v)'
    <3>1. Right(x, v)
      BY <2>1, <2>2, <2>5 DEF ReadyInv, InStep
    <3>2. j # k
      BY <1>2, <2>1, <2>5 DEF Calling
    <3> QED
      BY <1>1, <2>3, <3>1, <3>2, Elsewhere, RightKept
  <2> QED
    BY <2>4, <2>5
<1>5. ASSUME NEW o \in Objects
      PROVE  ReadyTrue(o)'
  <2>1. PICK v : v = store[o] /\ v = store'[o]
    OBVIOUS
  <2>2. SUFFICES ASSUME Current(o), worker[KindOf[o]].key # o,
                        IsReady(o), ~v.deleting, v.spec.parent = None
                 PROVE  Right(o, v)'
    BY <2>1 DEF ReadyTrue, Current, IsReady, Right
  <2>3. Right(o, v)
    BY <2>1, <2>2 DEF ReadyInv, ReadyTrue
  <2>4. v \in VersionsOf(o)
    BY <2>1, <2>2 DEF Current, ObjectInv, ReconcilerSound, ApiSound
  <2> QED
    BY <1>1, <2>2, <2>3, <2>4, Elsewhere, RightKept
<1> QED
  BY <1>3, <1>4, <1>5 DEF ReadyInv

LEMMA UsersReady ==
    ASSUME ObjectInv, ReadyInv, NEW o \in Objects, Users(o) \/ GarbageCollect(o)
    PROVE  ReadyInv'
<1>1. UNCHANGED <<dit, call, worker, queue>> /\ \E v : Publish(o, v)
  BY DEF Users, Create, Edit, Delete, GarbageCollect, clientVars
<1>2. \A x \in Objects : Undisturbed(x)
  BY <1>1, PublishUndisturbing
<1> QED
  BY <1>1, <1>2, AsideReady

LEMMA SyncReady ==
    ASSUME ObjectInv, ReadyInv, NEW o \in Objects, Sync(o) \/ Resync(o)
    PROVE  ReadyInv'
<1>1. UNCHANGED <<dit, call, worker, store>> /\ queue' = queue \cup {o}
  BY DEF Sync, Resync, HandOver, clientVars
<1>2. \A x \in Objects \ {o} : watch'[x] = watch[x]
  BY DEF Sync, Resync, ObjectInv, ReconcilerSound, ApiSound
<1>3. \A x \in Objects : Undisturbed(x)
  BY <1>1, <1>2 DEF Undisturbed, Current
<1> QED
  BY <1>1, <1>3, AsideReady

(* Whatever exists is looked at again by the next process. *)
LEMMA ProcessStartsReady ==
    ASSUME ObjectInv, ReadyInv, ProcessStarts
    PROVE  ReadyInv'
<1>1. /\ worker' = [k \in Kinds |-> Idle] /\ call' = [k \in Kinds |-> NoCall]
      /\ store' = store /\ queue' = {o \in Objects : store[o] # None}
  BY DEF ProcessStarts
<1>2. \A k \in Kinds : (Placed(k) /\ InStep(k) /\ DeletesBelow(k))'
  BY <1>1, IdleSound DEF Placed, InStep, DeletesBelow, Composed, NoCall, NewCall
<1>3. \A o \in Objects : ReadyTrue(o)'
  BY <1>1 DEF ReadyTrue, Current
<1> QED
  BY <1>2, <1>3 DEF ReadyInv

LEMMA InitReady ==
    ASSUME Init
    PROVE  ReadyInv
<1>1. /\ worker = [k \in Kinds |-> Idle] /\ call = [k \in Kinds |-> NoCall]
      /\ store = [o \in Objects |-> None]
  BY DEF Init, ClientInit
<1>2. \A k \in Kinds : Placed(k) /\ InStep(k) /\ DeletesBelow(k)
  BY <1>1, IdleSound DEF Placed, InStep, DeletesBelow, Composed, NoCall, NewCall
<1>3. \A o \in Objects : ReadyTrue(o)
  BY <1>1 DEF ReadyTrue, Current
<1> QED
  BY <1>2, <1>3 DEF ReadyInv

LEMMA NextReady ==
    ASSUME OwnPlaces, SecretsKept, ObjectInv, ObjectInv', LastIsStored, ReadyInv, [Next]_vars,
           FailuresRecorded
    PROVE  ReadyInv'
<1>1. ASSUME NEW k \in Kinds, Reconcile(k)
      PROVE  ReadyInv'
  BY <1>1, AddFinalizerReady, ResolveReady, ResolveParentReady, GetDistinguishedNameReady,
     DeleteEntryReady, RemoveFinalizerReady, SetOwnerReady, MapToEntryReady,
     CreateOrUpdateEntryReady, MarkReady
     DEF Reconcile
<1>2. ASSUME NEW k \in Kinds, ClientRequest(k) \/ ClientFails(k)
      PROVE  ReadyInv'
  BY <1>2, ClientReady DEF ClientRequest, ClientFails, ClientStep, kubernetes
<1>3. ASSUME NEW k \in Kinds, Panic(k)
      PROVE  ReadyInv'
  BY <1>3, ProcessStartsReady DEF Panic, Restart
<1>4. CASE Crash
  BY <1>4, ProcessStartsReady DEF Crash, Restart
<1>5. CASE \/ UNCHANGED vars
           \/ \E s \in SecretRefs : SecretWritten(s) \/ SecretDeleted(s)
           \/ DirectoryChanges \/ DirectoryDeleted
  <2>1. UNCHANGED <<dit, call, worker, store, watch, queue>>
    BY <1>5 DEF vars, SecretWritten, SecretDeleted, DirectoryChanges, DirectoryDeleted,
       clientVars, kubernetes
  <2> QED
    BY <2>1, WriteUndisturbing, AsideReady
<1> QED
  BY <1>1, <1>2, <1>3, <1>4, <1>5, GetReady, SyncReady, UsersReady, ApiFailsReady
     DEF Next, Environment, FailuresRecorded

-----------------------------------------------------------------------------

LEMMA ReadyInvConverged ==
    ASSUME SecretsKept, ObjectInv, ReadyInv
    PROVE  ReadyMeansConverged
<1>1. SUFFICES ASSUME NEW o \in Objects, IsReady(o), Settled(o), ~store[o].deleting,
                      store[o].spec.parent = None
               PROVE  LET d == <<RDNOf(o, store[o])>>
                      IN  /\ d \in Entries
                          /\ dit[d].content = store[o].spec.content
                          /\ Mappable(store[o].spec) => dit[d].pw = EntryOf(store[o].spec).pw
  BY DEF ReadyMeansConverged
<1>2. PICK v, d : v = store[o] /\ d = <<RDNOf(o, v)>>
  OBVIOUS
<1>3. Current(o)
  BY <1>1 DEF Current, Settled, IsReady
<1>4. d \in Entries /\ dit[d].content = v.spec.content /\ dit[d].pw \in PasswordsFor(v.spec)
  BY <1>1, <1>2, <1>3 DEF ReadyInv, ReadyTrue, Settled, Right
<1>5. v \in VersionsOf(o)
  BY <1>2, <1>3 DEF Current, ObjectInv, ReconcilerSound, ApiSound
<1>6. ASSUME Mappable(v.spec)
      PROVE  dit[d].pw = EntryOf(v.spec).pw
  <2>1. EntryOf(v.spec).pw \in PasswordsFor(v.spec)
    BY <1>5, <1>6, EntryAsked
  <2> QED
    BY <1>4, <2>1 DEF PasswordsFor
<1> QED
  BY <1>2, <1>4, <1>6

(* The status is the truth about the newest spec, whatever is edited,        *)
(* deleted and created again between any two steps of Reconcile, whatever is *)
(* stale, crashes or fails (lines 206-291, 329): name, attributes and the    *)
(* password in the very secret the newest spec refers to, also when it used  *)
(* to refer to another.  What must not happen is that markFailed cannot      *)
(* write its status: it forgets the error, and the failed upsert of a Ready  *)
(* object is never told of nor tried again.  That each secret keeps its      *)
(* password and that no two objects ask for one name are what nothing in the *)
(* operator could make up for.                                               *)
THEOREM ReadyIsTrue ==
    OwnPlaces =>
        ((Spec /\ [][FailuresRecorded]_vars /\ []SecretsKept) => []ReadyMeansConverged)
<1> SUFFICES ASSUME OwnPlaces
             PROVE  (Spec /\ [][FailuresRecorded]_vars /\ []SecretsKept)
                    => []ReadyMeansConverged
  OBVIOUS
<1>1. Init => ReadyInv
  BY InitReady
<1>2. /\ ObjectInv /\ ObjectInv' /\ PinInv /\ SecretsKept /\ ReadyInv
      /\ [Next]_vars /\ [FailuresRecorded]_vars
      => ReadyInv'
  <2>1. SUFFICES ASSUME ObjectInv, ObjectInv', PinInv, SecretsKept, ReadyInv,
                        [Next]_vars, [FailuresRecorded]_vars
                 PROVE  ReadyInv'
    OBVIOUS
  <2>2. LastIsStored
    BY <2>1 DEF PinInv
  <2>3. CASE FailuresRecorded
    BY <2>1, <2>2, <2>3, NextReady
  <2>4. CASE UNCHANGED vars
    <3>1. UNCHANGED <<dit, call, worker, store, watch, queue>>
      BY <2>4 DEF vars, clientVars, kubernetes
    <3> QED
      BY <2>1, <3>1, WriteUndisturbing, AsideReady
  <2> QED
    BY <2>1, <2>3, <2>4
<1>3. (SecretsKept /\ ObjectInv /\ ReadyInv) => ReadyMeansConverged
  BY ReadyInvConverged
<1> QED
  BY <1>1, <1>2, <1>3, ObjectInvHolds, PinInvHolds, PTL DEF Spec

=============================================================================
