----------------------------- MODULE LDAPObject -----------------------------
(***************************************************************************)
(* The generic object reconciler of the operator                           *)
(* (internal/controller/ldapobject_controller.go), instantiated for units, *)
(* groups and users, with the Kubernetes machinery it runs on.             *)
(*                                                                         *)
(*   store      what the API server holds                                  *)
(*   watch      the watch events of an object that its informer has not    *)
(*              received yet, the oldest first                             *)
(*   cache      the informer's copy, which every Get of the operator reads *)
(*   queue      keys waiting in the workqueue of their kind's controller   *)
(*   worker     the one goroutine of each controller that runs Reconcile   *)
(*   directory  the LDAPDirectory every object refers to, as cached; its   *)
(*              own reconciler is the environment here                     *)
(*   secret     password secrets, as cached                                *)
(*   used       how often each action of the environment has happened      *)
(* and, to state properties, what the operator has claimed and given up:   *)
(*   claims     entries an object has asked slapd for and not released     *)
(*   abandoned  entries that stayed behind knowingly: their object was     *)
(*              released after a failed DeleteEntry, or without one        *)
(*   outgrown   entries that stayed behind under a former name of their    *)
(*              object, although DeleteEntry reported success              *)
(*   blind      objects released while the cache did not show them leaving *)
(*                                                                         *)
(* Steps are one read of the cache, one write of the API server or one     *)
(* LDAP request each, with two exceptions.  A Get followed by a patch in   *)
(* CreateOrPatch is one step: the patch depends on the cache only through  *)
(* what it would add or remove, so the Get may as well happen at the       *)
(* patch.  And ResolveReferences reads the directory, the parent and the   *)
(* secret in one step: what it finds is only whether all of them are there.*)
(* As in LDAPClient, an operator named Bug... is a slip in the next one.   *)
(***************************************************************************)
EXTENDS LDAPClient

CONSTANTS
    Objects,     \* names of the custom resources
    KindOf,      \* the kind of each
    Specs,       \* the specs a user may give to each
    Directories, \* states the directory may start in
    SecretRefs,  \* names of password secrets
    Directory,   \* name of the directory
    Foreign,     \* an existing object that is no LDAP object
    MaxLag,      \* bound on the events of an object in flight
    MaxDepth,    \* depth of recursion that overflows the stack
    Limits,      \* bounds on each action of the environment
    MaxEvents    \* and on all of them and the failures together

Events == {"create", "edit", "delete", "directory", "directoryLoss",
           "secret", "secretLoss", "resync"}

ObjectSpec == [parent : Objects \cup {Foreign, None}, name : Names,
               content : Content, secretRef : SecretRefs \cup {None}]

ASSUME ObjectsAssumption ==
    /\ KindOf \in [Objects -> Kinds]
    /\ Specs \in [Objects -> SUBSET ObjectSpec]
    /\ \A o \in Objects : \A s \in Specs[o] : Wanted(KindOf[o],
          [content |-> s.content, pw |-> s.secretRef])
    /\ None \notin Objects /\ Foreign \notin Objects \cup {None} /\ Directory \notin Objects

ASSUME BoundsAssumption ==
    /\ MaxLag \in Nat /\ MaxDepth \in Nat \ {0} /\ MaxEvents \in Nat
    /\ Limits \in [Events -> Nat]

VARIABLES store, cache, watch, queue, worker, directory, secret, used,
          claims, abandoned, outgrown, blind

kubernetes  == <<store, cache, watch, queue>>
environment == <<directory, secret, used>>
history     == <<claims, abandoned, outgrown, blind>>
vars == <<clientVars, kubernetes, worker, environment, history>>

Unset == ""   \* the zero value of a string

(* SimpleStatus; a message is named for the step that failed. *)
Phases == {Unset, "Pending", "Ready", "Failed"}
Pcs == {"idle", "addFinalizer", "resolveReferences", "resolveDirectory",
        "resolveParent", "getDistinguishedName", "deleteEntry",
        "removeFinalizer", "setOwner", "mapToEntry", "upsertEntry", "mark"}
Status == [phase : Phases, observed : Nat, message : Pcs \cup {Unset}]

Owner == [name : Objects \cup {Directory}, uid : Nat]

(* One version of a custom resource, as the API server stores it. *)
Version == [uid : Nat, generation : Nat, deleting : BOOLEAN,
            finalizer : BOOLEAN, owner : Owner \cup {None},
            status : Status, spec : ObjectSpec]

DirectoryVersion == [uid : Nat, phase : {"Pending", "Ready"}]

(* None is no object, no owner and no directory. *)
ASSUME NothingAssumption ==
    None \notin Version /\ None \notin Owner /\ None \notin DirectoryVersion

ASSUME DirectoriesAssumption == Directories \subseteq DirectoryVersion \cup {None}

(* Where a worker is in Reconcile, and its local variables: the object in    *)
(* memory, the owner (the directory, or the parent, or nil), the part of the *)
(* distinguished name composed so far and the ancestor to resolve next,      *)
(* whether DeleteEntry failed, the status to write and whether the key comes *)
(* back to the queue afterwards.                                             *)
Worker == [pc : Pcs, key : Objects \cup {None}, obj : Version \cup {None},
           owner : Owner \cup {None}, dn : Seq(RDN),
           climb : Objects \cup {Foreign, None}, failed : BOOLEAN,
           status : Phases, message : Pcs \cup {Unset}, requeue : BOOLEAN]

Idle == [pc |-> "idle", key |-> None, obj |-> None, owner |-> None,
         dn |-> <<>>, climb |-> None, failed |-> FALSE, status |-> Unset,
         message |-> Unset, requeue |-> FALSE]

(* The operator starts in a cluster without LDAP objects. *)
Init ==
    /\ ClientInit
    /\ store = [o \in Objects |-> None]
    /\ cache = store
    /\ watch = [o \in Objects |-> <<>>]
    /\ queue = {}
    /\ worker = [k \in Kinds |-> Idle]
    /\ directory \in Directories
    /\ secret \in [SecretRefs -> Passwords \cup {None}]
    /\ used = [e \in Events |-> 0]
    /\ claims = {} /\ abandoned = {} /\ outgrown = {} /\ blind = {}

-----------------------------------------------------------------------------
(* The API server, the informers and the workqueue.                        *)

Publish(o, v) ==
    /\ Len(watch[o]) < MaxLag
    /\ store' = [store EXCEPT ![o] = v]
    /\ watch' = [watch EXCEPT ![o] = Append(@, v)]

(* A write that changes nothing makes no new version and no event. *)
Write(o, v) ==
    \/ v # store[o] /\ Publish(o, v)
    \/ v = store[o] /\ UNCHANGED <<store, watch>>

(* The informer receives the next event; the event handler enqueues the key. *)
Sync(o) ==
    /\ watch[o] # <<>>
    /\ cache' = [cache EXCEPT ![o] = Head(watch[o])]
    /\ watch' = [watch EXCEPT ![o] = Tail(@)]
    /\ queue' = queue \cup {o}
    /\ UNCHANGED <<clientVars, store, worker, environment, history>>

(* Deletion waits for the finalizer, and starts a new generation. *)
Left(v) == IF v.finalizer
           THEN [v EXCEPT !.deleting = TRUE, !.generation = @ + 1]
           ELSE None

-----------------------------------------------------------------------------
(* Control of Reconcile.                                                   *)

At(k, pc) == worker[k].pc = pc

Continue(k, w) == worker' = [worker EXCEPT ![k] = w] /\ UNCHANGED queue

To(w, pc) == [w EXCEPT !.pc = pc]

BugFinishForgetsKey(k, requeue) ==   \* the key is read after the reset
    /\ worker' = [worker EXCEPT ![k] = Idle]
    /\ queue' = IF requeue THEN queue \cup {Idle.key} ELSE queue

(* Reconcile returns; with an error or RequeueAfter the key comes back. *)
Finish(k, requeue) ==
    /\ worker' = [worker EXCEPT ![k] = Idle]
    /\ queue' = IF requeue THEN queue \cup {worker[k].key} ELSE queue

Marking(w, phase, requeue) ==
    [w EXCEPT !.pc = "mark", !.status = phase, !.requeue = requeue,
              !.message = IF phase = "Failed" THEN w.pc ELSE Unset]

BugPendingIsFinal(k) == Continue(k, Marking(worker[k], "Pending", FALSE))

MarkPending(k)         == Continue(k, Marking(worker[k], "Pending", TRUE))
MarkFailed(k, requeue) == Continue(k, Marking(worker[k], "Failed", requeue))

(* The process dies and another starts: its informers list the API server,   *)
(* every object is enqueued, and what the workers knew is lost.              *)
ProcessStarts ==
    /\ worker' = [k \in Kinds |-> Idle]
    /\ call' = [k \in Kinds |-> NoCall]
    /\ cache' = store
    /\ watch' = [o \in Objects |-> <<>>]
    /\ queue' = {o \in Objects : store[o] # None}
    /\ UNCHANGED <<dit, store, secret, history>>

Restart == ProcessStarts /\ UNCHANGED directory

-----------------------------------------------------------------------------
(* Reconcile.                                                              *)

BugNoFinalizer(v) == "resolveReferences"   \* the finalizer is forgotten

BugLeavingIgnored(v) ==   \* what is leaving is not reconciled any more
    IF v.deleting THEN "idle" ELSE IF v.finalizer THEN "resolveReferences" ELSE "addFinalizer"

FirstStep(v) == IF v.finalizer THEN "resolveReferences" ELSE "addFinalizer"

(* The worker takes a key and reads the object. *)
Get(k, o) ==
    /\ At(k, "idle") /\ o \in queue /\ KindOf[o] = k
    /\ queue' = queue \ {o}
    /\ \/ cache[o] = None /\ UNCHANGED worker
       \/ /\ cache[o] # None
          /\ worker' = [worker EXCEPT ![k] =
               [Idle EXCEPT !.key = o, !.obj = cache[o],
                  !.pc = FirstStep(cache[o])]]
    /\ UNCHANGED <<clientVars, store, cache, watch, environment, history>>

(* CreateOrPatch of an object the cache has lost is a Create, which the API  *)
(* server refuses for its resourceVersion; a patch of an object the API      *)
(* server has lost is NotFound.                                              *)
Unpatchable(o) == cache[o] = None \/ store[o] = None

(* The object in memory becomes the version the API server answers with,     *)
(* which may be newer than the cache.                                        *)
AddFinalizer(k) ==
    LET w == worker[k]
        o == w.key
    IN  /\ At(k, "addFinalizer")
        /\ \/ /\ cache[o] # None /\ cache[o].finalizer
              /\ Continue(k, [To(w, "resolveReferences") EXCEPT !.obj = cache[o]])
              /\ UNCHANGED <<store, watch>>
           \/ /\ ~Unpatchable(o) /\ ~cache[o].finalizer
              /\ LET new == [store[o] EXCEPT !.finalizer = TRUE] IN
                    /\ Write(o, new)
                    /\ Continue(k, [To(w, "resolveReferences") EXCEPT !.obj = new])
           \/ /\ Unpatchable(o) /\ (cache[o] # None => ~cache[o].finalizer)
              /\ Finish(k, TRUE)
              /\ UNCHANGED <<store, watch>>
        /\ UNCHANGED <<clientVars, cache, environment, history>>

BugParentUnresolved(p) == TRUE   \* only the directory is resolved

Resolves(p) == p \in Objects => cache[p] # None

(* The references of units and groups, which a user has too. *)
TreeResolves(spec) == directory # None /\ Resolves(spec.parent)

BugSecretUnresolved(spec) == TreeResolves(spec)   \* as if a user had no other

Resolvable(spec) ==
    TreeResolves(spec) /\ (spec.secretRef # None => secret[spec.secretRef] # None)

(* What is leaving does not wait for what it refers to. *)
Unresolved(k) ==
    \/ worker[k].obj.deleting /\ Continue(k, To(worker[k], "removeFinalizer"))
    \/ ~worker[k].obj.deleting /\ MarkPending(k)

ResolveReferences(k) ==
    LET w == worker[k] IN
    /\ At(k, "resolveReferences")
    /\ \/ Resolvable(w.obj.spec) /\ Continue(k, To(w, "resolveDirectory"))
       \/ ~Resolvable(w.obj.spec) /\ Unresolved(k)
    /\ UNCHANGED <<clientVars, store, cache, watch, environment, history>>

(* The directory is resolved a second time; if it is gone by now, see Panic. *)
ResolveDirectory(k) ==
    LET w == worker[k] IN
    /\ At(k, "resolveDirectory")
    /\ directory # None
    /\ \/ directory.phase # "Ready" /\ MarkPending(k)
       \/ /\ directory.phase = "Ready"
          /\ Continue(k, [To(w, "resolveParent") EXCEPT
                !.owner = [name |-> Directory, uid |-> directory.uid]])
    /\ UNCHANGED <<clientVars, store, cache, watch, environment, history>>

(* The RDN of an object: "ou=", "cn=" or "uid=" and the name of its spec. *)
RDNOf(o, v) == [kind |-> KindOf[o], name |-> v.spec.name]

Named(w) == [To(w, "getDistinguishedName") EXCEPT
               !.dn = <<RDNOf(w.key, w.obj)>>, !.climb = w.obj.spec.parent]

BugOwnedByDirectory(p) == [name |-> Directory, uid |-> directory.uid]

ParentOwner(p) == [name |-> p, uid |-> cache[p].uid]

(* The parent too; if it is gone by now, parent is nil and passes the checks. *)
ResolveParent(k) ==
    LET w == worker[k]
        p == w.obj.spec.parent
    IN  /\ At(k, "resolveParent")
        /\ \/ p = None /\ Continue(k, Named(w))
           \/ p = Foreign /\ MarkFailed(k, TRUE)
           \/ /\ p \in Objects /\ cache[p] = None
              /\ Continue(k, [Named(w) EXCEPT !.owner = None])
           \/ /\ p \in Objects /\ cache[p] # None
              /\ \/ cache[p].status.phase # "Ready" /\ MarkPending(k)
                 \/ /\ cache[p].status.phase = "Ready"
                    /\ Continue(k, [Named(w) EXCEPT !.owner = ParentOwner(p)])
        /\ UNCHANGED <<clientVars, store, cache, watch, environment, history>>

(* The name of an ancestor is appended, and its parent is next. *)
Ascended(w, p) == [w EXCEPT !.dn = Append(@, RDNOf(p, cache[p])),
                            !.climb = cache[p].spec.parent]

BugEntryForgotten(v) ==   \* the finalizer goes without the entry
    IF v.deleting THEN "removeFinalizer" ELSE "setOwner"

OnceNamed(v) == IF v.deleting THEN "deleteEntry" ELSE "setOwner"

(* GetDistinguishedName recurses over the ancestors, one resolved at a time; *)
(* the root of the recursion resolves the directory.                         *)
GetDistinguishedName(k) ==
    LET w == worker[k]
        p == w.climb
    IN  /\ At(k, "getDistinguishedName")
        /\ \/ p = Foreign /\ Finish(k, TRUE)
           \/ p \in Objects /\ cache[p] = None /\ Finish(k, TRUE)
           \/ /\ p \in Objects /\ cache[p] # None /\ Len(w.dn) < MaxDepth
              /\ Continue(k, Ascended(w, p))
           \/ p = None /\ directory = None /\ Finish(k, TRUE)
           \/ /\ p = None /\ directory # None
              /\ Continue(k, To(w, OnceNamed(w.obj)))
        /\ UNCHANGED <<clientVars, store, cache, watch, environment, history>>

(* DeleteEntry(dn, true); its error is logged and forgotten. *)
DeleteEntry(k) ==
    LET w == worker[k] IN
    /\ At(k, "deleteEntry")
    /\ \/ CallDelete(k, w.dn, TRUE) /\ UNCHANGED worker
       \/ /\ Collect(k)
          /\ worker' = [worker EXCEPT ![k] =
               [To(w, "removeFinalizer") EXCEPT !.failed = ~call[k].ok]]
    /\ UNCHANGED <<kubernetes, environment, history>>

(* What o has claimed is given up.  What slapd still holds of it stays       *)
(* behind: knowingly if DeleteEntry failed or was not called, for want of a  *)
(* name; otherwise only under another name than the one that was deleted.    *)
Release(o, w) ==
    LET mine == {c \in claims : c.obj = o /\ c.uid = store[o].uid}
        left == {d \in Entries : \E c \in mine : c.dn = d}
        knowing == w.dn = <<>> \/ w.failed
    IN
    /\ claims' = claims \ mine
    /\ abandoned' = abandoned \cup {d \in left : knowing}
    /\ outgrown' = outgrown \cup {d \in left : ~knowing /\ ~IsSuffix(w.dn, d)}
    /\ blind' = blind \cup {x \in {o} :
         /\ store[o].finalizer
         /\ cache[o].uid # store[o].uid \/ ~cache[o].deleting}

(* The object disappears if it was leaving. *)
Unpinned(v) == IF v.deleting THEN None ELSE [v EXCEPT !.finalizer = FALSE]

RemoveFinalizer(k) ==
    LET w == worker[k]
        o == w.key
    IN  /\ At(k, "removeFinalizer")
        /\ \/ /\ cache[o] # None /\ ~cache[o].finalizer
              /\ Finish(k, FALSE)
              /\ UNCHANGED <<store, watch, history>>
           \/ /\ ~Unpatchable(o) /\ cache[o].finalizer
              /\ Write(o, Unpinned(store[o]))
              /\ Finish(k, FALSE)
              /\ Release(o, w)
           \/ /\ Unpatchable(o) /\ (cache[o] # None => cache[o].finalizer)
              /\ Finish(k, TRUE)
              /\ UNCHANGED <<store, watch, history>>
        /\ UNCHANGED <<clientVars, cache, environment>>

BugOverwritten(o, owner) == [cache[o] EXCEPT !.owner = owner]   \* no merge patch

Owned(o, owner) == [store[o] EXCEPT !.owner = owner]

(* SetControllerReference refuses an object that another controller owns;    *)
(* the same owner under a new uid takes over.  A nil owner: see Panic.       *)
SetOwner(k) ==
    LET w == worker[k]
        o == w.key
        owned == cache[o] # None /\ cache[o].owner # None
        refused == owned /\ cache[o].owner.name # w.owner.name
    IN  /\ At(k, "setOwner")
        /\ w.owner # None
        /\ \/ cache[o] = None /\ MarkFailed(k, FALSE) /\ UNCHANGED <<store, watch>>
           \/ refused /\ MarkFailed(k, FALSE) /\ UNCHANGED <<store, watch>>
           \/ /\ cache[o] # None /\ cache[o].owner = w.owner
              /\ Continue(k, [To(w, "mapToEntry") EXCEPT !.obj = cache[o]])
              /\ UNCHANGED <<store, watch>>
           \/ /\ cache[o] # None /\ ~refused /\ cache[o].owner # w.owner
              /\ \/ /\ store[o] = None
                    /\ MarkFailed(k, FALSE)
                    /\ UNCHANGED <<store, watch>>
                 \/ /\ store[o] # None
                    /\ LET new == Owned(o, w.owner) IN
                          /\ Write(o, new)
                          /\ Continue(k, [To(w, "mapToEntry") EXCEPT !.obj = new])
        /\ UNCHANGED <<clientVars, cache, environment, history>>

(* The distinguished name was composed before setOwner refreshed the object; *)
(* the name in the entry is that of the refreshed spec.                      *)
EntryOf(spec) ==
    [name |-> spec.name, content |-> spec.content,
     pw |-> IF spec.secretRef = None THEN None ELSE secret[spec.secretRef]]

Mappable(spec) == spec.secretRef # None => secret[spec.secretRef] # None

MapToEntry(k) ==
    LET w == worker[k] IN
    /\ At(k, "mapToEntry")
    /\ \/ /\ Mappable(w.obj.spec)
          /\ CallUpsert(k, w.dn, EntryOf(w.obj.spec))
          /\ Continue(k, To(w, "upsertEntry"))
          /\ claims' = claims \cup {[obj |-> w.key, uid |-> w.obj.uid, dn |-> w.dn]}
          /\ UNCHANGED <<abandoned, outgrown, blind>>
       \/ /\ ~Mappable(w.obj.spec)
          /\ MarkFailed(k, FALSE)
          /\ UNCHANGED <<clientVars, history>>
    /\ UNCHANGED <<store, cache, watch, environment>>

(* Only an entry that was created makes the object Ready. *)
CreateOrUpdateEntry(k) ==
    LET w == worker[k] IN
    /\ At(k, "upsertEntry")
    /\ Collect(k)
    /\ \/ ~call[k].ok /\ MarkFailed(k, FALSE)
       \/ /\ call[k].ok /\ call[k].created
          /\ Continue(k, Marking(w, "Ready", FALSE))
       \/ call[k].ok /\ ~call[k].created /\ Finish(k, FALSE)
    /\ UNCHANGED <<store, cache, watch, environment, history>>

(* markPending, markReady and markFailed: UpdateStatus writes the generation *)
(* it has just read, and retries a conflict until the cache has caught up.   *)
(* Only markFailed keeps an error of the update to itself.                   *)
StatusOf(w, v) == [phase |-> w.status, observed |-> v.generation, message |-> w.message]

Mark(k) ==
    LET w == worker[k]
        o == w.key
    IN  /\ At(k, "mark")
        /\ \/ /\ ~Unpatchable(o) /\ watch[o] = <<>>
              /\ Write(o, [store[o] EXCEPT !.status = StatusOf(w, store[o])])
              /\ Finish(k, w.requeue)
           \/ /\ Unpatchable(o)
              /\ Finish(k, w.status = "Failed" => w.requeue)
              /\ UNCHANGED <<store, watch>>
        /\ UNCHANGED <<clientVars, cache, environment, history>>

Fault ==
    /\ faults > 0
    /\ faults' = faults - 1

(* A read, a patch or an update is answered with another error, or a         *)
(* conflict outlasts its retries.                                            *)
ApiFails(k) ==
    LET w == worker[k] IN
    /\ Fault
    /\ \/ /\ w.pc \in {"addFinalizer", "getDistinguishedName", "removeFinalizer"}
          /\ Finish(k, TRUE)
       \/ w.pc = "resolveReferences" /\ MarkFailed(k, TRUE)
       \/ /\ w.pc \in {"resolveDirectory", "resolveParent", "setOwner", "mapToEntry"}
          /\ MarkFailed(k, FALSE)
       \/ w.pc = "mark" /\ Finish(k, w.status = "Failed" => w.requeue)
    /\ UNCHANGED <<dit, call, store, cache, watch, environment, history>>

(* A type assertion on a nil directory, a method call on a nil owner, or     *)
(* a recursion over parents that never ends: the process dies.               *)
Panicking(k) ==
    \/ At(k, "resolveDirectory") /\ directory = None
    \/ At(k, "setOwner") /\ worker[k].owner = None
    \/ /\ At(k, "getDistinguishedName") /\ worker[k].climb \in Objects
       /\ cache[worker[k].climb] # None /\ Len(worker[k].dn) >= MaxDepth

Panic(k) == Panicking(k) /\ Restart /\ UNCHANGED <<faults, used>>

(* A client executes its next request, or the request fails. *)
ClientRequest(k) ==
    /\ Request(k)
    /\ UNCHANGED <<kubernetes, worker, environment, history>>

ClientFails(k) ==
    /\ RequestFails(k) \/ ReplyLost(k)
    /\ UNCHANGED <<kubernetes, worker, environment, history>>

Reconcile(k) ==
    \/ AddFinalizer(k) \/ ResolveReferences(k) \/ ResolveDirectory(k)
    \/ ResolveParent(k) \/ GetDistinguishedName(k) \/ DeleteEntry(k)
    \/ RemoveFinalizer(k) \/ SetOwner(k) \/ MapToEntry(k)
    \/ CreateOrUpdateEntry(k) \/ Mark(k)

-----------------------------------------------------------------------------
(* Users, the garbage collector, the directory's reconciler, the process.  *)

(* What the environment does and what fails is bounded. *)
WithinBudget == FoldFunction(+, 0, used) + (MaxFaults - faults) < MaxEvents

Happens(e) ==
    /\ used[e] < Limits[e]
    /\ used' = [used EXCEPT ![e] = @ + 1]

NewVersion(spec) ==
    [uid |-> used["create"], generation |-> 1, deleting |-> FALSE, finalizer |-> FALSE,
     owner |-> None, spec |-> spec,
     status |-> [phase |-> Unset, observed |-> 0, message |-> Unset]]

Create(o) ==
    /\ Happens("create")
    /\ store[o] = None
    /\ \E spec \in Specs[o] : Publish(o, NewVersion(spec))
    /\ UNCHANGED <<clientVars, cache, queue, worker, directory, secret, history>>

Edit(o) ==
    /\ Happens("edit")
    /\ store[o] # None
    /\ \E spec \in Specs[o] \ {store[o].spec} :
         Publish(o, [store[o] EXCEPT !.spec = spec, !.generation = @ + 1])
    /\ UNCHANGED <<clientVars, cache, queue, worker, directory, secret, history>>

Delete(o) ==
    /\ Happens("delete")
    /\ store[o] # None /\ ~store[o].deleting
    /\ Publish(o, Left(store[o]))
    /\ UNCHANGED <<clientVars, cache, queue, worker, directory, secret, history>>

LiveOwners(d) ==
    {[name |-> o, uid |-> store[o].uid] : o \in {x \in Objects : store[x] # None}}
    \cup IF d = None THEN {} ELSE {[name |-> Directory, uid |-> d.uid]}

Orphaned(o, d) == store[o] # None /\ store[o].owner \notin LiveOwners(d) \cup {None}

GarbageCollect(o) ==
    /\ Orphaned(o, directory) /\ ~store[o].deleting
    /\ Publish(o, Left(store[o]))
    /\ UNCHANGED <<clientVars, cache, queue, worker, environment, history>>

(* The directory becomes ready, stops being so, or is created. *)
DirectoryChanges ==
    /\ Happens("directory")
    /\ LET uids == IF directory = None THEN {used["directory"] + 1} ELSE {directory.uid}
       IN  directory' \in [uid : uids, phase : {"Pending", "Ready"}] \ {directory}
    /\ UNCHANGED <<clientVars, kubernetes, worker, secret, history>>

DirectoryDeleted ==
    /\ Happens("directoryLoss")
    /\ directory # None
    /\ directory' = None
    /\ UNCHANGED <<clientVars, kubernetes, worker, secret, history>>

SecretWritten(s) ==
    /\ Happens("secret")
    /\ \E p \in Passwords \ {secret[s]} : secret' = [secret EXCEPT ![s] = p]
    /\ UNCHANGED <<clientVars, kubernetes, worker, directory, history>>

SecretDeleted(s) ==
    /\ Happens("secretLoss")
    /\ secret[s] # None
    /\ secret' = [secret EXCEPT ![s] = None]
    /\ UNCHANGED <<clientVars, kubernetes, worker, directory, history>>

(* The informers hand over everything they hold every ten hours. *)
HandOver(o) ==
    /\ cache[o] # None
    /\ queue' = queue \cup {o}

Resync(o) ==
    /\ Happens("resync")
    /\ HandOver(o)
    /\ UNCHANGED <<clientVars, store, cache, watch, worker, directory, secret, history>>

Crash ==
    /\ Fault
    /\ Restart
    /\ UNCHANGED used

Users(o) == Create(o) \/ Edit(o) \/ Delete(o)

Environment ==
    \/ \E o \in Objects : Users(o) \/ Resync(o)
    \/ \E s \in SecretRefs : SecretWritten(s) \/ SecretDeleted(s)
    \/ DirectoryChanges \/ DirectoryDeleted
    \/ Crash
    \/ \E k \in Kinds : ApiFails(k) \/ ClientFails(k)

Next ==
    \/ \E k \in Kinds : Reconcile(k) \/ Panic(k) \/ ClientRequest(k)
    \/ \E k \in Kinds, o \in Objects : Get(k, o)
    \/ \E o \in Objects : Sync(o) \/ GarbageCollect(o)
    \/ WithinBudget /\ Environment

(* A worker keeps working and the informers keep receiving; a key that waits *)
(* in the workqueue, which is first in first out, is taken in the end; the   *)
(* garbage collector gets around to every object.  Nothing else has to happen. *)
Works(k) == Reconcile(k) \/ Panic(k) \/ ClientRequest(k)

Fairness ==
    /\ \A k \in {KindOf[o] : o \in Objects} : WF_vars(Works(k))
    /\ \A o \in Objects : /\ SF_vars(Get(KindOf[o], o))
                          /\ WF_vars(Sync(o))
                          /\ WF_vars(GarbageCollect(o))

Spec == Init /\ [][Next]_vars
FairSpec == Spec /\ Fairness

-----------------------------------------------------------------------------
(* Properties.                                                             *)

(* Every variable keeps its type, and a worker works on its own kind. *)
TypeOK ==
    /\ ClientTypeOK
    /\ store \in [Objects -> Version \cup {None}]
    /\ cache \in [Objects -> Version \cup {None}]
    /\ watch \in [Objects -> Seq(Version \cup {None})]
    /\ queue \subseteq Objects
    /\ worker \in [Kinds -> Worker]
    /\ \A k \in Kinds : worker[k].pc # "idle" =>
          /\ worker[k].key \in Objects /\ KindOf[worker[k].key] = k
          /\ worker[k].obj # None
    /\ directory \in DirectoryVersion \cup {None}
    /\ secret \in [SecretRefs -> Passwords \cup {None}]
    /\ used \in [Events -> Nat]
    /\ claims \subseteq [obj : Objects, uid : Nat, dn : Seq(RDN)]
    /\ abandoned \subseteq DN /\ outgrown \subseteq DN
    /\ blind \subseteq Objects

(* An object that may have an entry in slapd cannot disappear from the API   *)
(* server: from the moment its entry is asked for (line 271) to the removal  *)
(* of the finalizer by its own reconciler (lines 98, 226) the very object    *)
(* the entry was asked for is there with its finalizer, whatever crashes,    *)
(* fails or is stale.  The exception is an object whose finalizer was taken  *)
(* away while the cache still showed it staying: the next Reconcile works    *)
(* from the ghost in the cache.                                              *)
PinnedByFinalizer ==
    \A c \in claims :
        \/ c.obj \in blind
        \/ /\ store[c.obj] # None
           /\ store[c.obj].uid = c.uid
           /\ store[c.obj].finalizer

(* Nothing leaks but what a release gave up knowingly: every entry in slapd  *)
(* belongs to an object that will still delete it, or was in slapd when its  *)
(* object was released after DeleteEntry had failed (line 221) or without    *)
(* it, since a reference did not resolve (line 97).  Objects keep their      *)
(* names and places here; see EntriesTraced.                                 *)
EntriesClaimed ==
    \A d \in Entries : d \in abandoned \/ \E c \in claims : c.dn = d

(* Where objects are renamed or moved entries do leak, for DeleteEntry gets  *)
(* the current name only (line 219) and nothing deletes the former ones.     *)
(* But no other entry does: one whose object was released after DeleteEntry  *)
(* reported success has a name that is not the one deleted, nor below it.    *)
EntriesTraced ==
    \A d \in Entries :
        d \in abandoned \/ d \in outgrown \/ \E c \in claims : c.dn = d

(* The reconciler, its caches, workers, retries and failures implement the   *)
(* ownership of entries: whatever is stale, lost or interrupted, a finalizer *)
(* is there before the entry is asked for (line 271), it is that of the very *)
(* incarnation the worker has in memory, and its removal (lines 98, 226)     *)
(* gives up exactly the entries slapd still has.                             *)
Held == {[obj |-> o, uid |-> store[o].uid] :
           o \in {x \in Objects : store[x] # None /\ store[x].finalizer}}

Ownership == INSTANCE EntryOwnership
    WITH Uids <- 0 .. Limits["create"], Names <- DN, held <- Held, entries <- Entries,
         abandoned <- abandoned \cup outgrown

EntriesOwned == Ownership!Spec

(* Nothing of o is to be relied on, or soon will be. *)
Goes(o) == store[o] = None \/ store[o].deleting \/ Orphaned(o, directory)

OwnedBy(o, p) == store[o] # None /\ store[o].owner # None /\ store[o].owner.name = p

(* Objects that are leaving, or whose owner is, directly or not. *)
Leaving(o) ==
    \E n \in 0 .. MaxDepth : \E line \in [0 .. n -> Objects] :
        /\ line[0] = o /\ Goes(line[n])
        /\ \A i \in 0 .. n - 1 : OwnedBy(line[i], line[i + 1])

IsReady(o) == store[o] # None /\ store[o].status.phase = "Ready"

(* The operator has nothing left to do for o. *)
Settled(o) ==
    /\ o \notin queue /\ watch[o] = <<>>
    /\ worker[KindOf[o]].key # o

(* "PhaseReady means the object is ready for use" (ldap_object.go:59): when  *)
(* the operator is done with a Ready object, the entry that was asked for is *)
(* in slapd, unless the object or one of its owners is leaving.              *)
ReadyHasEntry ==
    \A o \in Objects :
        (IsReady(o) /\ Settled(o) /\ ~Leaving(o))
        => \E c \in claims : /\ c.obj = o /\ c.uid = store[o].uid
                             /\ c.dn \in Entries

(* The status is the truth about the newest spec, although it is written     *)
(* with the generation the API server has by then (line 329): when the       *)
(* operator is done with a Ready object at the top of the tree, slapd has    *)
(* its entry under its current name and with its current attributes,         *)
(* whatever was edited between any two steps of Reconcile.                   *)
ReadyMeansConverged ==
    \A o \in Objects :
        (IsReady(o) /\ Settled(o) /\ ~store[o].deleting /\ store[o].spec.parent = None)
        => LET d == <<RDNOf(o, store[o])>>
           IN  /\ d \in Entries
               /\ dit[d].content = store[o].spec.content
               /\ Mappable(store[o].spec) => dit[d].pw = EntryOf(store[o].spec).pw

(* Gating works: an object is asked for only when its directory and its      *)
(* parent are ready, so where nothing fails, is deleted or edited, no order  *)
(* of creation and no order of the controllers makes an object Failed        *)
(* (lines 92-204).                                                           *)
NeverFailed ==
    \A o \in Objects : store[o] # None => store[o].status.phase # "Failed"

(* As long as nothing that was there goes away, no worker dereferences nil   *)
(* (lines 131-143, 162, 240-246).                                            *)
NeverPanics == \A k \in Kinds : ~Panicking(k)

DirectoryReady == directory # None /\ directory.phase = "Ready"

Complete ==
    /\ DirectoryReady
    /\ \A o \in Objects : store[o] # None
    /\ \A s \in SecretRefs : secret[s] # None

(* Once everything an object refers to exists, every object becomes Ready    *)
(* and stays so, though nothing watches parents, directories or secrets      *)
(* (lines 110-119, 145-158, 191-203, 284-291): where nothing fails, nothing  *)
(* is deleted or edited, and the directory, once Ready, stays so.  (After an *)
(* outage an object stays Pending, see PendingNotUsable.)                    *)
Provisioned ==
    (<>[]Complete /\ [](DirectoryReady => []DirectoryReady))
    => <>[](\A o \in Objects : IsReady(o))

(* An object that is leaving is gone in the end: no object holds up another, *)
(* whatever the order in which a tree is deleted (lines 92-108, 218-236), as *)
(* long as the directory is ready, nothing fails and no name is used again.  *)
(* (A parent created again under its name may never become Ready, see        *)
(* PendingNotUsable, and a foreign one never is an LDAP object: lines        *)
(* 177-203 come before the deletion at 218.)                                 *)
DeletionCompletes ==
    \A o \in Objects :
        (store[o] # None /\ store[o].deleting)
        ~> (store[o] = None \/ (directory # None /\ directory.phase # "Ready"))

-----------------------------------------------------------------------------
(* What comments and docs say, and the code does not always do.            *)

(* "PhasePending means the object has been created but is not ready for use" *)
(* (ldap_object.go:57): an object the operator leaves Pending has no entry,  *)
(* or its directory is not ready (lines 284-291 mark Ready only what was     *)
(* created).                                                                 *)
PendingNotUsable ==
    \A o \in Objects :
        /\ store[o] # None /\ store[o].status.phase = "Pending" /\ Settled(o)
        /\ directory # None /\ directory.phase = "Ready"
        => \A c \in claims : c.obj = o => c.dn \notin Entries

(* "Parent has probably been removed by a cascading delete. So there is      *)
(* probably no point in retrying" (lines 95-96): an object released because  *)
(* its references do not resolve has no entry any more.                      *)
NoPointInRetrying ==
    \A k \in Kinds :
        (At(k, "removeFinalizer") /\ worker[k].dn = <<>>)
        => \A c \in claims : c.obj = worker[k].key => c.dn \notin Entries

=============================================================================
