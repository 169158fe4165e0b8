# LDAP operator: TLA+ specifications

The operator keeps an OpenLDAP server and the entries in it in line with
Kubernetes custom resources: `LDAPDirectory`, `LDAPOrganizationalUnit`,
`LDAPGroup` and `LDAPUser`. These specifications model the operator's
controllers, its LDAP client, and what they run on (API server, informer caches,
workqueues, garbage collector, slapd), check them with TLC on small instances,
and prove the main guarantees of the client, of the reconcilers and of their
composition for every instance with TLAPS.

Line numbers refer to `src/internal/controller/ldapobject_controller.go` in
`LDAPObject`, `EntryOwnership` and `Operator`, to `src/internal/controller/ldapdirectory_controller.go` in
`LDAPDirectory`, to `src/internal/ldap/client.go` in `LDAPClient`, and are given
with the file elsewhere.

## Inventory

| Component | State it keeps | Operations |
|---|---|---|
| LDAP client (`internal/ldap/client.go`, `types.go`) | none of its own: a connection per request; slapd holds the tree | `CreateOrUpdateEntry` (search, then add or modify; for a user also bind and set password), `DeleteEntry` (recursive), `GetEntry`, `Ping` |
| Client builder (`client_builder.go`) | none | `Build` reads the directory, its certificate and its admin password |
| Object reconciler (`ldapobject_controller.go`), one controller each for units, groups, users | none between two calls of `Reconcile`; finalizer, owner reference and status are in the API server | `Reconcile`, `markPending`, `markReady`, `markFailed`, `setOwner` |
| Mappers (`mapper.go`) | none | spec (and password secret) to entry |
| Object API (`api/ldap_object.go`, `ldap*_types.go`) | spec and status | `ResolveReferences`, `GetDistinguishedName` |
| Directory reconciler (`ldapdirectory_controller.go`) | none between calls; admin password secret, statefulset and service in the API server | `Reconcile`, templates, `isStatefulSetReady`, mark... |
| Process (`cmd/ldap-operator/main.go`) | caches and queues | starts four controllers with one worker each |
| Image (`image/bootstrap.sh`) | config and data volumes | sets slapd up once |

**Interaction.** Users, the garbage collector and the controllers share the API
server. A controller reads through a cache that follows it with a delay, and is
called for a key when the informer hands over an event of an object of its own
kind, when it asked for a retry, or at the ten-hour resync. No controller
watches what its objects refer to: the readiness of a directory or a parent,
which gates an object, is noticed by retrying every five seconds. The three
object controllers do not know of each other and meet in slapd, where each of
their requests is atomic and their calls are not.

**What is hard.**

- *Interleaving and atomicity*: an upsert takes up to five requests and a
  cascading deletion one per entry and level, next to those of two other
  controllers. `Reconcile` resolves its references three times.
- *Staleness*: every decision is taken on cached objects and carried out on
  current ones (finalizers, owner references, statuses, generated password).
- *Partial failure and lost answers*: an entry exists and its creator was told
  otherwise; a failed deletion is followed by the removal of the finalizer.
- *Crashes*: nothing but the API server and slapd survives.
- *Order and identity*: parents and children come, go and come back under the
  same name in any order.
- *Liveness*: things are noticed only by retries, and some paths do not retry.

**What makes each component correct.**

- Client: a reported success means the entry has converged; a reported
  cascading deletion left nothing; every call returns.
- Object reconciler: no entry without an object that will delete it, except
  what the code gives up knowingly; a Ready object has its entry; nothing fails
  or panics while nothing fails or goes away around it; what can become Ready
  does; what is deleted goes.
- Directory reconciler: the operator always knows the admin password of slapd;
  the newest spec wins; a directory that can become ready does; deletion leaves
  nothing in the API server.

`PROJECT.json` lists the hazards one by one, at their lines, with the properties
that cover them.

## Modules

```
LDAPClient <-- ConcurrentClients <-- MCConcurrentClients
    ^               EntryOwnership
    |                     ^
LDAPObject -- implements -'        <-- MCLDAPObject
    ^
    |
Operator <-- MCOperator
    '-- instance of LDAPDirectory  <-- MCLDAPDirectory

LDAPClient_proofs <-- ConcurrentClients_proofs
    ^
    |
LDAPObject_proofs <-- LDAPStatus_proofs <-- LDAPReady_proofs <-- Operator_proofs
                                                                       |
                                      instance of LDAPDirectory_proofs-'

EntryOwnership_proofs
```

An arrow is EXTENDS; `Operator` has an instance of `LDAPDirectory`, and
`LDAPObject` one of `EntryOwnership`, with a refinement mapping. Each module of
proofs also extends the module it is about.

### LDAPClient

slapd's tree `dit` (a function from distinguished names to entries) and the call
each controller has under way, `call[k]`. A name is a sequence of RDNs, the
entry's own first. An entry keeps what the client's requests tell apart: a set of
optional values replaced attribute by attribute, required values, and a
password. Each action is one request with its answer: `Search`, `Add`, `Modify`,
`Bind`, `SetPassword` (client.go:181-441 for the three kinds), `DeleteSearch` and
`DeleteRequest` (113-152, the recursion as a stack of `frames`, each with the
children its search listed). `RequestFails` is a request that is not executed,
`ReplyLost` one that is executed and whose answer does not arrive. slapd's rules
(no entry without its superior, no deletion of an entry with children, no value
added twice) are external and modelled from how the client relies on them.
The base entry above all others is slapd's own and stands for itself.

### ConcurrentClients

The client's three callers without their reconcilers: any call at any time on a
fixed set of targets. It is the most general environment of the client, so what
is proved here holds of the client under `LDAPObject` too.

### LDAPObject

One module composes the generic reconciler with `LDAPClient` and with the
Kubernetes machinery. `store`, `watch` and `cache` are the API server, the events
on their way and the informers; `queue` and `worker[k]` the workqueue and the one
goroutine of each controller, at the point of `Reconcile` that `pc` names, with
its local variables. Every step is one cached read, one write or one LDAP request,
so another controller may act between any two; only `ResolveReferences` takes the
reads of the directory, the parent and the secret (ldapuser_types.go:108-129) in one step,
for all that follows is read again later:

| Step of `Reconcile` | lines | action |
|---|---|---|
| read the object | 65-77 | `Get` |
| finalizer | 79-90 | `AddFinalizer` |
| references | 92-128 | `ResolveReferences` |
| directory, again | 130-158 | `ResolveDirectory`, `Panic` |
| parent, again | 160-204 | `ResolveParent` |
| distinguished name, a read per ancestor | 211-214, `ldap*_types.go` | `GetDistinguishedName`, `Panic` |
| deletion | 218-236 | `DeleteEntry`, `RemoveFinalizer` |
| owner | 238-256, 359-368 | `SetOwner`, `Panic` |
| entry | 258-269 | `MapToEntry` |
| upsert | 271-294 | `CreateOrUpdateEntry` |
| status | 307-357 | `Mark` |
| any error of the API server | | `ApiFails` |

Building the LDAP client (206-209) is a step of its own in `Operator`; here a
failure of it is a failure of the call.

The environment: users create, edit and delete objects; the garbage collector
deletes objects whose owner is gone, by uid; the directory's phase and the
password secrets change and disappear; the operator crashes and restarts with
fresh caches. Four history variables keep account of the entries. `claims` are those
an object has asked for and not released. What slapd still holds of them when it is
released (`Release`) stays behind, and is `abandoned` when the reconciler knows (its
`DeleteEntry` failed, line 221, or was not called for want of a name, line 97) and
`outgrown` when it does not: `DeleteEntry` reported success, for another name than the
entry has, because the object was renamed or moved (line 219 deletes the current name
only). An entry that is still there at or below the name that was deleted with success is
neither. `blind` are the objects whose finalizer was removed while the cache did not
show them leaving. `used` counts what the environment has done.

### EntryOwnership

What the object reconcilers promise about entries, without caches, queues,
workers or requests. `held` are the incarnations (an object and its uid) that a
finalizer holds, `claims` the entries asked for on behalf of one, `entries` what
slapd has, `abandoned` what was left behind. Five actions: the finalizer is
added (`Hold`), the reconciler asks (`Ask`), slapd adds and deletes (`Add`,
`Remove`), and the finalizer is removed with all claims of that incarnation
(`LetGo`). `LDAPObject` implements it with `held` mapped to the objects in `store`
that have a finalizer (`Held`), `entries` to the domain of `dit`, `abandoned` to
`abandoned` and `outgrown`, and `claims` to `claims`; `EntriesOwned` is that claim. It is about who
asks and who lets go, and does not say that an entry is deleted before its object
lets go: that is `EntriesClaimed`. What makes it hard: the
worker may have a copy of a former incarnation, the patch of the finalizer is
computed from a stale copy, and the answer to an add may be lost.

### LDAPDirectory

The directory's reconciler in the same style, with the API server (`server`), the
informers (`cache`), the admin password secret, the statefulset, the service, the
pod behind the statefulset and the `volume` that `bootstrap.sh` writes once. Only
the directory and the service are `Watched`: `Owns(&appsv1.StatefulSet{})` (268)
looks for controller references, and the statefulset has a plain one (507). Of a
spec the model keeps what may change (an image) and what the API server refuses to
change (volume claim templates). An informer that catches up takes the newest
version at once; `LDAPObject` keeps the versions in between. The certificate has no
informer of its own (`certified`): it may be issued late, or be lost, between any two steps. A deleted directory may
be created again under its name, with a new `uid`; it finds the dependents of the
former one by name, and only the garbage collector tells them apart by uid (whether
the library takes over a statefulset or service with another owner is left open).

### Operator

The composition: `LDAPObject` with the directory of `LDAPDirectory` in place of its
environment's, in one process. Three things connect them.

- The object reconcilers read the directory from the same informer the directory
  reconciler does: `directory` is what `directoryCache` shows (`Seen`), and each step of the
  directory's part updates it (`ObjectsSee`).
- `Build` reads the admin password and the certificate from the informers into
  `login[k]`, the client's, or returns an error (client_builder.go:75-115).
- A request is `Admitted` when slapd is `Serving` (its pod ready, its service there)
  and the login is the password of the `volume`; otherwise `Refused` makes it fail
  (client.go:443-458). Outages are thus made by pods, services and statefulsets, not by a
  failure budget. The code keeps one connection, opened as the administrator, for the
  requests of a call, and opens a second one to compare a user's password (418); here each
  request, that bind included, needs what a new connection would need.

Requests that fail although slapd would serve them (`RequestLost`), and failed reads,
patches and status updates of the object reconcilers (`ObjectApiFails`), are those of
`LDAPObject`, and share one budget with the failures of the directory's part (`Budget`).

A crash, or the panic of one object (`OperatorPanic`), restarts all four controllers
(`ProcessRestarts`). The resync hands over what is at rest (`ResyncObject`,
`ResyncDirectory`); handing over what is queued or being worked on changes little and
is left out.

External code in both modules, modelled from how the operator uses it:
controller-runtime's cached client, workqueue (one worker per key at a time) and
`CreateOrPatch` (merge patch without a resource version; never recreates an object
it has read before), `UpdateStatus` (retries conflicts until the cache has caught
up), `Resolve` (nil without an error when the object is missing),
`SetControllerReference` (refuses an object with another controller, takes over
the same owner's new uid), `CreateOrUpdateFromTemplate` (compares with the cached
copy, creates or updates what differs).

Operators named `Bug...` belong to no specification. Each is a slip the next
operator could contain; putting it in that operator's place makes TLC report the
property that `PROJECT.json` pairs with it under "mutants".

## Runs

`tlc -config <run>.cfg <module>`

| Run | Instance | Checks |
|---|---|---|
| `clients` | a unit, a unit and a user in it, their clients, two passwords, two failures | `ClientTypeOK`; `UpsertConverged`: an upsert that reports success has left the wanted entry, or another client has deleted it meanwhile; `DeletedSubtreeGone`: a cascading deletion that reports success left nothing below; `CallReturns`: every call returns, though the others keep adding |
| `provisioning` | a unit and a user in it, directory and secret there or not, in every order; the directory changes twice, so that it may also fall back | `TypeOK`, `NeverFailed`, `NeverPanics`; `Provisioned`: all become Ready and stay so, once everything is there, provided that a directory that has become ready stays ready |
| `deletion` | a unit and a group in it, both deleted | `DeletionCompletes`; `EntriesClaimed`: no entry stays but those a release gave up knowingly |
| `failures` | the same, any four of: three creations (one under a former name; the group in the unit or below a foreign object), a deletion, and one failed or unanswered request, failed write or crash | `EntriesOwned` (the refinement), `EntriesClaimed` with failed deletions and lost answers, `ReadyHasEntry` while uids change under the operator |
| `changes` | one user, any five of: two creations, two edits (an attribute and the secret changed, renamed, moved below itself), deletion, loss of the directory and of a secret, a resync; two secrets with the same or different passwords, cache up to two events behind | `PinnedByFinalizer`; `EntriesTraced`: what stays was given up knowingly or outgrown; `ReadyMeansConverged`: name, attributes and password are those of the newest spec |
| `directory` | one directory, any three events of its life, its deletion and recreation among them | `TypeOK`, `PasswordMatches`, `RestsReady`: it comes to rest on no directory that is not Ready; `NewestSpecWins`: nor on a statefulset of a former spec; `BecomesReady`, `CleansUp` |
| `operator` | the whole operator with one unit; after the directory is created, and one of these at any moment: its service or its certificate is lost, the process crashes, a request, read or write of the object's reconciler fails | `Trusted`: a client is built only when slapd serves it; `Recovers`: the entry is there in the end |
| `teardown` | the same, the directory deleted at any moment | `TornDown`: no object that has lost its directory stays |

Runs that show a disagreement of the code with what is written about it:

| Run | Statement | What happens |
|---|---|---|
| `client_password` | "Password is an optional password" (types.go:65) | an existing user without a password cannot be updated: binding with an empty password is an error the client does not expect (client.go:425) |
| `outage` | "PhasePending means the object has been created but is not ready for use" (ldap_object.go:57) | an object that was Pending with its entry in place stays Pending for good, since only a creation marks Ready (284) |
| `directory_unready` | "Phase is the current state of the LDAP directory" (ldapdirectory_types.go:82) | a Ready directory does not notice that its statefulset is not |
| `retrying` | "no point in retrying" (95-96) | a user deleted together with its password secret leaves its entry in slapd |

All of these fail without any crash or failed request.

**Bounds.** `MaxFaults` bounds failed requests and crashes: with two, the run
`clients` fails a request, retries and fails again; with one, a life is interrupted
once at any point, after which recovery is that of a fresh process.
`MaxLag` is the number of events of an object on their way: with one, the cache is
one version behind, which separates every decision from the write it leads to; two
lets it skip over an edit. `MaxDepth` 3 is longer than any chain of parents that
ends. `Limits` bounds each event of the environment and `MaxEvents` all of them
together, failures included: two deletions reach both orders of parent and child;
three creations and a deletion let a parent come back below a child that stayed, and use up the
`MaxEvents` 4 of `failures`: a fault meets two creations and a deletion, or a deletion
before the recreation, but not all of them together (there `EntriesOwned`,
`EntriesClaimed` and `ReadyHasEntry` rest on the proofs); two edits close a
cycle and open it, or leave and return, and with `MaxEvents` 5 they meet a creation and two
other events; passwords are interchangeable (`SYMMETRY`), no property tells them apart; three events let a directory be deleted and
created again, or be edited and hit by a crash. In `operator` and `teardown` the
directory has one event besides its creation, at any moment of a life that has some
thirty steps of two workers and six informers: what is lost once and comes back is
what the recovery is about. A lost service is made again only when the directory is
reconciled for another reason, a lost certificate is issued again by its issuer; pods
and statefulsets that are lost are the subject of `BecomesReady` in `directory`. Two objects suffice for the relation of parent and
child, the only one the reconciler looks at (what a grandchild adds is said at
`ReadyEntryThere`). `clients` has a tree of two levels, so that
the recursion enters and leaves a child with a sibling still to visit; deeper trees, and
more values of the attributes, are the subject of `CascadeComplete` and `Converged`.
Bounded runs stop when the environment has nothing left
to do, hence `CHECK_DEADLOCK FALSE`.

`LDAPDirectory` is checked with one edit. With two, an edit that is undone while
the statefulset's informer still shows the state before the first one changes
nothing, and the statefulset stays at the first edit until something else
happens (hazard at 197). `DeletionCompletes` is checked without recreation: with it,
an object that is leaving may wait for ever for a parent that came back under its
name, found its entry in place and so was never marked Ready, because readiness
is checked (191-203) before deletion (218). An object whose parent is no LDAP object does
not go either, for the same order (177-189).

`ReadyMeansConverged` is checked without failures, and proved for all but one of them
(`ReadyIsTrue`): the failed update of a status in
`markFailed` is logged and forgotten (349-356), and the object then stays Ready although its
last upsert failed. An object that was Ready and is `Failed` by a request during an
outage of slapd stays Failed although a later resync repairs its entry, as only a
creation marks Ready (284-291): `Recovers` is therefore about the entry, not the phase. For
the same reason `observedGeneration`, "the most recent generation observed"
(ldap_object.go:69), stays at that of the creation when a later generation is carried
out by an update.

A directory that is deleted and created again generates a new password, while its
volume keeps the former one: `PasswordMatches`, `Trusted` and `Recovers` exclude
deletions, since no client of the new directory can log in. `CleansUp` does not exclude them:
what the former directory owned goes, although the new one may be Ready on top of it.

Other things seen on the way: a parent
that vanishes between two resolutions leads to a nil owner and a panic
(164, 361; `NeverPanics` holds only where nothing goes away); an entry added below a
unit while it is deleted makes slapd refuse the deletion, which is logged and
forgotten (221), and the entry of the unit stays behind (`abandoned`); a renamed or moved
object leaves its former entry in slapd for good (219, `outgrown`).

**Fairness.** Weak fairness of a worker and of a client's requests: a goroutine
runs and requests time out. Weak fairness of informers and garbage collector:
they keep up. Strong fairness of `Get` in `LDAPObject`: the workqueue is first in
first out, so a key that keeps coming back does not starve another of the same
controller. A pod that can start starts. Users, failures and crashes have no fairness.
Resyncs have none where they are an event of the environment; in `Operator`, which is
about recovery, they are weakly fair for what is at rest, because the informers do hand over
everything every ten hours, whatever happens. There the fairness of informers, garbage
collector and pods is one condition: one that can go on does. The certificate is issued again
only if it is (the premise `Startable` of `Recovers`). A retry after five seconds is a key that is back in the queue at once;
the delay cannot matter to what may happen, only to how soon.

## Proofs

`tlapm <module>_proofs.tla`. Everything below holds for all names, specs, texts,
passwords, objects, delays of the informers, failures and events, under the
assumptions the modules name on their constants: the bounds are natural numbers,
what stands for "nothing" is none of the values, an object's kind decides its
attributes, and a password can be generated that is not in use. Each
module proves an inductive invariant, one lemma per action and part, and the
properties from it. Where an invariant is not obvious TLC has checked it, as an invariant
of the runs named, before it was proved.

### The client: `LDAPClient_proofs`, `ConcurrentClients_proofs`

- `TypeCorrect`: `Spec => []ClientTypeOK`.
- `Converged`: `Spec => []UpsertConverged`, for calls whose entry has the name its
  distinguished name begins with. It is not inductive: what the last request of an
  upsert leaves depends on what its first one found, and on what the others did
  since. `ClientInv` adds `Converging`: before the modification the entry is what
  the search found, before the password it has the wanted attributes, and after
  the return it has everything, unless it is gone. The other clients preserve it
  (`Spares`): entries of a kind are added and modified by that kind's client only,
  the others delete them at most, and so an entry that is gone stays gone until
  the call ends.
- `CascadeComplete`: `Spec => []DeletedSubtreeGone`. The strengthening `DeletionInv`
  says that the tree is closed under superiors (`Rooted`), so an entry without
  children has no descendants, and that the bottom frame of a deletion is the entry
  the call was made for (`Deleting`): when the last frame is popped, it was that entry
  slapd found without children and removed.

### The object reconciler: `LDAPObject_proofs`

- `TypeCorrect`, and with it what each point of `Reconcile` knows of its local
  variables (`Sound`).
- `NothingLeaks`: `Spec => []EntriesTraced`. Three things keep it. An entry is
  added only in a call whose object has claimed it (`Linked`). Each
  entry of a kind is claimed by an object of that kind or was abandoned (`Claimed`). And
  between a cascading deletion and the release of the object, what is gone of its own
  kind stays gone (`Cleaned`): only the client of that kind adds entries of it, and its
  one worker is busy with the release.
- `NothingElseStays`: `NothingMoves => (Spec => []EntriesClaimed)`. Where no object is renamed
  or moved (nor created again elsewhere), every object has one name, `home[o]`, whatever
  versions of it and its ancestors the reconciler sees. The invariant (`HomeInv`) says that
  the name composed so far and what is left of the climb are that name, so `DeleteEntry` is
  called for the very name each claim is for, and nothing is outgrown. An operator that forgot
  to call it would break both theorems.
- `CallsKeepPromises`: `UpsertConverged` and `DeletedSubtreeGone` as the reconcilers
  call the client, from `LDAPClient_proofs`.

### Finalizers and the refinement: `LDAPObject_proofs`, `EntryOwnership_proofs`

- `FinalizerPins`: `Spec => []PinnedByFinalizer`. The reconciler decides from a cached
  copy and writes to the API server, so the invariant (`PinInv`) is about the chain of
  versions of an object from the cache over the events on their way to the API server.
  Along a chain uids grow, and within an incarnation a finalizer that is there stays
  until the object is leaving, and leaving is for good. A version that has a finalizer,
  or a worker that is past line 90, therefore vouches for everything that follows
  it in the chain, including what is on its way when the worker acts. TLC checked it on
  `changes` and on `failures` with `MaxLag` 2.
- `ImplementsOwnership`: `(Spec /\ [](blind = {})) => EntriesOwned`, step by step:
  `AddFinalizer` is `Hold`, `MapToEntry` is `Ask`, slapd's addition, whether or not its
  answer arrives, is `Add`, its deletion `Remove`, the removal of the finalizer
  `LetGo`, all else a stutter. The hypothesis excludes that an object is released by a patch
  computed from a copy that did not yet show it leaving (`blind`): the finalizer of a
  later incarnation may then be taken by a worker of a former one. It cannot be dropped: with
  informers two events behind TLC finds both `blind = {}` and `EntriesOwned` violated.
- `ImplementsOwnershipNearby`: with `MaxLag <= 1` nothing is released blindly, so
  `Spec => EntriesOwned` without the hypothesis. That is the claim the run `failures` checks.
- `NothingLeaks` of `EntryOwnership`: every claim is of an incarnation that is held, one
  per object, and every entry is claimed or abandoned. The two need each other: letting go
  of an incarnation takes exactly its own claims along. By the refinement it holds of the
  reconciler.

### What a user sees: `LDAPStatus_proofs`

- `NothingPanics`: `(NothingGoes /\ Treelike) => (Spec => []NeverPanics)`. `NothingGoes`
  excludes deletions of objects and of the directory: a parent that goes between two
  resolutions is the nil dereference seen on the way (164, 361). `Treelike` excludes a
  cycle of parents, on which the climb to the top never ends. Contents, names and parents
  may otherwise be edited, requests and writes fail, the process crash. Every version
  anywhere is then `Living` (not leaving, its owner there), and so is what a worker has
  seen, since living versions are only followed by living ones. The height of an object
  bounds the rest of the climb.
- `NothingMarkedFailed`: `(NothingGoes /\ NothingFails /\ Planned) => (Spec => []NeverFailed)`.
  `NothingFails`: no failed requests or crashes, no password secret lost. `Planned`: each object has
  one place in the tree, `path[o]`, one parent and one secret in all its specs, a user
  has a secret (without one its update fails, see `client_password`), no parent is
  foreign; contents may be edited. Objects and secrets come in any order. The invariant
  (`RiseInv`) says that a version is `Steady`, Ready only where slapd has the entry, and
  that a worker knows what it has seen so far: the secret, the parent's entry, its own
  place (`Rises`, and `CallRises` for the requests under way), all of which only ever
  come to be. TLC checked it on `provisioning` with edits of contents added.
- `ReadyIsTrue`: `OwnPlaces => ((Spec /\ [][FailuresRecorded]_vars /\ []SecretsKept) =>
  []ReadyMeansConverged)`, with any edits, deletions, lags, failed requests and crashes.
  Ready is written once, when the entry is created (284-291), and outlives every edit, so
  the invariant (`ReadyInv`) is about what the operator still has to do. If nothing
  about an object is on its way to the operator (`Current`: no event and not queued), its
  worker, when it works on it, has the API server's version, and asks for what that version
  says (`InStep`, `Asks`, `Found`); when it does not, a Ready object's entry is right
  (`ReadyTrue`). A write of the API server is an event and ends `Current`, a failure queues
  the object again, and no step of another client harms a top entry: it only deletes
  entries of longer names or its own target (`DeletesBelow`), and a name of one RDN is that of a spec
  at the top (`Placed`). The hypotheses are what the code does not make up for:
  - `FailuresRecorded`: the status update of `markFailed` is not refused (349-356); it follows from
    `MaxFaults = 0`. Without it TLC finds the invariant violated.
  - `OwnPlaces`: two objects of a kind with one name at the top take turns on one entry.
  - `SecretsKept`: each secret `s` has the password `PasswordIn[s]` or is away, since nothing
    watches secrets (296). Different secrets have different passwords, an object may be
    edited from one to another, and its entry then has that of the newest spec.

  TLC checked the invariant on `changes` with one failure added, and on two units
  that are edited and have places of their own.

### Ready and the entry: `LDAPReady_proofs`

- `ReadyEntryThere`: `(TwoLevels /\ MaxLag <= 1) => ((Spec /\ [][FailuresRecorded]_vars) =>
  []ReadyHasEntry)`. `ReadyIsTrue` is about the top of the tree, whose entries only their
  own reconciler deletes. The entry of a child goes with its parent's as well, in a cascading
  deletion (client.go:327-354) long before the garbage collector tells the child, and the
  parent may be back under its name by then. What saves the child is its owner reference. The
  invariant (`HasInv`) follows it:
  - it names an incarnation of the parent that had its finalizer when it was named, and keeps it
    as long as it exists (`Vouched`, `Boss`): a parent that was created again is no owner
    before it has been through line 90 itself;
  - so the worker that deletes has that incarnation leaving in its copy, or the incarnation is
    gone and the reference broken. Either way the child is not `Safe`, and nothing is said of it
    (`EntryKept`);
  - a deletion stays at or below the name it was called for (`DeletesUnder`), and each object has one
    name that is nobody else's (`Homes`);
  - a worker that is going to say Ready has its entry in slapd, or it or its owner is
    leaving (`Trusts`), and what the operator is done with stays as it was left (`DoneThere`).

  The hypotheses are:
  - `TwoLevels`: objects keep their names and have a parent at the top, or none. Renaming leaves the
    former entry behind. On three levels TLC finds the property violated: when the
    parent in the middle takes over the new uid of its own parent (359-368), and its entry went with
    the old one, it is repaired and remains; nothing tells its child, which is Ready without an entry
    until the next resync.
  - `FailuresRecorded`, as for `ReadyIsTrue`. Without it TLC finds the property violated: a parent
    is deleted and created again, the upsert of its child fails, and so does the status update
    that should say so.
  - `MaxLag <= 1`: otherwise an object may be released blindly (`ImplementsOwnership`) and its worker
    and its successor's be at odds.

  TLC checked `ReadyHasEntry` on `failures` before it was proved; the proof has one lemma per
  action (`...Has`).

### The directory reconciler: `LDAPDirectory_proofs`

- `TypeCorrect`.
- `PasswordStays`: `Spec => []PasswordMatches`. As long as nobody deletes the directory or its
  secret there is one directory, all copies of which are alive (`OneDirectory`), and a
  secret in the cache is the one in the API server, which has the password of the volume
  (`SecretKept`). A password that is generated because the cache shows no secret yet
  meets an API server that refuses to create it twice.
- `RestsOnReady`: `Spec => []RestsReady`. Generations and uids are ordered from worker over
  cache to API server (`InOrder`), a worker whose copy is older than the cache has been queued
  again (`Fresh`), and a worker that is not queued ends in a retry, an error or Ready
  (`NotForgotten`).
- `NewestSpecMade`: `(Spec /\ [][ReturnsAtRest]_vars) => []NewestSpecWins`. The
  statefulset is updated only where the cached one differs from the directory in memory
  (197), so the invariant (`SpecInv`) says where a former spec may still be: a
  statefulset that is not made of the newest one is seen again by the cache, the worker
  or the queue. `ReturnsAtRest` is what the code does not make up for: a spec that is
  given again while some copy still holds it is taken for done. Any number of edits
  to specs that are new, or that return once the operator has settled, is covered. TLC checked the
  invariant with two edits, and with three creations and three edits.

### The operator: `Operator_proofs`

Both invariants hold of the composition, `ObjectInv` under the steps of the directory's
part and `DirectoryInv` under those of the objects'.

- `ReadyCanBeTrusted`: `OperatorSpec => []Trusted`. A directory that is Ready in a cache
  was seen running, so slapd was set up, and what started stays started until something is
  lost; the password in the cache is the volume's by `SecretKept`.
- `NothingLeaksAtAll`: `OperatorSpec => []EntriesTraced`, and `NothingElseStaysAtAll`:
  `NothingMoves => (OperatorSpec => []EntriesClaimed)`.
- `FinalizerPinsAll`, `OperatorOwns`, `ReadyIsTrueOfAll`, `ReadyEntryThereOfAll`: what
  `LDAPObject_proofs`, `LDAPStatus_proofs` and `LDAPReady_proofs` prove of the object
  reconcilers alone. Not every step of the operator
  is one of theirs: slapd refuses the clients of a lost password, a client cannot be
  built, a panic stops all controllers, the garbage collector knows the
  directory before the informers do. `OperatorSteps` splits a step into one of the
  reconcilers, one of a few more that are proved by themselves (`SlapdRefuses`,
  `ReturnsEarly`, `Removes`, `Enqueues`), or one that leaves the objects alone
  (`Unaffected`). The last two have the hypotheses of the theorems they extend,
  `FailuresRecorded` among them.

### Only model-checked

- Liveness (`CallReturns`, `Provisioned`, `DeletionCompletes`, `BecomesReady`, `CleansUp`,
  `Recovers`, `TornDown`): TLAPS proves nothing under fairness.
- Of the safety properties none. Their hypotheses are not proved necessary; where it
  is said above that one is, TLC has a counterexample on a small instance.

## Not modelled

- Generated deep copies, manifests, the fake client, flags, metrics, logging.
- `Ping` and `GetEntry`: they change nothing and the reconcilers do not call them.
- TLS, addresses and the leak of a connection whose bind fails (client.go:453).
- Several directories in one cluster: objects of different directories share
  the workers only, unless a parent belongs to another directory than its child
  (hazard at 162), which the model does not let it.
- Status conditions, and events for users.
- A change of a user's password secret after it was read: nothing watches it, and nothing
  in the repository says how soon it has to arrive (hazard at 296).
- Leader election: a second process that takes over does what a restarted one does;
  two at once are excluded by the lease.

## Status and plan

The reconcilers, the client and their composition are modelled, and each safety and
action property of the passing runs is proved. What could come next, as the code grows:

1. `ReadyHasEntry` for deeper trees, should the reconciler watch parents or compare the uid
   of the owner with the one it had (359-368).
2. Several directories in one cluster, should the code say to which of them a parent may belong
   (162).
