------------------------- MODULE LDAPReady_proofs -------------------------
(***************************************************************************)
(* Ready means that the entry is there, for the children of a top entry    *)
(* too.  Who deletes an entry is its own reconciler or, with everything    *)
(* below it, that of the parent, and the parent's worker does so long      *)
(* before the garbage collector tells the child.  What saves the child is  *)
(* its owner reference: it names an incarnation of the parent, which had   *)
(* its finalizer when it was named, so the worker that deletes sees that   *)
(* incarnation leaving, or it is gone and the reference is broken; either  *)
(* way the child is Leaving.                                               *)
(***************************************************************************)
EXTENDS LDAPStatus_proofs

-----------------------------------------------------------------------------
(* Every object asks for the one entry it has in a tree of two levels, and   *)
(* no other object for the same.                                             *)
Homes(home) ==
    /\ home \in [Objects -> DN]
    /\ \A o, x \in Objects : home[o] = home[x] => o = x
    /\ \A o \in Objects : \A s \in Specs[o] :
          LET r == [kind |-> KindOf[o], name |-> s.name] IN
          \/ s.parent = None /\ home[o] = <<r>>
          \/ /\ s.parent \in Objects /\ Len(home[s.parent]) = 1
             /\ home[o] = <<r>> \o home[s.parent]

TwoLevels == \E home : Homes(home)

Asked(o) == \E c \in claims : c.obj = o

(* The incarnation u of an object has its finalizer as long as it exists. *)
Vouched(u) ==
    u.name \in Objects =>
        /\ u.uid \in 0 .. used["create"] - 1
        /\ (store[u.name] # None /\ store[u.name].uid = u.uid) => store[u.name].finalizer

Boss(o, u) == Vouched(u) /\ \A s \in Specs[o] : u.name = OwnerName(s)

(* Neither o nor its owner is leaving. *)
Safe(o) ==
    LET u == store[o].owner IN
    /\ store[o] # None /\ ~store[o].deleting /\ u # None
    /\ u.name \in Objects => /\ store[u.name] # None /\ store[u.name].uid = u.uid
                             /\ ~store[u.name].deleting

There(o, home) == Safe(o) => home[o] \in Entries

(* What the cache and the API server tell of o. *)
CacheTells(o) ==
    cache[o] # None =>
        /\ cache[o].status.phase = "Ready" => cache[o].finalizer
        /\ (cache[o].owner # None /\ store[o] # None) => store[o].owner # None

StoreTells(o) ==
    store[o] # None =>
        /\ store[o].owner # None => Boss(o, store[o].owner)
        /\ store[o].status.phase = "Ready" => Asked(o)

Known(home) ==
    /\ \A c \in claims : c.dn = home[c.obj] /\ store[c.obj].owner # None
    /\ \A o \in Objects : CacheTells(o) /\ StoreTells(o)

(* The name a worker has composed, or begun to. *)
AtHome(w, home) ==
    \/ w.dn = home[w.key] /\ (w.pc = "getDistinguishedName" => w.climb = None)
    \/ /\ w.pc = "getDistinguishedName" /\ w.climb \in Objects
       /\ Len(w.dn) = 1 /\ Len(home[w.climb]) = 1 /\ home[w.key] = w.dn \o home[w.climb]

(* What worker k knows on its way to Ready, being in state w. *)
Trusts(k, w, home) ==
    /\ w.pc = "resolveParent" => w.owner # None /\ w.owner.name = Directory
    /\ (w.pc \in {"getDistinguishedName", "setOwner"} /\ w.owner # None) => Boss(w.key, w.owner)
    /\ w.pc \in Composed => AtHome(w, home)
    /\ w.pc \in {"mapToEntry", "upsertEntry"} => store[w.key].owner # None
    /\ (w.pc = "upsertEntry" /\ Safe(w.key)) => Found(k)
    /\ (w.pc = "mark" /\ w.status = "Ready") => Asked(w.key) /\ There(w.key, home)

(* A deletion gets at nothing but what is at or below its own entry. *)
FramesUnder(d) ==
    {f \in Frame : /\ IsSuffix(d, f.dn)
                   /\ \A e \in f.kids : IsSuffix(d, e)}

DeletesUnder(k) ==
    LET c == call[k] IN
    c.step = "delete" => c.frames \in Seq(FramesUnder(c.dn))

(* What the operator is done with is there. *)
DoneThere(o, home) ==
    (Current(o) /\ worker[KindOf[o]].key # o /\ IsReady(o)) => There(o, home)

HasInv(home) ==
    /\ Known(home)
    /\ \A k \in Kinds : DeletesUnder(k) /\ \E w : worker[k] = w /\ Trusts(k, w, home)
    /\ \A o \in Objects : DoneThere(o, home)

-----------------------------------------------------------------------------
(* What is known of any object while the informers are close behind.       *)

CloseInv == ObjectInv /\ PinInv /\ NearInv

LEMMA CloseFacts ==
    ASSUME CloseInv, NEW o \in Objects
    PROVE  /\ store[o] \in VersionsOf(o) \cup {None} /\ cache[o] \in VersionsOf(o) \cup {None}
           /\ used["create"] \in Nat
           /\ Asked(o) => store[o] # None /\ store[o].finalizer
           /\ store[o] # None => /\ store[o].uid \in Nat /\ store[o].uid < used["create"]
                                 /\ store[o].owner # None => store[o].finalizer
           /\ cache[o] # None => cache[o].uid \in Nat /\ cache[o].uid < used["create"]
           /\ (cache[o] # None /\ store[o] # None) =>
                 /\ cache[o].uid = store[o].uid
                 /\ cache[o].finalizer => store[o].finalizer
           /\ watch[o] = <<>> => cache[o] = store[o]
<1>1. /\ store[o] \in VersionsOf(o) \cup {None} /\ cache[o] \in VersionsOf(o) \cup {None}
      /\ used["create"] \in Nat /\ o \notin blind /\ ApiSound
  BY DEF CloseInv, ObjectInv, ReconcilerSound, ApiSound, EnvironmentSound, Events, NearInv
<1>2. Asked(o) => store[o] # None /\ store[o].finalizer
  BY <1>1 DEF CloseInv, PinInv, PinnedByFinalizer, Asked
<1>3. /\ store[o] # None => /\ store[o].uid \in Nat /\ store[o].uid < used["create"]
                            /\ store[o].owner # None => store[o].finalizer
      /\ Precedes(cache[o], store[o])
  BY <1>1, ChainEnds, VersionParts DEF CloseInv
<1>4. cache[o] # None => cache[o].uid \in Nat /\ cache[o].uid < used["create"]
  <2>1. PICK c : c = Chain(o)
    OBVIOUS
  <2>2. IsChain(c) /\ c[1] = cache[o]
    BY <1>1, <2>1, ChainFacts
  <2>3. GoodChain(c, used["create"])
    BY <1>1, <2>1 DEF CloseInv, PinInv
  <2> QED
    BY <1>1, <2>2, <2>3, VersionParts DEF GoodChain, Born, IsChain
<1>5. Near(o)
  BY DEF CloseInv, NearInv
<1>6. (cache[o] # None /\ store[o] # None) => cache[o].uid = store[o].uid
  BY <1>5 DEF Near, Succeeds
<1>7. watch[o] = <<>> => cache[o] = store[o]
  BY CurrentCached DEF CloseInv, PinInv
<1> QED
  BY <1>1, <1>2, <1>3, <1>4, <1>6, <1>7 DEF Precedes

(* The place of an object's entry, and the name of its owner. *)
LEMMA HomeOf ==
    ASSUME NEW home, Homes(home), NEW o \in Objects, NEW s \in Specs[o]
    PROVE  /\ home[o] \in DN
           /\ \E r : /\ r = [kind |-> KindOf[o], name |-> s.name]
                     /\ s.parent = None => home[o] = <<r>>
                     /\ s.parent # None => home[o] = <<r>> \o home[s.parent]
           /\ Len(home[o]) = IF s.parent = None THEN 1 ELSE 2
           /\ s.parent # None => /\ s.parent \in Objects /\ home[s.parent] \in DN
                                 /\ Len(home[s.parent]) = 1
                                 /\ home[s.parent] = <<home[o][2]>>
<1>1. home[o] \in DN
  BY DEF Homes
<1>2. PICK r : r = [kind |-> KindOf[o], name |-> s.name]
  OBVIOUS
<1>3. CASE s.parent = None /\ home[o] = <<r>>
  BY <1>1, <1>2, <1>3
<1>4. CASE /\ s.parent \in Objects /\ Len(home[s.parent]) = 1
           /\ home[o] = <<r>> \o home[s.parent]
  <2>1. PICK h \in DN : h = home[s.parent]
    BY <1>4 DEF Homes
  <2>2. h \in Seq(RDN \cup {r}) /\ r \in RDN \cup {r}
    BY DEF DN
  <2>3. Len(<<r>> \o h) = Len(h) + 1 /\ (<<r>> \o h)[2] = h[1]
    <3>1. /\ Len(<<r>> \o h) = Len(h) + 1
          /\ \A i \in 1 .. Len(h) : (<<r>> \o h)[i + 1] = h[i]
      BY <2>2, ConsProperties
    <3> QED
      BY <1>4, <2>1, <3>1
  <2>4. h = <<h[1]>>
    BY <1>4, <2>1, <2>2
  <2>5. s.parent # None
    BY <1>4, ObjectsAssumption
  <2>6. Len(home[o]) = 2 /\ home[o][2] = h[1]
    <3>1. Len(h) = 1 /\ home[o] = <<r>> \o h
      BY <1>4, <2>1
    <3> QED
      BY <2>3, <3>1
  <2>7. home[s.parent] \in DN /\ Len(home[s.parent]) = 1 /\ home[s.parent] = <<home[o][2]>>
    <3>1. h = <<home[o][2]>>
      BY <2>4, <2>6
    <3> QED
      BY <1>4, <2>1, <3>1
  <2> QED
    BY <1>1, <1>2, <1>4, <2>5, <2>6, <2>7
<1> QED
  BY <1>2, <1>3, <1>4 DEF Homes

LEMMA OneBoss ==
    ASSUME NEW home, Homes(home), NEW o \in Objects, NEW s \in Specs[o], NEW t \in Specs[o]
    PROVE  OwnerName(t) = OwnerName(s)
<1>1. CASE Len(home[o]) = 1
  BY <1>1, HomeOf DEF OwnerName
<1>2. CASE Len(home[o]) = 2
  <2>1. /\ t.parent \in Objects /\ s.parent \in Objects /\ t.parent # None /\ s.parent # None
        /\ home[t.parent] = home[s.parent]
    BY <1>2, HomeOf
  <2>2. t.parent = s.parent
    BY <2>1 DEF Homes
  <2> QED
    BY <2>2 DEF OwnerName
<1> QED
  BY <1>1, <1>2, HomeOf

-----------------------------------------------------------------------------
(* What a step does to the objects.                                        *)

Anew(o) ==
    /\ store[o] = None /\ cache[o] = None /\ store'[o] # None
    /\ store'[o].uid = used["create"] /\ ~store'[o].finalizer
    /\ store'[o].owner = None /\ store'[o].status.phase # "Ready"

Remains(o) ==
    /\ store[o] # None /\ store'[o] # None /\ store'[o].uid = store[o].uid
    /\ store[o].deleting => store'[o].deleting
    /\ store[o].finalizer => store'[o].finalizer

Passes(o) ==
    /\ store'[o] = None \/ Anew(o) \/ Remains(o)
    /\ cache'[o] = cache[o] \/ (cache'[o] = store[o] /\ store'[o] = store[o])

Passing == used["create"] <= used'["create"] /\ \A o \in Objects : Passes(o)

(* What the step says of o is true. *)
Tells(o) ==
    Remains(o) =>
        /\ \/ store'[o].owner = store[o].owner
           \/ store'[o].owner # None /\ Boss(o, store'[o].owner)
        /\ \/ store'[o].status = store[o].status
           \/ store'[o].status.phase = "Ready" => Asked(o)'
        /\ Asked(o) => Asked(o)'

Claims(home) ==
    \A c \in claims' \ claims : c.dn = home[c.obj] /\ store'[c.obj].owner # None

LEMMA VouchedStays ==
    ASSUME CloseInv, CloseInv', Passing, NEW u, Vouched(u)
    PROVE  Vouched(u)'
<1>1. SUFFICES ASSUME u.name \in Objects
               PROVE  /\ u.uid \in 0 .. used'["create"] - 1
                      /\ (store'[u.name] # None /\ store'[u.name].uid = u.uid)
                            => store'[u.name].finalizer
  BY DEF Vouched
<1>2. u.uid \in 0 .. used["create"] - 1 /\ used["create"] \in Nat /\ used'["create"] \in Nat
  BY <1>1, CloseFacts DEF Vouched, CloseInv, ObjectInv, ReconcilerSound, EnvironmentSound, Events
<1>3. Passes(u.name) /\ used["create"] <= used'["create"]
  BY <1>1 DEF Passing
<1> QED
  BY <1>1, <1>2, <1>3 DEF Vouched, Passes, Anew, Remains

LEMMA BossStays ==
    ASSUME CloseInv, CloseInv', Passing, NEW o, NEW u, Boss(o, u)
    PROVE  Boss(o, u)'
BY VouchedStays DEF Boss

LEMMA SafeBefore ==
    ASSUME CloseInv, CloseInv', Passing, NEW o \in Objects, StoreTells(o),
           Remains(o), store'[o].owner = store[o].owner, Safe(o)'
    PROVE  Safe(o)
<1>1. PICK u : u = store[o].owner
  OBVIOUS
<1>2. store[o] # None /\ ~store[o].deleting /\ u # None
  BY <1>1 DEF Safe, Remains
<1>3. Vouched(u)
  BY <1>1, <1>2 DEF StoreTells, Boss
<1>4. ASSUME u.name \in Objects
      PROVE  store[u.name] # None /\ store[u.name].uid = u.uid /\ ~store[u.name].deleting
  <2>1. store'[u.name] # None /\ store'[u.name].uid = u.uid /\ ~store'[u.name].deleting
    BY <1>1, <1>4 DEF Safe
  <2>2. u.uid # used["create"]
    BY <1>3, <1>4, CloseFacts DEF Vouched
  <2>3. Passes(u.name)
    BY <1>4 DEF Passing
  <2> QED
    BY <2>1, <2>2, <2>3 DEF Passes, Anew, Remains
<1> QED
  BY <1>1, <1>2, <1>4 DEF Safe

(* What has been asked for stays where it is. *)
LEMMA AskedStays ==
    ASSUME CloseInv, CloseInv', Passing, NEW o \in Objects, Asked(o), Asked(o)'
    PROVE  Remains(o)
<1>1. store[o] # None /\ store'[o] # None /\ Passes(o)
  BY CloseFacts DEF Passing, Asked, CloseInv, PinInv, PinnedByFinalizer, NearInv
<1> QED
  BY <1>1 DEF Passes, Anew

LEMMA KnownStays ==
    ASSUME CloseInv, CloseInv', NEW home, Known(home), Passing,
           \A o \in Objects : Tells(o), Claims(home)
    PROVE  Known(home)'
<1>1. ASSUME NEW c \in claims'
      PROVE  c.dn = home[c.obj] /\ store'[c.obj].owner # None
  <2>1. CASE c \in claims
    <3>1. PICK o \in Objects : o = c.obj
      BY <2>1 DEF CloseInv, ObjectInv, HistorySound
    <3>2. Asked(o) /\ Asked(o)'
      BY <1>1, <2>1, <3>1 DEF Asked
    <3>3. Remains(o) /\ Tells(o)
      BY <3>2, AskedStays
    <3>4. c.dn = home[o] /\ store[o].owner # None
      BY <2>1, <3>1 DEF Known
    <3> QED
      BY <3>1, <3>3, <3>4 DEF Tells
  <2> QED
    BY <1>1, <2>1 DEF Claims
<1>2. ASSUME NEW o \in Objects
      PROVE  CacheTells(o)'
  <2>1. CASE cache'[o] = store[o] /\ store'[o] = store[o]
    <3>1. (store[o] # None /\ store[o].status.phase = "Ready") => store[o].finalizer
      BY CloseFacts DEF Known, StoreTells
    <3> QED
      BY <2>1, <3>1 DEF CacheTells
  <2>2. CASE cache'[o] = cache[o]
    <3>1. CacheTells(o) /\ Tells(o) /\ Passes(o)
      BY DEF Known, Passing
    <3> QED
      BY <2>2, <3>1 DEF CacheTells, Tells, Passes, Anew, Remains
  <2> QED
    BY <2>1, <2>2 DEF Passing, Passes
<1>3. ASSUME NEW o \in Objects
      PROVE  StoreTells(o)'
  <2>1. PICK v, u : v = store'[o] /\ u = v.owner
    OBVIOUS
  <2>2. CASE Anew(o)
    BY <2>2 DEF Anew, StoreTells
  <2>3. CASE Remains(o)
    <3>1. StoreTells(o) /\ Tells(o)
      BY DEF Known
    <3>2. u # None => Boss(o, u)
      BY <2>1, <2>3, <3>1 DEF StoreTells, Tells, Remains
    <3>3. u # None => Boss(o, u)'
      BY <3>2, BossStays
    <3>4. v.status.phase = "Ready" => Asked(o)'
      BY <2>1, <2>3, <3>1 DEF StoreTells, Tells, Remains
    <3> QED
      BY <2>1, <3>3, <3>4 DEF StoreTells, Boss, Vouched
  <2>4. CASE store'[o] = None
    BY <2>4 DEF StoreTells
  <2> QED
    BY <2>2, <2>3, <2>4 DEF Passing, Passes
<1> QED
  BY <1>1, <1>2, <1>3 DEF Known

-----------------------------------------------------------------------------
(* What stays true of an object and of a worker.                           *)

(* The owner and the status of o, and whether it has asked, are as before. *)
Alike(o) ==
    /\ Remains(o) => store'[o].owner = store[o].owner /\ store'[o].status = store[o].status
    /\ Asked(o) => Asked(o)'

(* slapd keeps the entry of o, unless o is leaving or its owner is. *)
Kept(o, home) == (Safe(o) /\ Asked(o) /\ home[o] \in Entries) => home[o] \in Entries'

LEMMA ThereStays ==
    ASSUME CloseInv, CloseInv', Passing, NEW home, NEW o \in Objects,
           StoreTells(o), Alike(o), Kept(o, home), Asked(o), There(o, home)
    PROVE  There(o, home)'
<1>1. Remains(o)
  BY AskedStays DEF Alike
<1>2. Safe(o)' => Safe(o)
  BY <1>1, SafeBefore DEF Alike
<1> QED
  BY <1>2 DEF There, Kept

(* A worker that stands still. *)
LEMMA StillTrusts ==
    ASSUME CloseInv, CloseInv', Passing, NEW home, Known(home),
           NEW j \in Kinds, NEW w, worker[j] = w, worker'[j] = w, call'[j] = call[j],
           w.pc # "idle" => Alike(w.key) /\ Kept(w.key, home),
           Trusts(j, w, home)
    PROVE  Trusts(j, w, home)'
<1>1. CASE w.pc = "idle"
  BY <1>1 DEF Trusts, Composed
<1>2. CASE w.pc # "idle"
  <2>1. PICK x \in Objects : x = w.key
    BY <1>2, AtWork DEF CloseInv, ObjectInv
  <2>2. Alike(x) /\ Kept(x, home) /\ StoreTells(x)
    BY <1>2, <2>1 DEF Known
  <2>3. ASSUME w.pc \in {"getDistinguishedName", "setOwner"}, w.owner # None
        PROVE  Boss(w.key, w.owner)'
    BY <2>3, BossStays DEF Trusts
  <2>4. ASSUME w.pc \in {"mapToEntry", "upsertEntry"}
        PROVE  Remains(x) /\ store[x].owner # None /\ store'[x].owner # None
    <3>1. store[x] # None /\ store'[x] # None /\ store'[x].finalizer
      <4>1. Relies(j) /\ Relies(j)'
        BY <1>2 DEF CloseInv, PinInv, NearInv
      <4> QED
        BY <2>1, <2>4, <4>1 DEF Relies, Pinned
    <3>2. Remains(x)
      BY <3>1 DEF Passing, Passes, Anew
    <3>3. store[x].owner # None
      BY <2>1, <2>4 DEF Trusts
    <3> QED
      BY <2>2, <3>2, <3>3 DEF Alike
  <2>5. ASSUME w.pc = "upsertEntry", Safe(w.key)'
        PROVE  Found(j)'
    <3>1. Safe(x)
      BY <2>1, <2>2, <2>4, <2>5, SafeBefore DEF Alike
    <3>2. call[j].dn = home[x]
      BY <2>1, <2>5 DEF CloseInv, ObjectInv, Linked, Trusts, AtHome, Composed
    <3>3. Asked(x)
      BY <2>1, <2>5 DEF CloseInv, ObjectInv, Claimed, Asked
    <3>4. Found(j)
      BY <2>1, <2>5, <3>1 DEF Trusts
    <3> QED
      BY <2>2, <3>1, <3>2, <3>3, <3>4 DEF Found, Kept
  <2>6. ASSUME w.pc = "mark", w.status = "Ready"
        PROVE  Asked(w.key)' /\ There(w.key, home)'
    <3>1. Asked(x) /\ There(x, home)
      BY <2>1, <2>6 DEF Trusts
    <3> QED
      BY <2>1, <2>2, <3>1, ThereStays DEF Alike
  <2>7. /\ w.pc = "resolveParent" => w.owner # None /\ w.owner.name = Directory
        /\ w.pc \in Composed => AtHome(w, home)
    BY DEF Trusts
  <2> QED
    BY <2>1, <2>3, <2>4, <2>5, <2>6, <2>7 DEF Trusts
<1> QED
  BY <1>1, <1>2

(* An object at which the operator does nothing. *)
LEMMA StillDone ==
    ASSUME CloseInv, CloseInv', Passing, NEW home, Known(home), NEW o \in Objects,
           Undisturbed(o), Alike(o), Kept(o, home), DoneThere(o, home),
           worker[KindOf[o]].key = o => worker'[KindOf[o]].key = o
    PROVE  DoneThere(o, home)'
<1>1. SUFFICES ASSUME Current(o)', worker'[KindOf[o]].key # o, IsReady(o)'
               PROVE  There(o, home)'
  BY DEF DoneThere
<1>2. Current(o) /\ worker[KindOf[o]].key # o /\ IsReady(o) /\ StoreTells(o)
  BY <1>1 DEF Undisturbed, IsReady, Known
<1>3. Asked(o) /\ There(o, home)
  BY <1>2 DEF StoreTells, IsReady, DoneThere
<1> QED
  BY <1>2, <1>3, ThereStays

(* Nobody but x says anything new of itself. *)
Only(x, home) ==
    /\ Passing /\ Claims(home)
    /\ \A o \in Objects : Tells(o) /\ (o # x => Alike(o))

LEMMA StillHas ==
    ASSUME CloseInv, CloseInv', Passing, NEW home, HasInv(home),
           NEW j \in Kinds, worker'[j] = worker[j], call'[j] = call[j],
           worker[j].pc # "idle" => Alike(worker[j].key) /\ Kept(worker[j].key, home)
    PROVE  DeletesUnder(j)' /\ \E w : worker'[j] = w /\ Trusts(j, w, home)'
<1>1. PICK w : worker[j] = w /\ Trusts(j, w, home)
  BY DEF HasInv
<1>2. Trusts(j, w, home)'
  BY <1>1, StillTrusts DEF HasInv
<1> QED
  BY <1>1, <1>2 DEF HasInv, DeletesUnder

(* Nothing happens to an object that the operator would not be told. *)
LEMMA AsideHas ==
    ASSUME CloseInv, CloseInv', NEW home, HasInv(home), Passing, UNCHANGED <<call, worker, claims>>,
           \A o \in Objects : Alike(o) /\ Undisturbed(o) /\ Kept(o, home)
    PROVE  HasInv(home)'
<1>1. ASSUME NEW j \in Kinds
      PROVE  DeletesUnder(j)' /\ \E w : worker'[j] = w /\ Trusts(j, w, home)'
  <2>1. worker[j].pc # "idle" => worker[j].key \in Objects
    BY AtWork DEF CloseInv, ObjectInv
  <2> QED
    BY <2>1, StillHas
<1>2. \A o \in Objects : DoneThere(o, home)'
  BY StillDone DEF HasInv
<1>3. Known(home)'
  <2>1. Claims(home) /\ \A o \in Objects : Tells(o)
    BY DEF Claims, Tells, Alike
  <2> QED
    BY <2>1, KnownStays DEF HasInv
<1> QED
  BY <1>1, <1>2, <1>3 DEF HasInv

LEMMA UnwrittenKept ==
    ASSUME UNCHANGED dit, NEW home
    PROVE  \A o \in Objects : Kept(o, home)
BY DEF Kept, Entries

(* Worker k acts on x and leaves slapd alone. *)
LEMMA OneHas ==
    ASSUME CloseInv, CloseInv', NEW home, HasInv(home), NEW k \in Kinds, NEW x, OneActs(k, x),
           Only(x, home), NEW n, worker'[k] = n, Trusts(k, n, home)', DeletesUnder(k)',
           DoneThere(x, home)'
    PROVE  HasInv(home)'
<1>1. Passing /\ \A o \in Objects : Kept(o, home)
  BY UnwrittenKept DEF OneActs, Only
<1>2. ASSUME NEW j \in Kinds \ {k}
      PROVE  DeletesUnder(j)' /\ \E w : worker'[j] = w /\ Trusts(j, w, home)'
  <2>1. worker[j].pc # "idle" => worker[j].key \in Objects \ {x}
    BY AtWork DEF CloseInv, ObjectInv, OneActs
  <2> QED
    BY <1>1, <2>1, StillHas DEF OneActs, Only
<1>3. ASSUME NEW o \in Objects \ {x}
      PROVE  DoneThere(o, home)'
  <2>1. worker[KindOf[o]].key = o => worker'[KindOf[o]].key = o
    BY ObjectsAssumption DEF OneActs
  <2> QED
    BY <1>1, <2>1, StillDone DEF HasInv, OneActs, Only
<1>4. Known(home)'
  BY KnownStays DEF Only, HasInv
<1> QED
  BY <1>2, <1>3, <1>4 DEF HasInv, OneActs

LEMMA NoDeletionUnder ==
    ASSUME ObjectInv', NEW k \in Kinds, worker'[k].pc # "deleteEntry"
    PROVE  DeletesUnder(k)'
<1>1. call'[k].step = "idle" \/ call'[k].entry # None
  BY DEF ObjectInv, Linked, Calling
<1>2. call'[k].step # "delete"
  BY <1>1 DEF ObjectInv, ClientInv, CallSound
<1> QED
  BY <1>2 DEF DeletesUnder

(* The worker returns: what it leaves behind comes back, or is there. *)
LEMMA FinishHas ==
    ASSUME CloseInv, CloseInv', NEW home, HasInv(home), NEW k \in Kinds, NEW x, OneActs(k, x),
           Only(x, home), worker'[k] = Idle, x \in queue' \/ DoneThere(x, home)'
    PROVE  HasInv(home)'
<1>1. PICK n : n = Idle
  OBVIOUS
<1>2. n.pc = "idle"
  BY <1>1, IdleSound
<1>3. Trusts(k, n, home)'
  BY <1>2 DEF Trusts, Composed
<1>4. DeletesUnder(k)'
  BY <1>1, <1>2, NoDeletionUnder DEF CloseInv
<1>5. DoneThere(x, home)'
  BY DEF DoneThere, Current
<1> QED
  BY <1>1, <1>3, <1>4, <1>5, OneHas

(* The worker goes on. *)
LEMMA OnHas ==
    ASSUME CloseInv, CloseInv', NEW home, HasInv(home), NEW k \in Kinds, NEW x, OneActs(k, x),
           Only(x, home), NEW n, worker'[k] = n, n.key = x, n.pc # "deleteEntry", Trusts(k, n, home)'
    PROVE  HasInv(home)'
<1>1. DeletesUnder(k)'
  BY NoDeletionUnder DEF CloseInv
<1>2. DoneThere(x, home)'
  BY DEF DoneThere, OneActs
<1> QED
  BY <1>1, <1>2, OneHas

(* Nothing is written, and nothing given up. *)
LEMMA Unwritten ==
    ASSUME CloseInv, UNCHANGED <<store, cache>>, used["create"] <= used'["create"],
           claims \subseteq claims'
    PROVE  Passing /\ \A o \in Objects : Alike(o) /\ Tells(o)
<1>1. Passing
  BY DEF Passing, Passes, Remains
<1>2. ASSUME NEW o \in Objects
      PROVE  Alike(o) /\ Tells(o)
  BY DEF Alike, Tells, Remains, Asked
<1> QED
  BY <1>1, <1>2

(* A step that says nothing of any object. *)
LEMMA Silent ==
    ASSUME CloseInv, UNCHANGED <<store, cache, used, claims>>
    PROVE  Passing /\ (\A o \in Objects : Alike(o)) /\ \A x, home : Only(x, home)
<1>1. used["create"] <= used'["create"]
  BY DEF CloseInv, ObjectInv, ReconcilerSound, EnvironmentSound, Events
<1>2. Passing /\ \A o \in Objects : Alike(o) /\ Tells(o)
  BY <1>1, Unwritten
<1> QED
  BY <1>2 DEF Only, Claims

(* A patch of x, which is there. *)
LEMMA Patches ==
    ASSUME CloseInv, UNCHANGED <<cache, used, claims>>, NEW x \in Objects, NEW v, Write(x, v),
           NEW s, s = store[x], s # None, v # None, v.uid = s.uid, v.deleting = s.deleting,
           s.finalizer => v.finalizer,
           v.owner = s.owner \/ (v.owner # None /\ Boss(x, v.owner)),
           v.status = s.status \/ (v.status.phase = "Ready" => Asked(x))
    PROVE  \A home : Only(x, home)
<1>1. store'[x] = v /\ \A o \in Objects \ {x} : store'[o] = store[o]
  BY DEF Write, Publish, CloseInv, ObjectInv, ReconcilerSound, ApiSound
<1>2. used["create"] <= used'["create"]
  BY DEF CloseInv, ObjectInv, ReconcilerSound, EnvironmentSound, Events
<1>3. Passing
  BY <1>1, <1>2 DEF Passing, Passes, Remains
<1>4. \A o \in Objects \ {x} : Alike(o) /\ Tells(o)
  BY <1>1 DEF Alike, Tells, Remains, Asked
<1>5. Tells(x)
  BY <1>1 DEF Tells, Remains, Asked
<1> QED
  BY <1>3, <1>4, <1>5 DEF Only, Claims

-----------------------------------------------------------------------------
(* The steps of Reconcile.                                                 *)

(* Steps at which a worker knows nothing yet, or needs nothing any more. *)
Plain == {"idle", "addFinalizer", "resolveReferences", "resolveDirectory", "removeFinalizer"}

LEMMA PlainTrusts ==
    ASSUME NEW k, NEW n, NEW home, n.pc \in Plain \/ (n.pc = "mark" /\ n.status # "Ready")
    PROVE  Trusts(k, n, home)'
BY DEF Trusts, Plain, Composed

LEMMA GoesOnHas ==
    ASSUME CloseInv, CloseInv', NEW home, HasInv(home), NEW k \in Kinds, Acts(k),
           Only(worker[k].key, home), NEW n, worker'[k] = n, n.key = worker[k].key,
           n.pc \in Plain \/ (n.pc = "mark" /\ n.status # "Ready")
    PROVE  HasInv(home)'
<1>1. PICK x : x = worker[k].key
  OBVIOUS
<1>2. OneActs(k, x)
  BY <1>1, ActsAlone DEF CloseInv
<1>3. n.pc # "deleteEntry"
  BY DEF Plain
<1> QED
  BY <1>1, <1>2, <1>3, PlainTrusts, OnHas

LEMMA MarkedHas ==
    ASSUME CloseInv, CloseInv', NEW home, HasInv(home), NEW k \in Kinds, Acts(k),
           Only(worker[k].key, home), NEW requeue, MarkPending(k) \/ MarkFailed(k, requeue)
    PROVE  HasInv(home)'
<1> DEFINE w == worker[k]
<1>1. w \in Worker /\ w.pc # "idle"
  BY AtWork DEF CloseInv, ObjectInv, Acts
<1>2. ASSUME NEW phase, phase # "Ready", NEW again, Continue(k, Marking(w, phase, again))
      PROVE  HasInv(home)'
  <2>1. PICK n : n = Marking(w, phase, again)
    OBVIOUS
  <2>2. n.pc = "mark" /\ n.status = phase /\ n.key = w.key
    BY <1>1, <2>1 DEF Marking, Worker
  <2>3. worker'[k] = n
    BY <1>2, <2>1, WorkerBecomes DEF CloseInv
  <2> QED
    BY <1>2, <2>2, <2>3, GoesOnHas
<1>3. CASE MarkPending(k)
  BY <1>2, <1>3 DEF MarkPending
<1>4. CASE MarkFailed(k, requeue)
  BY <1>2, <1>4 DEF MarkFailed
<1> QED
  BY <1>3, <1>4

(* The worker returns, and the key comes back. *)
LEMMA RetriedHas ==
    ASSUME CloseInv, CloseInv', NEW home, HasInv(home), NEW k \in Kinds, Acts(k),
           Only(worker[k].key, home), Finish(k, TRUE)
    PROVE  HasInv(home)'
<1>1. PICK x : x = worker[k].key
  OBVIOUS
<1>2. worker'[k] = Idle /\ x \in queue'
  BY <1>1, WorkerBecomes DEF Finish, CloseInv
<1> QED
  BY <1>1, <1>2, ActsAlone, FinishHas DEF CloseInv

LEMMA GetHas ==
    ASSUME CloseInv, CloseInv', NEW home, HasInv(home), NEW k \in Kinds, NEW o \in Objects, Get(k, o)
    PROVE  HasInv(home)'
<1>1. /\ worker[k].pc = "idle" /\ worker[k].key = None /\ KindOf[o] = k
      /\ UNCHANGED <<dit, call, store, cache, watch, used, claims>> /\ queue' = queue \ {o}
      /\ worker \in [Kinds -> Worker]
  BY IdleSound DEF Get, At, clientVars, environment, history, CloseInv, ObjectInv, ReconcilerSound,
     WorkersSound, Sound
<1>2. \A j \in Kinds \ {k} : worker'[j] = worker[j]
  BY <1>1 DEF Get
<1>3. OneActs(k, o) /\ Only(o, home)
  BY <1>1, <1>2, Silent DEF OneActs, Undisturbed, Current
<1>4. PICK n : n = worker'[k]
  OBVIOUS
<1>5. CASE cache[o] = None /\ UNCHANGED worker
  <2>1. n.pc = "idle" /\ n.pc # "deleteEntry"
    BY <1>1, <1>4, <1>5
  <2>2. ~Current(o)'
    BY <1>1, <1>5, CloseFacts DEF Current
  <2>3. Trusts(k, n, home)' /\ DeletesUnder(k)'
    BY <1>4, <2>1, PlainTrusts, NoDeletionUnder DEF Plain, CloseInv
  <2> QED
    BY <1>3, <1>4, <2>2, <2>3, OneHas DEF DoneThere
<1>6. CASE worker' = [worker EXCEPT ![k] =
             [Idle EXCEPT !.key = o, !.obj = cache[o], !.pc = FirstStep(cache[o])]]
  <2>1. n.key = o /\ n.pc \in {"addFinalizer", "resolveReferences"}
    BY <1>1, <1>4, <1>6, IdleSound DEF FirstStep, Worker
  <2>2. Trusts(k, n, home)' /\ n.pc # "deleteEntry"
    BY <2>1, PlainTrusts DEF Plain
  <2> QED
    BY <1>3, <1>4, <2>1, <2>2, OnHas
<1> QED
  BY <1>5, <1>6 DEF Get

LEMMA AddFinalizerHas ==
    ASSUME CloseInv, CloseInv', NEW home, HasInv(home), NEW k \in Kinds, AddFinalizer(k)
    PROVE  HasInv(home)'
<1> DEFINE w == worker[k]
<1>0. PICK o : o = w.key
  OBVIOUS
<1>1. /\ w.pc = "addFinalizer" /\ w.pc # "idle" /\ UNCHANGED <<dit, call, cache, used, claims>>
      /\ w \in Worker /\ o \in Objects /\ KindOf[o] = k /\ store[o] \in VersionsOf(o) \cup {None}
      /\ ObjectInv
  BY <1>0, AtWork DEF AddFinalizer, At, clientVars, environment, history, CloseInv, ObjectInv
<1>2. ASSUME NEW v, Continue(k, [To(w, "resolveReferences") EXCEPT !.obj = v]), Acts(k), Only(o, home)
      PROVE  HasInv(home)'
  <2>1. PICK n : n = [To(w, "resolveReferences") EXCEPT !.obj = v]
    OBVIOUS
  <2>2. n.pc = "resolveReferences" /\ n.key = o
    BY <1>0, <1>1, <2>1 DEF To, Worker
  <2>3. worker'[k] = n
    BY <1>1, <1>2, <2>1, WorkerBecomes
  <2> QED
    BY <1>0, <1>2, <2>2, <2>3, GoesOnHas DEF Plain
<1>3. CASE /\ Continue(k, [To(w, "resolveReferences") EXCEPT !.obj = cache[o]])
           /\ UNCHANGED <<store, watch>>
  <2>1. Acts(k) /\ Only(o, home)
    BY <1>1, <1>3, ActsUnwritten, Silent
  <2> QED
    BY <1>2, <1>3, <2>1
<1>4. CASE /\ store[o] # None
           /\ Write(o, [store[o] EXCEPT !.finalizer = TRUE])
           /\ Continue(k, [To(w, "resolveReferences") EXCEPT
                 !.obj = [store[o] EXCEPT !.finalizer = TRUE]])
  <2>1. PICK v, n : v = store[o] /\ n = [v EXCEPT !.finalizer = TRUE]
    OBVIOUS
  <2>2. /\ n \in Version /\ n # None /\ n.uid = v.uid /\ n.deleting = v.deleting /\ n.finalizer
        /\ n.owner = v.owner /\ n.status = v.status
    BY <1>1, <1>4, <2>1, NothingAssumption DEF VersionsOf, Version
  <2>3. Write(o, n) /\ Continue(k, [To(w, "resolveReferences") EXCEPT !.obj = n])
    BY <1>4, <2>1
  <2>4. Acts(k)
    BY <1>1, <2>2, <2>3, WriteUndisturbing, WorkerBecomes DEF Acts, Continue
  <2>5. Only(o, home)
    BY <1>1, <1>4, <2>1, <2>2, <2>3, Patches
  <2> QED
    BY <1>2, <2>3, <2>4, <2>5
<1>5. CASE Finish(k, TRUE) /\ UNCHANGED <<store, watch>>
  BY <1>0, <1>1, <1>5, ActsUnwritten, Silent, RetriedHas
<1> QED
  BY <1>0, <1>3, <1>4, <1>5 DEF AddFinalizer, Unpatchable

LEMMA ResolveReferencesHas ==
    ASSUME CloseInv, CloseInv', NEW home, HasInv(home), NEW k \in Kinds, ResolveReferences(k)
    PROVE  HasInv(home)'
<1> DEFINE w == worker[k]
<1>1. /\ w.pc = "resolveReferences" /\ w.pc # "idle" /\ w \in Worker /\ ObjectInv
      /\ UNCHANGED <<dit, call, store, cache, watch, used, claims>>
  BY AtWork DEF ResolveReferences, At, clientVars, environment, history, CloseInv, ObjectInv
<1>2. Only(w.key, home)
  BY <1>1, Silent
<1>3. CASE MarkPending(k)
  BY <1>1, <1>2, <1>3, ActsUnwritten, MarkedHas DEF MarkPending
<1>4. ASSUME NEW pc \in {"resolveDirectory", "removeFinalizer"}, Continue(k, To(w, pc))
      PROVE  HasInv(home)'
  <2>1. PICK n : n = To(w, pc)
    OBVIOUS
  <2>2. n.pc = pc /\ n.key = w.key
    BY <1>1, <2>1 DEF To, Worker
  <2>3. worker'[k] = n /\ Acts(k)
    BY <1>1, <1>4, <2>1, WorkerBecomes, ActsUnwritten
  <2> QED
    BY <1>2, <1>4, <2>2, <2>3, GoesOnHas DEF Plain
<1> QED
  BY <1>3, <1>4 DEF ResolveReferences, Unresolved

LEMMA ResolveDirectoryHas ==
    ASSUME CloseInv, CloseInv', NEW home, HasInv(home), NEW k \in Kinds, ResolveDirectory(k)
    PROVE  HasInv(home)'
<1> DEFINE w == worker[k]
<1>1. /\ w.pc = "resolveDirectory" /\ w.pc # "idle" /\ w \in Worker /\ ObjectInv
      /\ UNCHANGED <<dit, call, store, cache, watch, used, claims>>
      /\ EnvironmentSound /\ directory # None
  BY AtWork DEF ResolveDirectory, At, clientVars, environment, history, CloseInv, ObjectInv,
     ReconcilerSound
<1>2. Only(w.key, home)
  BY <1>1, Silent
<1>3. CASE MarkPending(k)
  BY <1>1, <1>2, <1>3, ActsUnwritten, MarkedHas DEF MarkPending
<1>4. CASE Continue(k, [To(w, "resolveParent") EXCEPT
                 !.owner = [name |-> Directory, uid |-> directory.uid]])
  <2>1. PICK u, n : u = [name |-> Directory, uid |-> directory.uid]
                    /\ n = [To(w, "resolveParent") EXCEPT !.owner = u]
    OBVIOUS
  <2>2. n.pc = "resolveParent" /\ n.key = w.key /\ n.owner = u
    BY <1>1, <2>1 DEF To, Worker
  <2>3. u # None /\ u.name = Directory
    <3>1. u \in Owner
      BY <1>1, <2>1 DEF EnvironmentSound, DirectoryVersion, Owner
    <3> QED
      BY <2>1, <3>1, NothingAssumption
  <2>4. Trusts(k, n, home)'
    BY <2>2, <2>3 DEF Trusts, Composed
  <2>5. worker'[k] = n /\ Acts(k)
    BY <1>1, <1>4, <2>1, WorkerBecomes, ActsUnwritten
  <2> QED
    BY <1>1, <1>2, <2>2, <2>4, <2>5, ActsAlone, OnHas
<1> QED
  BY <1>3, <1>4 DEF ResolveDirectory

(* A parent that is Ready has its finalizer, and is the owner from now on. *)
LEMMA ParentVouched ==
    ASSUME CloseInv, NEW home, HasInv(home), Homes(home), NEW x \in Objects,
           NEW s \in Specs[x], NEW p \in Objects, s.parent = p,
           cache[p] # None, cache[p].status.phase = "Ready"
    PROVE  Boss(x, ParentOwner(p))
<1>1. PICK u : u = ParentOwner(p)
  OBVIOUS
<1>2. u.name = p /\ u.uid = cache[p].uid
  BY <1>1 DEF ParentOwner
<1>3. u.uid \in Nat /\ u.uid < used["create"] /\ used["create"] \in Nat
  BY <1>2, CloseFacts
<1>4. cache[p].finalizer
  BY DEF HasInv, Known, CacheTells
<1>5. (store[p] # None /\ store[p].uid = u.uid) => store[p].finalizer
  BY <1>4, CloseFacts
<1>6. Vouched(u)
  BY <1>2, <1>3, <1>5 DEF Vouched
<1>7. OwnerName(s) = p
  BY ObjectsAssumption DEF OwnerName
<1>8. \A t \in Specs[x] : p = OwnerName(t)
  BY <1>7, OneBoss
<1> QED
  BY <1>1, <1>2, <1>6, <1>8 DEF Boss

LEMMA ResolveParentHas ==
    ASSUME CloseInv, CloseInv', NEW home, HasInv(home), Homes(home), NEW k \in Kinds,
           ResolveParent(k)
    PROVE  HasInv(home)'
<1> DEFINE w == worker[k]
<1>0. PICK x, s, p : x = w.key /\ s = w.obj.spec /\ p = s.parent
  OBVIOUS
<1>1. /\ w.pc = "resolveParent" /\ w.pc # "idle" /\ w \in Worker /\ ObjectInv
      /\ x \in Objects /\ w.obj \in VersionsOf(x) /\ s \in Specs[x] /\ KindOf[x] = k
      /\ UNCHANGED <<dit, call, store, cache, watch, used, claims>>
  BY <1>0, AtWork DEF ResolveParent, At, clientVars, environment, history, CloseInv, ObjectInv,
     VersionsOf
<1>2. Only(x, home)
  BY <1>1, Silent
<1>3. CASE MarkPending(k) \/ MarkFailed(k, TRUE)
  BY <1>0, <1>1, <1>2, <1>3, ActsUnwritten, MarkedHas DEF MarkPending, MarkFailed
<1>4. ASSUME NEW n, Continue(k, n), NEW u, u = None \/ Boss(x, u),
             \/ u = w.owner /\ n = Named(w)
             \/ n = [Named(w) EXCEPT !.owner = u]
      PROVE  HasInv(home)'
  <2>1. PICK r, d : r = RDNOf(x, w.obj) /\ d = <<r>>
    OBVIOUS
  <2>2. /\ n.pc = "getDistinguishedName" /\ n.key = x /\ n.dn = d /\ n.climb = p /\ n.owner = u
    BY <1>0, <1>1, <1>4, <2>1 DEF Named, To, Worker
  <2>3. r = [kind |-> KindOf[x], name |-> s.name] /\ Len(d) = 1
    BY <1>0, <2>1 DEF RDNOf
  <2>4. AtHome(n, home)
    <3>0. PICK q : /\ q = [kind |-> KindOf[x], name |-> s.name]
                   /\ s.parent = None => home[x] = <<q>>
                   /\ s.parent # None => home[x] = <<q>> \o home[s.parent]
      BY <1>1, HomeOf
    <3>1. CASE p = None
      <4>1. home[x] = <<r>>
        BY <1>0, <2>3, <3>0, <3>1
      <4> QED
        BY <2>1, <2>2, <3>1, <4>1 DEF AtHome
    <3>2. CASE p # None
      <4>1. p \in Objects /\ Len(home[p]) = 1 /\ home[x] = <<r>> \o home[p]
        BY <1>0, <1>1, <2>3, <3>0, <3>2, HomeOf
      <4> QED
        BY <2>1, <2>2, <2>3, <4>1 DEF AtHome
    <3> QED
      BY <3>1, <3>2
  <2>5. u # None => Boss(x, u)'
    BY <1>1, <1>4 DEF Boss, Vouched
  <2>6. Trusts(k, n, home)'
    BY <2>2, <2>4, <2>5 DEF Trusts, AtHome
  <2>7. worker'[k] = n /\ Acts(k)
    BY <1>1, <1>4, WorkerBecomes, ActsUnwritten
  <2> QED
    BY <1>0, <1>1, <1>2, <2>2, <2>6, <2>7, ActsAlone, OnHas
<1>5. CASE p = None /\ Continue(k, Named(w))
  <2>1. w.owner.name = Directory
    BY <1>1 DEF HasInv, Trusts
  <2>2. \A t \in Specs[x] : Directory = OwnerName(t)
    <3>1. OwnerName(s) = Directory
      BY <1>0, <1>5 DEF OwnerName
    <3> QED
      BY <1>1, <3>1, OneBoss
  <2>3. Boss(x, w.owner)
    BY <2>1, <2>2, ObjectsAssumption DEF Boss, Vouched
  <2> QED
    BY <1>4, <1>5, <2>3
<1>6. CASE Continue(k, [Named(w) EXCEPT !.owner = None])
  BY <1>4, <1>6
<1>7. CASE /\ p \in Objects /\ cache[p] # None /\ cache[p].status.phase = "Ready"
           /\ Continue(k, [Named(w) EXCEPT !.owner = ParentOwner(p)])
  BY <1>0, <1>1, <1>4, <1>7, ParentVouched
<1> QED
  BY <1>0, <1>3, <1>5, <1>6, <1>7 DEF ResolveParent
(* The last ancestor's name completes that of the entry. *)
LEMMA GetDistinguishedNameHas ==
    ASSUME CloseInv, CloseInv', NEW home, HasInv(home), Homes(home), NEW k \in Kinds,
           GetDistinguishedName(k)
    PROVE  HasInv(home)'
<1> DEFINE w == worker[k]
<1>0. PICK x, p, d, u : x = w.key /\ p = w.climb /\ d = w.dn /\ u = w.owner
  OBVIOUS
<1>1. /\ w.pc = "getDistinguishedName" /\ w.pc # "idle" /\ w \in Worker /\ ObjectInv
      /\ x \in Objects /\ d \in DN
      /\ UNCHANGED <<dit, call, store, cache, watch, used, claims>>
  <2>1. w.pc = "getDistinguishedName" /\ UNCHANGED <<dit, call, store, cache, watch, used, claims>>
    BY DEF GetDistinguishedName, At, clientVars, environment, history
  <2>2. w.pc \in Composed /\ w.pc # "idle"
    BY <2>1 DEF Composed
  <2> QED
    BY <1>0, <2>1, <2>2, AtWork DEF CloseInv, ObjectInv, Sound
<1>2. Only(x, home)
  BY <1>1, Silent
<1>3. AtHome(w, home) /\ (u # None => Boss(x, u))
  <2>1. w.pc \in Composed
    BY <1>1 DEF Composed
  <2> QED
    BY <1>0, <1>1, <2>1 DEF HasInv, Trusts
<1>4. u # None => Boss(x, u)'
  BY <1>1, <1>3 DEF Boss, Vouched
<1>5. CASE Finish(k, TRUE)
  BY <1>0, <1>1, <1>2, <1>5, ActsUnwritten, RetriedHas
<1>6. CASE p \in Objects /\ cache[p] # None /\ Continue(k, Ascended(w, p))
  <2>1. PICK r, n : r = RDNOf(p, cache[p]) /\ n = Ascended(w, p)
    OBVIOUS
  <2>2. /\ n.pc = "getDistinguishedName" /\ n.key = x /\ n.owner = u
        /\ n.dn = Append(d, r) /\ n.climb = cache[p].spec.parent
    BY <1>0, <1>1, <2>1 DEF Ascended, Worker
  <2>3. Len(home[p]) = 1 /\ home[x] = d \o home[p]
    BY <1>0, <1>1, <1>3, <1>6, ObjectsAssumption DEF AtHome
  <2>4. PICK s \in Specs[p] : s = cache[p].spec
    BY <1>6, CloseFacts, VersionParts
  <2>5. s.parent = None
    BY <1>6, <2>3, HomeOf
  <2>6. r = [kind |-> KindOf[p], name |-> s.name]
    BY <2>1, <2>4 DEF RDNOf
  <2>7. home[p] = <<r>>
    <3>1. PICK q : /\ q = [kind |-> KindOf[p], name |-> s.name]
                   /\ s.parent = None => home[p] = <<q>>
                   /\ s.parent # None => home[p] = <<q>> \o home[s.parent]
      BY <1>6, HomeOf
    <3> QED
      BY <2>5, <2>6, <3>1
  <2>8. n.dn = home[x] /\ n.climb = None
    <3>1. d \in Seq(RDN \cup {r}) /\ r \in RDN \cup {r}
      BY <1>1 DEF DN
    <3>2. Append(d, r) = d \o <<r>>
      BY <3>1, AppendIsConcat
    <3> QED
      BY <2>2, <2>3, <2>4, <2>5, <2>7, <3>2
  <2>9. Trusts(k, n, home)'
    BY <1>4, <2>2, <2>8 DEF Trusts, AtHome
  <2>10. worker'[k] = n /\ Acts(k)
    BY <1>1, <1>6, <2>1, WorkerBecomes, ActsUnwritten
  <2> QED
    BY <1>0, <1>1, <1>2, <2>2, <2>9, <2>10, ActsAlone, OnHas
<1>7. ASSUME p = None, NEW pc \in {"deleteEntry", "setOwner"}, Continue(k, To(w, pc))
      PROVE  HasInv(home)'
  <2>1. PICK n : n = To(w, pc)
    OBVIOUS
  <2>2. n.pc = pc /\ n.key = x /\ n.owner = u /\ n.dn = d
    BY <1>0, <1>1, <2>1 DEF To, Worker
  <2>3. d = home[x]
    BY <1>0, <1>1, <1>3, <1>7, ObjectsAssumption DEF AtHome
  <2>4. Trusts(k, n, home)'
    BY <1>4, <2>2, <2>3 DEF Trusts, AtHome
  <2>5. worker'[k] = n /\ Acts(k)
    BY <1>1, <1>7, <2>1, WorkerBecomes, ActsUnwritten
  <2>6. DeletesUnder(k)'
    <3>1. call'[k].step = "idle"
      BY <1>1 DEF ObjectInv, Linked, Calling
    <3> QED
      BY <3>1 DEF DeletesUnder
  <2>7. OneActs(k, x)
    BY <1>0, <1>1, <2>5, ActsAlone
  <2>8. DoneThere(x, home)'
    BY <2>2, <2>5, <2>7 DEF DoneThere, OneActs
  <2> QED
    BY <1>2, <2>4, <2>5, <2>6, <2>7, <2>8, OneHas
<1> QED
  BY <1>0, <1>5, <1>6, <1>7 DEF GetDistinguishedName, OnceNamed

(* What goes on to the mapper has an owner. *)
LEMMA SetOwnerHas ==
    ASSUME CloseInv, CloseInv', NEW home, HasInv(home), NEW k \in Kinds, SetOwner(k)
    PROVE  HasInv(home)'
<1> DEFINE w == worker[k]
<1>0. PICK x, d, u : x = w.key /\ d = w.dn /\ u = w.owner
  OBVIOUS
<1>1. /\ w.pc = "setOwner" /\ w.pc # "idle" /\ w \in Worker /\ u # None /\ ObjectInv
      /\ x \in Objects /\ store[x] \in VersionsOf(x) \cup {None}
      /\ UNCHANGED <<dit, call, cache, used, claims>>
  BY <1>0, AtWork DEF SetOwner, At, clientVars, environment, history, CloseInv, ObjectInv
<1>2. d = home[x] /\ Boss(x, u)
  <2>1. w.pc \in Composed
    BY <1>1 DEF Composed
  <2> QED
    BY <1>0, <1>1, <2>1 DEF HasInv, Trusts, AtHome
<1>3. ASSUME NEW v, Continue(k, [To(w, "mapToEntry") EXCEPT !.obj = v]), Acts(k), Only(x, home),
             store'[x] # None => store'[x].owner # None
      PROVE  HasInv(home)'
  <2>1. PICK n : n = [To(w, "mapToEntry") EXCEPT !.obj = v]
    OBVIOUS
  <2>2. n.pc = "mapToEntry" /\ n.key = x /\ n.dn = d
    BY <1>0, <1>1, <2>1 DEF To, Worker
  <2>3. worker'[k] = n
    BY <1>1, <1>3, <2>1, WorkerBecomes
  <2>4. store'[x] # None
    <3>1. Relies(k)'
      BY <2>2, <2>3 DEF CloseInv, PinInv, NearInv
    <3> QED
      BY <2>2, <2>3, <3>1 DEF Relies, Pinned
  <2>5. Trusts(k, n, home)'
    BY <1>2, <1>3, <2>2, <2>4 DEF Trusts, AtHome
  <2> QED
    BY <1>0, <1>1, <1>3, <2>2, <2>3, <2>5, ActsAlone, OnHas
<1>4. CASE /\ cache[x] # None /\ cache[x].owner = u
           /\ Continue(k, [To(w, "mapToEntry") EXCEPT !.obj = cache[x]])
           /\ UNCHANGED <<store, watch>>
  <2>1. Acts(k) /\ Only(x, home)
    BY <1>1, <1>4, ActsUnwritten, Silent
  <2>2. store'[x] # None => store'[x].owner # None
    BY <1>1, <1>4 DEF HasInv, Known, CacheTells
  <2> QED
    BY <1>3, <1>4, <2>1, <2>2
<1>5. CASE /\ store[x] # None
           /\ Write(x, Owned(x, u))
           /\ Continue(k, [To(w, "mapToEntry") EXCEPT !.obj = Owned(x, u)])
  <2>1. PICK v, n : v = store[x] /\ n = Owned(x, u)
    OBVIOUS
  <2>2. /\ n \in Version /\ n # None /\ n.uid = v.uid /\ n.deleting = v.deleting
        /\ n.finalizer = v.finalizer /\ n.owner = u /\ n.status = v.status
    <3>1. u \in Owner
      BY <1>0, <1>1 DEF Worker
    <3>2. v \in Version /\ n = [v EXCEPT !.owner = u]
      BY <1>1, <1>5, <2>1, VersionParts DEF Owned
    <3>3. n \in Version
      BY <3>1, <3>2 DEF Version
    <3> QED
      BY <3>2, <3>3, NothingAssumption DEF Version
  <2>3. Write(x, n) /\ Continue(k, [To(w, "mapToEntry") EXCEPT !.obj = n])
    BY <1>5, <2>1
  <2>4. Acts(k)
    BY <1>1, <2>2, <2>3, WriteUndisturbing, WorkerBecomes DEF Acts, Continue
  <2>5. Only(x, home)
    BY <1>1, <1>2, <1>5, <2>1, <2>2, <2>3, Patches
  <2>6. store'[x] = n
    BY <1>1, <2>3, WrittenThere
  <2> QED
    BY <1>1, <1>3, <2>2, <2>3, <2>4, <2>5, <2>6
<1>6. CASE MarkFailed(k, FALSE) /\ UNCHANGED <<store, watch>>
  BY <1>0, <1>1, <1>6, ActsUnwritten, Silent, MarkedHas DEF MarkFailed
<1> QED
  BY <1>0, <1>4, <1>5, <1>6 DEF SetOwner

LEMMA DeleteEntryHas ==
    ASSUME CloseInv, CloseInv', NEW home, HasInv(home), NEW k \in Kinds, DeleteEntry(k)
    PROVE  HasInv(home)'
<1> DEFINE w == worker[k]
<1>0. PICK x : x = w.key
  OBVIOUS
<1>1. /\ w.pc = "deleteEntry" /\ w.pc # "idle" /\ w \in Worker /\ worker \in [Kinds -> Worker]
      /\ call \in [Kinds -> Call] /\ x \in Objects /\ ObjectInv
      /\ UNCHANGED <<dit, store, cache, watch, queue, used, claims>>
  BY <1>0, AtWork DEF DeleteEntry, At, CallDelete, Collect, kubernetes, environment, history,
     CloseInv, ObjectInv, ReconcilerSound, WorkersSound, ClientInv, ClientTypeOK
<1>2. ASSUME \A j \in Kinds \ {k} : worker'[j] = worker[j] /\ call'[j] = call[j]
      PROVE  Acts(k)
  BY <1>1, <1>2, WriteUndisturbing DEF Acts
<1>3. Only(x, home)
  BY <1>1, Silent
<1>4. CASE CallDelete(k, w.dn, TRUE) /\ UNCHANGED worker
  <2>1. call' = [call EXCEPT ![k] = NewCall("delete", w.dn, None, <<>>)]
    BY <1>4 DEF CallDelete
  <2>2. PICK c : c = NewCall("delete", w.dn, None, <<>>)
    OBVIOUS
  <2>3. call'[k] = c /\ c.frames = <<>> /\ \A j \in Kinds \ {k} : call'[j] = call[j]
    BY <1>1, <2>1, <2>2 DEF NewCall
  <2>4. OneActs(k, x)
    BY <1>0, <1>1, <1>2, <1>4, <2>3, ActsAlone
  <2>5. DeletesUnder(k)'
    <3>1. call'[k].frames = <<>>
      BY <2>3
    <3> QED
      BY <3>1 DEF DeletesUnder
  <2>6. PICK n : n = w
    OBVIOUS
  <2>7. worker'[k] = n /\ n.pc = "deleteEntry" /\ n.key = x
    BY <1>0, <1>1, <1>4, <2>6
  <2>8. Trusts(k, n, home)'
    BY <2>6, <2>7 DEF HasInv, Trusts, AtHome
  <2>9. DoneThere(x, home)'
    BY <2>4, <2>7 DEF DoneThere, OneActs
  <2> QED
    BY <1>3, <2>4, <2>5, <2>7, <2>8, <2>9, OneHas
<1>5. CASE /\ Collect(k)
           /\ worker' = [worker EXCEPT ![k] =
                [To(w, "removeFinalizer") EXCEPT !.failed = ~call[k].ok]]
  <2>1. PICK n : n = [To(w, "removeFinalizer") EXCEPT !.failed = ~call[k].ok]
    OBVIOUS
  <2>2. n.pc = "removeFinalizer" /\ n.key = w.key
    BY <1>1, <2>1 DEF To, Worker
  <2>3. /\ worker'[k] = n /\ \A j \in Kinds \ {k} : worker'[j] = worker[j]
        /\ \A j \in Kinds \ {k} : call'[j] = call[j]
    BY <1>1, <1>5, <2>1 DEF Collect
  <2> QED
    BY <1>0, <1>2, <1>3, <2>2, <2>3, GoesOnHas DEF Plain
<1> QED
  BY <1>4, <1>5 DEF DeleteEntry

(* Who has its finalizer removed has not asked for anything, or is gone. *)
LEMMA RemoveFinalizerHas ==
    ASSUME CloseInv, CloseInv', NEW home, HasInv(home), NEW k \in Kinds, RemoveFinalizer(k)
    PROVE  HasInv(home)'
<1> DEFINE w == worker[k]
<1>0. PICK x : x = w.key
  OBVIOUS
<1>1. /\ w.pc = "removeFinalizer" /\ w.pc # "idle" /\ ObjectInv /\ ApiSound
      /\ x \in Objects /\ store[x] \in VersionsOf(x) \cup {None}
      /\ UNCHANGED <<dit, call, cache, used>>
  BY <1>0, AtWork DEF RemoveFinalizer, At, clientVars, environment, CloseInv, ObjectInv,
     ReconcilerSound
<1>2. /\ LeavingOrBare(store[x]) /\ LastIsStored
      /\ store[x] # None => (store[x].deleting => store[x].finalizer)
  BY <1>0, <1>1 DEF CloseInv, PinInv, NearInv, Sees, SeesLeaving, Near, Clearing
<1>3. ASSUME store[x] # None, ~store[x].finalizer
      PROVE  ~Asked(x) /\ ~IsReady(x)
  <2>1. ~Asked(x)
    BY <1>1, <1>3, CloseFacts
  <2> QED
    BY <1>1, <1>3, <2>1 DEF HasInv, Known, StoreTells, IsReady
<1>4. CASE Finish(k, TRUE) /\ UNCHANGED <<store, watch, claims>>
  BY <1>0, <1>1, <1>4, ActsUnwritten, Silent, RetriedHas
<1>5. ASSUME store' = store, claims' = claims, Acts(k), Finish(k, FALSE),
             Current(x)' => ~IsReady(x)
      PROVE  HasInv(home)'
  <2>1. Only(x, home)
    BY <1>1, <1>5, Silent
  <2>2. DoneThere(x, home)'
    BY <1>5 DEF DoneThere, IsReady
  <2> QED
    BY <1>0, <1>1, <1>5, <2>1, <2>2, WorkerBecomes, ActsAlone, FinishHas
<1>6. CASE /\ cache[x] # None /\ ~cache[x].finalizer
           /\ Finish(k, FALSE) /\ UNCHANGED <<store, watch, claims>>
  <2>1. Current(x)' => ~IsReady(x)
    BY <1>1, <1>2, <1>3, <1>6, CurrentCached DEF Current
  <2>2. Acts(k)
    BY <1>1, <1>6, ActsUnwritten
  <2> QED
    BY <1>5, <1>6, <2>1, <2>2
<1>7. CASE /\ store[x] # None
           /\ Write(x, Unpinned(store[x])) /\ Finish(k, FALSE) /\ Release(x, w)
  <2>1. PICK v, n : v = store[x] /\ n = Unpinned(v)
    OBVIOUS
  <2>2. v \in VersionsOf(x) /\ Write(x, n)
    BY <1>1, <1>7, <2>1
  <2>3. n = None \/ (n = v /\ ~v.finalizer)
    <3>1. v.deleting <=> v.finalizer
      BY <1>1, <1>2, <1>7, <2>1, <2>2, VersionParts DEF LeavingOrBare
    <3>2. ~v.finalizer => v = [v EXCEPT !.finalizer = FALSE]
      BY <2>2 DEF VersionsOf, Version
    <3> QED
      BY <2>1, <3>1, <3>2 DEF Unpinned
  <2>4. n \in Version \cup {None}
    BY <1>1, <2>2, <2>3, VersionParts
  <2>5. Acts(k)
    BY <1>1, <1>7, <2>2, <2>4, WriteUndisturbing, WorkerBecomes DEF Acts, Finish
  <2>6. claims' \subseteq claims /\ \A c \in claims \ claims' : c.obj = x
    BY <1>7 DEF Release
  <2>7. CASE n = None
    <3>1. store'[x] = None /\ \A o \in Objects \ {x} : store'[o] = store[o]
      BY <1>1, <2>2, <2>7 DEF Write, Publish, ApiSound
    <3>2. used["create"] <= used'["create"]
      BY <1>1 DEF ObjectInv, ReconcilerSound, EnvironmentSound, Events
    <3>3. Passing
      BY <1>1, <3>1, <3>2 DEF Passing, Passes, Remains
    <3>4. \A o \in Objects \ {x} : Alike(o) /\ Tells(o)
      BY <1>1, <2>6, <3>1 DEF Alike, Tells, Remains, Asked
    <3>5. Tells(x) /\ Claims(home)
      BY <2>6, <3>1 DEF Tells, Remains, Claims
    <3>6. Only(x, home)
      BY <3>3, <3>4, <3>5 DEF Only
    <3>7. DoneThere(x, home)'
      BY <3>1 DEF DoneThere, Current
    <3> QED
      BY <1>0, <1>1, <1>7, <2>5, <3>6, <3>7, WorkerBecomes, ActsAlone, FinishHas
  <2>8. CASE n = v /\ ~v.finalizer
    <3>1. store' = store
      BY <2>1, <2>2, <2>8 DEF Write
    <3>2. ~Asked(x) /\ ~IsReady(x)
      BY <1>3, <1>7, <2>1, <2>8
    <3>3. claims' = claims
      BY <2>6, <3>2 DEF Asked
    <3> QED
      BY <1>5, <1>7, <2>5, <3>1, <3>2, <3>3
  <2> QED
    BY <2>3, <2>7, <2>8
<1> QED
  BY <1>0, <1>4, <1>6, <1>7 DEF RemoveFinalizer, Unpatchable, history

(* What is asked for is the object's own entry. *)
LEMMA MapToEntryHas ==
    ASSUME CloseInv, CloseInv', NEW home, HasInv(home), NEW k \in Kinds, MapToEntry(k)
    PROVE  HasInv(home)'
<1> DEFINE w == worker[k]
<1>0. PICK x, v, d : x = w.key /\ v = w.obj /\ d = w.dn
  OBVIOUS
<1>1. /\ w.pc = "mapToEntry" /\ w.pc # "idle" /\ w \in Worker /\ call \in [Kinds -> Call]
      /\ x \in Objects /\ ObjectInv
      /\ UNCHANGED <<store, cache, watch, used>>
  BY <1>0, AtWork DEF MapToEntry, At, environment, CloseInv, ObjectInv, ClientInv, ClientTypeOK
<1>2. d = home[x] /\ store[x].owner # None
  <2>1. w.pc \in Composed
    BY <1>1 DEF Composed
  <2> QED
    BY <1>0, <1>1, <2>1 DEF HasInv, Trusts, AtHome
<1>3. CASE MarkFailed(k, FALSE) /\ UNCHANGED <<clientVars, history>>
  BY <1>0, <1>1, <1>3, ActsUnwritten, Silent, MarkedHas DEF MarkFailed, clientVars, history
<1>4. CASE /\ CallUpsert(k, d, EntryOf(v.spec))
           /\ Continue(k, To(w, "upsertEntry"))
           /\ claims' = claims \cup {[obj |-> x, uid |-> v.uid, dn |-> d]}
  <2>1. PICK n, c, a : /\ n = To(w, "upsertEntry")
                       /\ c = NewCall("search", d, EntryOf(v.spec), <<>>)
                       /\ a = [obj |-> x, uid |-> v.uid, dn |-> d]
    OBVIOUS
  <2>2. n.pc = "upsertEntry" /\ n.key = x /\ n.dn = d
    BY <1>0, <1>1, <2>1 DEF To, Worker
  <2>3. worker'[k] = n /\ \A j \in Kinds \ {k} : worker'[j] = worker[j]
    BY <1>1, <1>4, <2>1, WorkerBecomes
  <2>4. UNCHANGED dit /\ call'[k] = c /\ \A j \in Kinds \ {k} : call'[j] = call[j]
    BY <1>1, <1>4, <2>1 DEF CallUpsert
  <2>5. c.step = "search"
    BY <2>1 DEF NewCall
  <2>6. Acts(k)
    BY <1>1, <1>4, <2>3, <2>4, WriteUndisturbing DEF Acts, Continue
  <2>7. used["create"] <= used'["create"]
    BY <1>1 DEF ObjectInv, ReconcilerSound, EnvironmentSound, Events
  <2>8. Passing /\ \A o \in Objects : Alike(o) /\ Tells(o)
    BY <1>1, <1>4, <2>7, Unwritten
  <2>9. claims' = claims \cup {a} /\ a.obj = x /\ a.dn = home[x]
    BY <1>2, <1>4, <2>1
  <2>10. Claims(home)
    BY <1>1, <1>2, <2>9 DEF Claims
  <2>11. Only(x, home)
    BY <2>8, <2>10 DEF Only
  <2>12. Found(k)'
    BY <2>4, <2>5 DEF Found
  <2>13. Trusts(k, n, home)'
    BY <1>1, <1>2, <2>2, <2>12 DEF Trusts, AtHome
  <2> QED
    BY <1>0, <1>1, <2>2, <2>3, <2>6, <2>11, <2>13, ActsAlone, OnHas
<1> QED
  BY <1>0, <1>3, <1>4 DEF MapToEntry

(* Who says Ready has found the entry, or is leaving. *)
LEMMA CreateOrUpdateEntryHas ==
    ASSUME CloseInv, CloseInv', NEW home, HasInv(home), NEW k \in Kinds, CreateOrUpdateEntry(k)
    PROVE  HasInv(home)'
<1> DEFINE w == worker[k]
<1>0. PICK x : x = w.key
  OBVIOUS
<1>1. /\ w.pc = "upsertEntry" /\ w.pc # "idle" /\ w \in Worker /\ call \in [Kinds -> Call]
      /\ x \in Objects /\ call[k].step = "returned" /\ ObjectInv
      /\ UNCHANGED <<dit, store, cache, watch, used, claims>>
      /\ \A j \in Kinds \ {k} : call'[j] = call[j]
  BY <1>0, AtWork DEF CreateOrUpdateEntry, At, Collect, environment, history, CloseInv, ObjectInv,
     ClientInv, ClientTypeOK
<1>2. ASSUME (\E n : Continue(k, n)) \/ (\E requeue : Finish(k, requeue))
      PROVE  Acts(k)
  <2>1. queue \subseteq queue' /\ \A j \in Kinds \ {k} : worker'[j] = worker[j]
    BY <1>1, <1>2, WorkerBecomes DEF Continue, Finish
  <2> QED
    BY <1>1, <2>1, WriteUndisturbing DEF Acts
<1>3. Only(x, home)
  BY <1>1, Silent
<1>4. ASSUME call[k].ok
      PROVE  Asked(x)' /\ There(x, home)'
  <2>1. Asked(x)
    <3>1. Claimed(k)
      BY <1>1 DEF ObjectInv
    <3> QED
      BY <1>0, <1>1, <3>1 DEF Claimed, Asked
  <2>2. w.dn = home[x]
    <3>1. w.pc \in Composed
      BY <1>1 DEF Composed
    <3> QED
      BY <1>0, <1>1, <3>1 DEF HasInv, Trusts, AtHome
  <2>3. call[k].dn = home[x]
    BY <1>1, <2>2 DEF ObjectInv, Linked
  <2>4. Safe(x) => home[x] \in Entries
    <3>1. Safe(x) => Found(k)
      BY <1>0, <1>1 DEF HasInv, Trusts
    <3> QED
      BY <1>1, <1>4, <2>3, <3>1 DEF Found
  <2>5. There(x, home)'
    BY <1>1, <2>4 DEF There, Safe, Entries
  <2> QED
    BY <1>1, <2>1, <2>5 DEF Asked
<1>5. CASE MarkFailed(k, FALSE)
  BY <1>0, <1>2, <1>3, <1>5, MarkedHas DEF MarkFailed
<1>6. CASE call[k].ok /\ Continue(k, Marking(w, "Ready", FALSE))
  <2>1. PICK n : n = Marking(w, "Ready", FALSE)
    OBVIOUS
  <2>2. n.pc = "mark" /\ n.key = x
    BY <1>0, <1>1, <2>1 DEF Marking, Worker
  <2>3. worker'[k] = n /\ Acts(k)
    BY <1>1, <1>2, <1>6, <2>1, WorkerBecomes
  <2>4. Trusts(k, n, home)'
    BY <1>4, <1>6, <2>2 DEF Trusts, Composed
  <2> QED
    BY <1>0, <1>1, <1>3, <2>2, <2>3, <2>4, ActsAlone, OnHas
<1>7. CASE call[k].ok /\ Finish(k, FALSE)
  <2>1. worker'[k] = Idle /\ Acts(k)
    BY <1>1, <1>2, <1>7, WorkerBecomes
  <2>2. DoneThere(x, home)'
    BY <1>4, <1>7 DEF DoneThere
  <2> QED
    BY <1>0, <1>1, <1>3, <2>1, <2>2, ActsAlone, FinishHas
<1> QED
  BY <1>5, <1>6, <1>7 DEF CreateOrUpdateEntry

(* Ready is written of what is there. *)
LEMMA MarkHas ==
    ASSUME CloseInv, CloseInv', NEW home, HasInv(home), NEW k \in Kinds, Mark(k)
    PROVE  HasInv(home)'
<1> DEFINE w == worker[k]
<1>0. PICK x : x = w.key
  OBVIOUS
<1>1. /\ w.pc = "mark" /\ w.pc # "idle" /\ w \in Worker /\ ObjectInv /\ LastIsStored
      /\ x \in Objects /\ store[x] \in VersionsOf(x) \cup {None}
      /\ UNCHANGED <<dit, call, cache, used, claims>>
  BY <1>0, AtWork DEF Mark, At, clientVars, environment, history, CloseInv, ObjectInv, PinInv
<1>2. PICK requeue : Finish(k, requeue)
  BY DEF Mark
<1>3. w.status = "Ready" => Asked(x) /\ There(x, home)
  BY <1>0, <1>1 DEF HasInv, Trusts
<1>4. ASSUME Acts(k), Only(x, home), DoneThere(x, home)'
      PROVE  HasInv(home)'
  BY <1>0, <1>1, <1>2, <1>4, WorkerBecomes, ActsAlone, FinishHas
<1>5. CASE Unpatchable(x) /\ UNCHANGED <<store, watch>>
  <2>1. Acts(k) /\ Only(x, home)
    BY <1>1, <1>2, <1>5, ActsUnwritten, Silent
  <2>2. ~Current(x)
    BY <1>1, <1>5, CurrentCached DEF Current, Unpatchable
  <2>3. DoneThere(x, home)'
    BY <1>1, <2>1, <2>2 DEF Acts, Undisturbed, DoneThere
  <2> QED
    BY <1>4, <2>1, <2>3
<1>6. CASE store[x] # None /\ Write(x, [store[x] EXCEPT !.status = StatusOf(w, store[x])])
  <2>1. PICK v, n : v = store[x] /\ n = [v EXCEPT !.status = StatusOf(w, v)]
    OBVIOUS
  <2>2. v \in VersionsOf(x) /\ Write(x, n)
    BY <1>1, <1>6, <2>1
  <2>3. /\ n \in Version /\ n # None /\ n.status.phase = w.status /\ n.uid = v.uid
        /\ n.deleting = v.deleting /\ n.finalizer = v.finalizer /\ n.owner = v.owner
    <3>1. StatusOf(w, v) \in Status /\ StatusOf(w, v).phase = w.status
      BY <1>1, <2>2 DEF StatusOf, Status, Worker, VersionsOf, Version
    <3>2. n \in Version /\ n.status.phase = w.status
      BY <2>1, <2>2, <3>1 DEF VersionsOf, Version
    <3> QED
      BY <2>1, <2>2, <3>2, NothingAssumption DEF VersionsOf, Version
  <2>4. Acts(k) /\ store'[x] = n
    BY <1>1, <1>2, <2>2, <2>3, WriteUndisturbing, WorkerBecomes, WrittenThere DEF Acts, Finish
  <2>5. Only(x, home)
    <3>1. n.status.phase = "Ready" => Asked(x)
      BY <1>3, <2>3
    <3>2. v = store[x] /\ v # None
      BY <1>6, <2>1
    <3> HIDE DEF w
    <3> QED
      BY <1>1, <2>2, <2>3, <3>1, <3>2, Patches
  <2>6. ASSUME Current(x)', n.status.phase = "Ready"
        PROVE  There(x, home)'
    <3>1. Current(x) /\ store'[x] = store[x]
      BY <1>1, <2>4, <2>6 DEF Acts, Undisturbed
    <3>2. Asked(x) /\ There(x, home)
      BY <1>3, <2>3, <2>6
    <3>3. Alike(x) /\ Kept(x, home)
      BY <1>1, <3>1, UnwrittenKept DEF Alike, Asked
    <3> QED
      BY <1>1, <2>5, <3>2, <3>3, ThereStays DEF Only, HasInv, Known
  <2>7. DoneThere(x, home)'
    BY <2>4, <2>6 DEF DoneThere, IsReady
  <2> QED
    BY <1>4, <2>4, <2>5, <2>7
<1> QED
  BY <1>0, <1>5, <1>6 DEF Mark, Unpatchable

LEMMA ApiFailsHas ==
    ASSUME CloseInv, CloseInv', NEW home, HasInv(home), NEW k \in Kinds,
           ApiFails(k), ~FailureUnrecorded(k)
    PROVE  HasInv(home)'
<1>1. /\ worker[k].pc # "idle" /\ ObjectInv
      /\ UNCHANGED <<dit, call, store, cache, watch, used, claims>>
  BY DEF ApiFails, environment, history, CloseInv
<1>2. Only(worker[k].key, home)
  BY <1>1, Silent
<1>3. CASE MarkFailed(k, TRUE) \/ MarkFailed(k, FALSE)
  BY <1>1, <1>2, <1>3, ActsUnwritten, MarkedHas DEF MarkFailed
<1>4. CASE Finish(k, TRUE)
  BY <1>1, <1>2, <1>4, ActsUnwritten, RetriedHas
<1>5. CASE worker[k].pc = "mark" /\ Finish(k, worker[k].status = "Failed" => worker[k].requeue)
  <2>1. worker[k].status # "Failed"
    BY <1>5 DEF FailureUnrecorded, At
  <2>2. Finish(k, TRUE)
    BY <1>5, <2>1 DEF Finish
  <2> QED
    BY <1>4, <2>2
<1> QED
  BY <1>3, <1>4, <1>5 DEF ApiFails

-----------------------------------------------------------------------------
(* Who deletes an entry.                                                   *)

(* An entry disappears by a request of DeleteEntry for it. *)
LEMMA GoneByRequest ==
    ASSUME ClientInv, NEW j \in Kinds, ClientStep(j), NEW d \in Entries, d \notin Entries'
    PROVE  /\ call[j].step = "delete" /\ call[j].frames # <<>>
           /\ Head(call[j].frames).dn = d
<1> DEFINE c == call[j]
<1>1. CASE UNCHANGED dit
  BY <1>1 DEF Entries
<1>2. CASE dit' = Added(c) \/ dit' = Modified(c) \/ dit' = PasswordSet(c)
  <2>1. PICK e : dit' = With(c.dn, e)
    BY <1>2, Zenon DEF Added, Modified, PasswordSet
  <2> QED
    BY <2>1 DEF With, Entries
<1>3. CASE c.step = "delete" /\ Unvisited(c) = {} /\ dit' = Deleted(c)
  BY <1>3 DEF Unvisited, Deleted, Without, Entries
<1>4. CASE Search(j) \/ Bind(j) \/ DeleteSearch(j) \/ RequestFails(j)
  BY <1>1, <1>4 DEF Search, Bind, DeleteSearch, RequestFails
<1>5. CASE Add(j) \/ Modify(j) \/ SetPassword(j)
  BY <1>1, <1>2, <1>5 DEF Add, Modify, SetPassword
<1>6. CASE DeleteRequest(j)
  BY <1>1, <1>3, <1>6 DEF DeleteRequest
<1>7. CASE ReplyLost(j)
  BY <1>1, <1>2, <1>3, <1>7 DEF ReplyLost
<1> QED
  BY <1>4, <1>5, <1>6, <1>7 DEF ClientStep, Request, UpsertUser, UpsertEntry, Deletion

(* A child is below whatever its parent is below. *)
LEMMA KidsUnder ==
    ASSUME ClientInv, NEW b \in DN, NEW d \in DN, IsSuffix(b, d), NEW e \in Children(d)
    PROVE  IsSuffix(b, e)
<1>1. /\ e \in Seq(RDN) /\ e # <<>> /\ d \in Seq(RDN) /\ b \in Seq(RDN) /\ Tail(e) = d
  BY DEF Children, ClientInv, ClientTypeOK, DN
<1>2. /\ Len(e) \in Nat /\ Len(d) \in Nat /\ Len(b) \in Nat /\ Len(e) = Len(d) + 1
      /\ \A i \in 1 .. Len(d) : d[i] = e[i + 1]
  <2>1. /\ Len(Tail(e)) = Len(e) - 1
        /\ \A i \in 1 .. Len(Tail(e)) : Tail(e)[i] = e[i + 1]
    BY <1>1, HeadTailProperties
  <2>2. Len(e) \in Nat /\ Len(d) \in Nat /\ Len(b) \in Nat
    BY <1>1, LenProperties
  <2>3. Len(d) = Len(e) - 1 /\ \A i \in 1 .. Len(d) : d[i] = e[i + 1]
    BY <1>1, <2>1
  <2> QED
    BY <2>2, <2>3
<1>3. /\ Len(b) <= Len(d)
      /\ \A i \in 1 .. Len(b) : b[i] = d[i + Len(d) - Len(b)]
  BY <1>1, SuffixByIndex
<1>4. ASSUME NEW i \in 1 .. Len(b)
      PROVE  b[i] = e[i + Len(e) - Len(b)]
  <2>1. b[i] = d[i + Len(d) - Len(b)]
    BY <1>3
  <2>2. i + Len(d) - Len(b) \in 1 .. Len(d) /\ i + Len(e) - Len(b) = (i + Len(d) - Len(b)) + 1
    BY <1>2, <1>3
  <2> QED
    BY <1>2, <2>1, <2>2
<1> QED
  BY <1>1, <1>2, <1>3, <1>4, SuffixByIndex

LEMMA DeletesUnderKept ==
    ASSUME ClientInv, NEW j \in Kinds, DeletesUnder(j), ClientStep(j)
    PROVE  DeletesUnder(j)'
<1> DEFINE c == call[j]
           S == FramesUnder(c.dn)
<1>0. c.frames \in Seq(Frame) /\ call \in [Kinds -> Call]
  BY DEF ClientInv, ClientTypeOK, Call
<1>1. ASSUME NEW step, NEW found, NEW created, NEW ok, NEW frames,
             Becomes(j, step, found, frames, created, ok),
             step = "delete" => frames \in Seq(S)
      PROVE  DeletesUnder(j)'
  <2>1. call'[j].step = step /\ call'[j].dn = c.dn /\ call'[j].frames = frames
    BY <1>1, BecomesFields
  <2> QED
    BY <1>1, <2>1 DEF DeletesUnder, FramesUnder
<1>2. ASSUME NEW d \in Unvisited(c), c.step = "delete"
      PROVE  Entered(c.frames, d) \in Seq(S)
  <2>0. c.frames \in Seq(S) /\ c.dn \in DN
    BY <1>2 DEF DeletesUnder, ClientInv, CallSound
  <2>1. PICK new : new = [dn |-> d, kids |-> Children(d)]
    OBVIOUS
  <2>2. d \in DN /\ IsSuffix(c.dn, d)
    <3>1. CASE c.frames = <<>>
      <4>1. d = c.dn /\ d \in Seq(RDN)
        BY <1>2, <2>0, <3>1 DEF Unvisited, DN
      <4> QED
        BY <2>0, <4>1, SuffixOfItself
    <3>2. CASE c.frames # <<>>
      <4>1. Head(c.frames) \in S /\ d \in Head(c.frames).kids
        BY <1>2, <2>0, <3>2 DEF Unvisited
      <4> QED
        BY <4>1 DEF FramesUnder, Frame
    <3> QED
      BY <3>1, <3>2
  <2>3. new \in S
    <3>1. Children(d) \in SUBSET DN /\ \A e \in Children(d) : IsSuffix(c.dn, e)
      BY <2>0, <2>2, KidsUnder DEF Children, ClientInv, ClientTypeOK
    <3> QED
      BY <2>1, <2>2, <3>1 DEF FramesUnder, Frame
  <2>4. CASE c.frames = <<>>
    <3>1. PICK t : t = <<>>
      OBVIOUS
    <3>2. t \in Seq(S)
      BY <3>1
    <3>3. Entered(c.frames, d) = <<new>> \o t
      BY <2>1, <2>4, <3>1 DEF Entered
    <3> QED
      BY <2>3, <3>2, <3>3, ConsProperties
  <2>5. CASE c.frames # <<>>
    <3>1. PICK old : old = [dn |-> Head(c.frames).dn, kids |-> Head(c.frames).kids \ {d}]
      OBVIOUS
    <3>2. Head(c.frames) \in S /\ Tail(c.frames) \in Seq(S)
      BY <2>0, <2>5, HeadTailProperties
    <3>3. old \in S
      BY <3>1, <3>2 DEF FramesUnder, Frame
    <3>4. PICK t : t = <<old>> \o Tail(c.frames)
      OBVIOUS
    <3>5. t \in Seq(S)
      BY <3>2, <3>3, <3>4, ConsProperties
    <3>6. Entered(c.frames, d) = <<new>> \o (<<old>> \o Tail(c.frames))
      BY <2>1, <2>5, <3>1, Zenon DEF Entered
    <3> QED
      BY <2>3, <3>4, <3>5, <3>6, ConsProperties
  <2> QED
    BY <2>4, <2>5
<1>3. CASE DeleteSearch(j)
  BY <1>1, <1>2, <1>3 DEF DeleteSearch
<1>4. CASE DeleteRequest(j)
  <2>1. c.step = "delete" /\ c.frames # <<>> /\ c.frames \in Seq(S)
    BY <1>4 DEF DeleteRequest, Unvisited, DeletesUnder
  <2>2. Tail(c.frames) \in Seq(S)
    BY <2>1, HeadTailProperties
  <2> QED
    BY <1>1, <1>4, <2>2 DEF DeleteRequest, Return, Fail
<1>5. CASE UpsertUser(j)
  BY <1>1, <1>5 DEF UpsertUser, UpsertEntry, Search, Add, Modify, Bind, SetPassword,
                    Goto, Return, Fail
<1>6. CASE RequestFails(j) \/ ReplyLost(j)
  BY <1>1, <1>6 DEF RequestFails, ReplyLost, Return, Fail
<1> QED
  BY <1>3, <1>4, <1>5, <1>6 DEF ClientStep, Request, Deletion

(* Two names of which one is below the other. *)
LEMMA HomesNested ==
    ASSUME NEW home, Homes(home), NEW o \in Objects, NEW s \in Specs[o],
           NEW y \in Objects, NEW t \in Specs[y], IsSuffix(home[y], home[o])
    PROVE  y = o \/ (s.parent = y /\ OwnerName(s) = y)
<1>1. PICK a, b : a = home[y] /\ b = home[o]
  OBVIOUS
<1>2. /\ a \in DN /\ b \in DN /\ Len(a) \in {1, 2} /\ Len(b) \in {1, 2}
  BY <1>1, HomeOf
<1>3. a \in Seq(RDN) /\ b \in Seq(RDN)
  BY <1>2 DEF DN
<1>4. /\ Len(a) <= Len(b)
      /\ \A i \in 1 .. Len(a) : a[i] = b[i + Len(b) - Len(a)]
  BY <1>1, <1>3, SuffixByIndex
<1>5. CASE Len(a) = Len(b)
  <2>1. \A i \in 1 .. Len(a) : a[i] = b[i]
    BY <1>2, <1>4, <1>5
  <2>2. a = b
    BY <1>3, <1>5, <2>1
  <2> QED
    BY <1>1, <2>2 DEF Homes
<1>6. CASE Len(a) # Len(b)
  <2>1. Len(a) = 1 /\ Len(b) = 2
    <3>1. Len(a) <= Len(b)
      BY <1>4
    <3>2. (Len(a) = 1 \/ Len(a) = 2) /\ (Len(b) = 1 \/ Len(b) = 2)
      BY <1>2
    <3> QED
      BY <1>6, <3>1, <3>2
  <2>2. a[1] = b[2]
    BY <1>4, <2>1
  <2>3. a = <<a[1]>>
    BY <1>3, <2>1
  <2>4. s.parent # None /\ s.parent \in Objects /\ home[s.parent] = <<b[2]>>
    BY <1>1, <2>1, HomeOf
  <2>5. home[s.parent] = home[y]
    BY <1>1, <2>2, <2>3, <2>4
  <2>6. s.parent = y
    BY <2>4, <2>5 DEF Homes
  <2> QED
    BY <2>4, <2>6 DEF OwnerName
<1> QED
  BY <1>5, <1>6

(* The worker that deletes sees its object leaving, and what it deletes is   *)
(* the object's entry or that of a child, which is Leaving then.             *)
LEMMA EntryKept ==
    ASSUME CloseInv, NEW home, HasInv(home), Homes(home), NEW j \in Kinds, ClientStep(j),
           NEW o \in Objects
    PROVE  Kept(o, home)
<1> SUFFICES ASSUME Safe(o), Asked(o), home[o] \in Entries, home[o] \notin Entries'
             PROVE  FALSE
  BY DEF Kept
<1> DEFINE c == call[j]
           w == worker[j]
<1>0. ObjectInv /\ ClientInv
  BY DEF CloseInv, ObjectInv
<1>1. c.step = "delete" /\ c.frames # <<>> /\ Head(c.frames).dn = home[o]
  BY <1>0, GoneByRequest
<1>2. PICK y : y = w.key
  OBVIOUS
<1>3. w.pc = "deleteEntry" /\ c.dn = w.dn
  <2>1. c.entry = None /\ c.step # "idle"
    BY <1>0, <1>1 DEF ClientInv, CallSound
  <2> QED
    BY <1>0, <2>1 DEF ObjectInv, Linked, Calling
<1>4. y \in Objects /\ w.obj \in VersionsOf(y)
  <2>1. w.pc # "idle"
    BY <1>3
  <2> QED
    BY <1>0, <1>2, <2>1, AtWork DEF ObjectInv
<1>5. c.dn = home[y]
  <2>1. w.pc \in Composed
    BY <1>3 DEF Composed
  <2> QED
    BY <1>2, <1>3, <2>1 DEF HasInv, Trusts, AtHome
<1>6. IsSuffix(home[y], home[o])
  <2>1. c.frames \in Seq(FramesUnder(c.dn))
    BY <1>1 DEF HasInv, DeletesUnder
  <2>2. Head(c.frames) \in FramesUnder(c.dn)
    BY <1>1, <2>1
  <2> QED
    BY <1>1, <1>5, <2>2 DEF FramesUnder
<1>7. LeavingOrBare(store[y])
  BY <1>2, <1>3 DEF CloseInv, NearInv, Sees, SeesLeaving, Clearing
<1>8. PICK s \in Specs[o] : s = store[o].spec
  BY CloseFacts, VersionParts DEF Safe
<1>9. y = o \/ OwnerName(s) = y
  BY <1>4, <1>6, <1>8, HomesNested, VersionParts
<1>10. CASE y = o
  <2>1. store[o] # None /\ store[o].finalizer
    BY CloseFacts
  <2> QED
    BY <1>7, <1>10, <2>1 DEF LeavingOrBare, Safe
<1>11. CASE OwnerName(s) = y
  <2>1. PICK u : u = store[o].owner
    OBVIOUS
  <2>2. Boss(o, u)
    BY <2>1 DEF HasInv, Known, StoreTells, Safe
  <2>3. u.name = y
    BY <1>8, <1>11, <2>2 DEF Boss
  <2>4. store[y] # None /\ store[y].uid = u.uid /\ ~store[y].deleting
    BY <1>4, <2>1, <2>3 DEF Safe
  <2>5. store[y].finalizer
    BY <1>4, <2>2, <2>3, <2>4 DEF Boss, Vouched
  <2> QED
    BY <1>7, <2>4, <2>5 DEF LeavingOrBare
<1> QED
  BY <1>9, <1>10, <1>11

LEMMA ClientHas ==
    ASSUME CloseInv, CloseInv', NEW home, HasInv(home), Homes(home), NEW k \in Kinds,
           ClientStep(k), UNCHANGED <<kubernetes, worker, environment, history>>
    PROVE  HasInv(home)'
<1>1. /\ call[k].step # "idle" /\ \A j \in Kinds \ {k} : call'[j] = call[j]
      /\ UNCHANGED <<store, cache, watch, queue, worker, used, claims>>
      /\ ObjectInv /\ ClientInv
  BY ClientStepMoves DEF CallMoves, CloseInv, ObjectInv, kubernetes, environment, history
<1>2. Passing /\ (\A o \in Objects : Alike(o)) /\ Only(None, home)
  BY <1>1, Silent
<1>3. \A o \in Objects : Kept(o, home) /\ Undisturbed(o)
  BY <1>1, EntryKept DEF Undisturbed, Current
<1>4. ASSUME NEW j \in Kinds \ {k}
      PROVE  DeletesUnder(j)' /\ \E w : worker'[j] = w /\ Trusts(j, w, home)'
  <2>1. worker[j].pc # "idle" => worker[j].key \in Objects
    BY <1>1, AtWork DEF ObjectInv
  <2> QED
    BY <1>1, <1>2, <1>3, <2>1, StillHas
<1>5. PICK w : worker[k] = w /\ Trusts(k, w, home)
  BY DEF HasInv
<1>6. w.pc \in Calling
  BY <1>1, <1>5 DEF ObjectInv, Linked
<1>7. (w.pc = "upsertEntry" /\ Safe(w.key)') => Found(k)'
  <2>1. SUFFICES ASSUME w.pc = "upsertEntry", Safe(w.key)'
                 PROVE  Found(k)'
    OBVIOUS
  <2>2. Safe(w.key)
    BY <1>1, <2>1 DEF Safe
  <2>3. Found(k)
    BY <1>5, <2>1, <2>2 DEF Trusts
  <2>4. call[k].entry # None
    BY <1>1, <1>5, <2>1 DEF ObjectInv, Linked
  <2> QED
    BY <1>1, <2>3, <2>4, FoundKept
<1>8. Trusts(k, w, home)'
  BY <1>1, <1>5, <1>6, <1>7 DEF Trusts, Calling, AtHome
<1>9. DeletesUnder(k)'
  BY <1>1, DeletesUnderKept DEF HasInv
<1>10. \A o \in Objects : DoneThere(o, home)'
  BY <1>1, <1>2, <1>3, StillDone DEF HasInv
<1>11. Known(home)'
  BY <1>2, KnownStays DEF HasInv, Only
<1> QED
  BY <1>1, <1>4, <1>5, <1>8, <1>9, <1>10, <1>11 DEF HasInv

-----------------------------------------------------------------------------
(* The environment and the process.                                        *)

(* Nothing is written, nor said of any object. *)
LEMMA ElsewhereHas ==
    ASSUME CloseInv, CloseInv', NEW home, HasInv(home), used["create"] <= used'["create"],
           UNCHANGED <<dit, call, worker, store, cache, claims>>,
           \A o \in Objects : Undisturbed(o)
    PROVE  HasInv(home)'
<1>1. Passing /\ \A o \in Objects : Alike(o)
  BY Unwritten
<1> QED
  BY <1>1, UnwrittenKept, AsideHas

(* The API server holds another version of o, of which nobody knows yet. *)
LEMMA WrittenHas ==
    ASSUME CloseInv, CloseInv', NEW home, HasInv(home), NEW o \in Objects, NEW v, Publish(o, v),
           UNCHANGED <<dit, call, cache, worker, queue, claims>>,
           used["create"] <= used'["create"], v = None \/ Anew(o) \/ Remains(o),
           Remains(o) => v.owner = store[o].owner /\ v.status = store[o].status
    PROVE  HasInv(home)'
<1>1. \A x \in Objects : Undisturbed(x)
  BY PublishUndisturbing DEF CloseInv
<1>2. store' = [store EXCEPT ![o] = v] /\ DOMAIN store = Objects
  BY DEF Publish, CloseInv, ObjectInv, ReconcilerSound, ApiSound
<1>3. Passing
  BY <1>2 DEF Passing, Passes, Remains
<1>4. \A x \in Objects : Alike(x)
  BY <1>2 DEF Alike, Remains, Asked
<1> QED
  BY <1>1, <1>3, <1>4, UnwrittenKept, AsideHas

(* An object that is deleted goes, or is leaving. *)
LEMMA LeftHas ==
    ASSUME CloseInv, CloseInv', NEW home, HasInv(home), NEW o \in Objects, store[o] # None,
           Publish(o, Left(store[o])),
           UNCHANGED <<dit, call, cache, worker, queue, claims>>,
           used["create"] <= used'["create"]
    PROVE  HasInv(home)'
<1>1. PICK v, n : v = store[o] /\ n = Left(v)
  OBVIOUS
<1>2. v # None /\ v \in Version /\ Publish(o, n)
  BY <1>1, CloseFacts, VersionParts
<1>3. store'[o] = n
  BY <1>2 DEF Publish, CloseInv, ObjectInv, ReconcilerSound, ApiSound
<1>4. \/ n = None
      \/ /\ n.uid = v.uid /\ n.deleting /\ n.finalizer = v.finalizer
         /\ n.owner = v.owner /\ n.status = v.status
  BY <1>1, <1>2 DEF Left, Version
<1>5. n = None \/ Remains(o)
  BY <1>1, <1>2, <1>3, <1>4 DEF Remains
<1>6. Remains(o) => n.owner = store[o].owner /\ n.status = store[o].status
  BY <1>1, <1>3, <1>4 DEF Remains
<1> QED
  BY <1>2, <1>5, <1>6, WrittenHas

(* With one event in flight nobody knows any more of who is created. *)
LEMMA UsersHas ==
    ASSUME CloseInv, CloseInv', MaxLag <= 1, NEW home, HasInv(home), NEW o \in Objects,
           Users(o) \/ GarbageCollect(o)
    PROVE  HasInv(home)'
<1>1. /\ UNCHANGED <<dit, call, cache, worker, queue, claims>>
      /\ used["create"] <= used'["create"] /\ ObjectInv /\ ApiSound
      /\ store[o] \in VersionsOf(o) \cup {None}
  <2>1. /\ ObjectInv /\ ApiSound /\ used \in [Events -> Nat]
        /\ store[o] \in VersionsOf(o) \cup {None}
    BY DEF CloseInv, ObjectInv, ReconcilerSound, ApiSound, EnvironmentSound
  <2>2. used["create"] <= used'["create"]
    <3>1. CASE Users(o)
      BY <2>1, <3>1, HappensMore DEF Users, Create, Edit, Delete, Events
    <3>2. CASE GarbageCollect(o)
      BY <2>1, <3>2 DEF GarbageCollect, environment, Events
    <3> QED
      BY <3>1, <3>2
  <2> QED
    BY <2>1, <2>2 DEF Users, Create, Edit, Delete, GarbageCollect, clientVars, history
<1>2. CASE Create(o)
  <2>1. PICK s \in Specs[o] : Publish(o, NewVersion(s))
    BY <1>2 DEF Create
  <2>2. PICK v : v = NewVersion(s)
    OBVIOUS
  <2>3. /\ v.uid = used["create"] /\ ~v.finalizer /\ v.owner = None
        /\ v.status.phase # "Ready"
    BY <2>2, UnsetIsNoPhase DEF NewVersion
  <2>4. store'[o] = v /\ Publish(o, v)
    BY <1>1, <2>1, <2>2 DEF Publish, ApiSound
  <2>5. v # None
    <3>1. v \in VersionsOf(o)
      BY <1>1, <2>2, NewVersionSound DEF ObjectInv, ReconcilerSound
    <3> QED
      BY <3>1, VersionParts
  <2>6. store[o] = None /\ cache[o] = None
    <3>1. store[o] = None
      BY <1>2 DEF Create
    <3>2. Len(watch[o]) < 1
      BY <2>1, BoundsAssumption, LenProperties
         DEF Publish, CloseInv, ObjectInv, ReconcilerSound, ApiSound
    <3>3. watch[o] = <<>>
      BY <1>1, <3>2, LenProperties, EmptySeq DEF ApiSound
    <3> QED
      BY <3>1, <3>3, CloseFacts
  <2>7. Anew(o) /\ ~Remains(o)
    BY <2>3, <2>4, <2>5, <2>6 DEF Anew, Remains
  <2> QED
    BY <1>1, <2>4, <2>7, WrittenHas
<1>3. CASE Edit(o)
  <2>1. PICK s : Publish(o, [store[o] EXCEPT !.spec = s, !.generation = @ + 1])
    BY <1>3 DEF Edit
  <2>2. PICK v, n : v = store[o] /\ n = [v EXCEPT !.spec = s, !.generation = @ + 1]
    OBVIOUS
  <2>3. v # None /\ v \in Version
    BY <1>1, <1>3, <2>2, VersionParts DEF Edit
  <2>4. /\ n.uid = v.uid /\ n.deleting = v.deleting /\ n.finalizer = v.finalizer
        /\ n.owner = v.owner /\ n.status = v.status
    BY <2>2, <2>3 DEF Version
  <2>5. store'[o] = n /\ Publish(o, n)
    BY <1>1, <2>1, <2>2 DEF Publish, ApiSound
  <2>6. n = None \/ Remains(o)
    BY <2>2, <2>3, <2>4, <2>5 DEF Remains
  <2> QED
    BY <1>1, <2>2, <2>4, <2>5, <2>6, WrittenHas
<1>4. CASE Delete(o) \/ GarbageCollect(o)
  <2>1. store[o] # None /\ Publish(o, Left(store[o]))
    BY <1>4 DEF Delete, GarbageCollect, Orphaned
  <2> QED
    BY <1>1, <2>1, LeftHas
<1> QED
  BY <1>2, <1>3, <1>4 DEF Users

LEMMA SyncHas ==
    ASSUME CloseInv, CloseInv', NEW home, HasInv(home), NEW o \in Objects, Sync(o) \/ Resync(o)
    PROVE  HasInv(home)'
<1>1. UNCHANGED <<dit, call, worker, store, claims>> /\ queue' = queue \cup {o} /\ ObjectInv
  BY DEF Sync, Resync, HandOver, clientVars, history, CloseInv
<1>2. \A x \in Objects \ {o} : watch'[x] = watch[x]
  BY <1>1 DEF Sync, Resync, ObjectInv, ReconcilerSound, ApiSound
<1>3. \A x \in Objects : Undisturbed(x)
  BY <1>1, <1>2 DEF Undisturbed, Current
<1>4. used["create"] <= used'["create"]
  BY <1>1, HappensMore
     DEF Sync, Resync, environment, Events, ObjectInv, ReconcilerSound, EnvironmentSound
<1>5. CASE Resync(o)
  BY <1>1, <1>3, <1>4, <1>5, ElsewhereHas DEF Resync
<1>6. CASE Sync(o)
  <2>1. cache' = [cache EXCEPT ![o] = Head(watch[o])] /\ DOMAIN cache = Objects
    BY <1>1, <1>6 DEF Sync, ObjectInv, ReconcilerSound, ApiSound
  <2>2. Head(watch[o]) = store[o]
    BY <1>6 DEF Sync, CloseInv, NearInv, Near
  <2>3. Passing
    BY <1>1, <1>4, <2>1, <2>2 DEF Passing, Passes, Remains
  <2>4. \A x \in Objects : Alike(x)
    BY <1>1 DEF Alike, Remains, Asked
  <2> QED
    BY <1>1, <1>3, <2>3, <2>4, UnwrittenKept, AsideHas
<1> QED
  BY <1>5, <1>6

(* Whatever exists is looked at again by the next process. *)
LEMMA ProcessStartsHas ==
    ASSUME CloseInv, CloseInv', NEW home, HasInv(home), ProcessStarts, UNCHANGED used
    PROVE  HasInv(home)'
<1>1. /\ worker' = [k \in Kinds |-> Idle] /\ call' = [k \in Kinds |-> NoCall]
      /\ store' = store /\ cache' = store /\ queue' = {o \in Objects : store[o] # None}
      /\ UNCHANGED <<claims, used>>
  BY DEF ProcessStarts, history
<1>2. used["create"] <= used'["create"]
  BY <1>1 DEF CloseInv, ObjectInv, ReconcilerSound, EnvironmentSound, Events
<1>3. Passing /\ Claims(home) /\ \A o \in Objects : Tells(o)
  BY <1>1, <1>2 DEF Passing, Passes, Remains, Claims, Tells, Asked
<1>4. Known(home)'
  BY <1>3, KnownStays DEF HasInv
<1>5. ASSUME NEW k \in Kinds
      PROVE  DeletesUnder(k)' /\ \E w : worker'[k] = w /\ Trusts(k, w, home)'
  <2>1. PICK w : w = Idle
    OBVIOUS
  <2>2. w.pc = "idle"
    BY <2>1, IdleSound
  <2>3. Trusts(k, w, home)'
    BY <2>2, PlainTrusts DEF Plain
  <2>4. DeletesUnder(k)'
    BY <1>1 DEF DeletesUnder, NoCall, NewCall
  <2> QED
    BY <1>1, <2>1, <2>3, <2>4
<1>6. \A o \in Objects : DoneThere(o, home)'
  BY <1>1 DEF DoneThere, Current
<1> QED
  BY <1>4, <1>5, <1>6 DEF HasInv

LEMMA InitHas ==
    ASSUME Init, NEW home
    PROVE  HasInv(home)
<1>1. /\ worker = [k \in Kinds |-> Idle] /\ call = [k \in Kinds |-> NoCall]
      /\ store = [o \in Objects |-> None] /\ cache = store /\ claims = {}
  BY DEF Init, ClientInit
<1>2. Known(home)
  BY <1>1 DEF Known, CacheTells, StoreTells
<1>3. ASSUME NEW k \in Kinds
      PROVE  DeletesUnder(k) /\ \E w : worker[k] = w /\ Trusts(k, w, home)
  <2>1. PICK w : w = Idle
    OBVIOUS
  <2>2. w.pc = "idle"
    BY <2>1, IdleSound
  <2>3. Trusts(k, w, home)
    BY <2>2 DEF Trusts, Composed
  <2>4. DeletesUnder(k)
    BY <1>1 DEF DeletesUnder, NoCall, NewCall
  <2> QED
    BY <1>1, <2>1, <2>3, <2>4
<1>4. \A o \in Objects : DoneThere(o, home)
  BY <1>1 DEF DoneThere, Current
<1> QED
  BY <1>2, <1>3, <1>4 DEF HasInv

LEMMA NextHas ==
    ASSUME MaxLag <= 1, CloseInv, CloseInv', NEW home, Homes(home), HasInv(home), [Next]_vars,
           FailuresRecorded
    PROVE  HasInv(home)'
<1>0. used["create"] \in Nat
  BY DEF CloseInv, ObjectInv, ReconcilerSound, EnvironmentSound, Events
<1>1. ASSUME NEW k \in Kinds, Reconcile(k)
      PROVE  HasInv(home)'
  BY <1>1, AddFinalizerHas, ResolveReferencesHas, ResolveDirectoryHas, ResolveParentHas,
     GetDistinguishedNameHas, DeleteEntryHas, RemoveFinalizerHas, SetOwnerHas, MapToEntryHas,
     CreateOrUpdateEntryHas, MarkHas
     DEF Reconcile
<1>2. ASSUME NEW k \in Kinds, ClientRequest(k) \/ ClientFails(k)
      PROVE  HasInv(home)'
  BY <1>2, ClientHas DEF ClientRequest, ClientFails, ClientStep
<1>3. ASSUME NEW k \in Kinds, Panic(k)
      PROVE  HasInv(home)'
  BY <1>3, ProcessStartsHas DEF Panic, Restart
<1>4. CASE Crash
  BY <1>4, ProcessStartsHas DEF Crash, Restart
<1>5. CASE \/ UNCHANGED vars
           \/ \E s \in SecretRefs : SecretWritten(s) \/ SecretDeleted(s)
           \/ DirectoryChanges \/ DirectoryDeleted
  <2>1. UNCHANGED <<dit, call, worker, store, cache, watch, queue, claims>> /\ ObjectInv
    BY <1>5 DEF vars, SecretWritten, SecretDeleted, DirectoryChanges, DirectoryDeleted,
       clientVars, kubernetes, history, CloseInv
  <2>2. \/ UNCHANGED used
        \/ \E e \in Events : Happens(e)
    BY <1>5 DEF vars, environment, SecretWritten, SecretDeleted, DirectoryChanges,
       DirectoryDeleted, Events
  <2>3. used["create"] <= used'["create"]
    BY <1>0, <2>1, <2>2, HappensMore
  <2> QED
    BY <2>1, <2>3, WriteUndisturbing, ElsewhereHas
<1> QED
  BY <1>1, <1>2, <1>3, <1>4, <1>5, GetHas, SyncHas, UsersHas, ApiFailsHas
     DEF Next, Environment, FailuresRecorded

-----------------------------------------------------------------------------

(* Neither an object nor its owner goes. *)
LEMMA StayingSafe ==
    ASSUME EnvironmentSound, NEW o \in Objects, ~Leaving(o), store[o].owner # None,
           store[o].owner \in Owner
    PROVE  Safe(o)
<1>1. MaxDepth \in Nat /\ MaxDepth # 0
  BY BoundsAssumption
<1>2. ~Goes(o)
  <2>1. SUFFICES ASSUME Goes(o)
                 PROVE  Leaving(o)
    OBVIOUS
  <2>2. PICK line : line = [i \in 0 .. 0 |-> o]
    OBVIOUS
  <2>3. line \in [0 .. 0 -> Objects] /\ line[0] = o /\ 0 \in 0 .. MaxDepth
    BY <1>1, <2>2
  <2>4. \A i \in 0 .. 0 - 1 : OwnedBy(line[i], line[i + 1])
    OBVIOUS
  <2> QED
    BY <2>1, <2>3, <2>4 DEF Leaving
<1>3. PICK u : u = store[o].owner
  OBVIOUS
<1>4. store[o] # None /\ ~store[o].deleting /\ u \in LiveOwners(directory)
  BY <1>2, <1>3 DEF Goes, Orphaned
<1>5. ASSUME u.name \in Objects
      PROVE  /\ store[u.name] # None /\ store[u.name].uid = u.uid
             /\ ~store[u.name].deleting
  <2>1. PICK p \in Objects : p = u.name
    BY <1>5
  <2>2. u \in {[name |-> x, uid |-> store[x].uid] : x \in {y \in Objects : store[y] # None}}
    <3>1. \A d : u # [name |-> Directory, uid |-> d]
      BY <1>5, ObjectsAssumption
    <3> QED
      BY <1>4, <3>1 DEF LiveOwners
  <2>3. store[p] # None /\ store[p].uid = u.uid
    BY <2>1, <2>2
  <2>4. ~Goes(p)
    <3>1. SUFFICES ASSUME Goes(p)
                   PROVE  Leaving(o)
      OBVIOUS
    <3>2. PICK line : line = [i \in 0 .. 1 |-> IF i = 0 THEN o ELSE p]
      OBVIOUS
    <3>3. /\ line \in [0 .. 1 -> Objects] /\ line[0] = o /\ line[1] = p
          /\ 1 \in 0 .. MaxDepth
      BY <1>1, <3>2
    <3>4. OwnedBy(o, p)
      BY <1>3, <1>4, <2>1 DEF OwnedBy
    <3>5. \A i \in 0 .. 1 - 1 : OwnedBy(line[i], line[i + 1])
      BY <3>3, <3>4
    <3> QED
      BY <3>1, <3>3, <3>5 DEF Leaving
  <2> QED
    BY <2>1, <2>3, <2>4 DEF Goes
<1> QED
  BY <1>3, <1>4, <1>5 DEF Safe

LEMMA HasInvReady ==
    ASSUME CloseInv, NEW home, HasInv(home)
    PROVE  ReadyHasEntry
<1>1. SUFFICES ASSUME NEW o \in Objects, IsReady(o), Settled(o), ~Leaving(o)
               PROVE  \E c \in claims : /\ c.obj = o /\ c.uid = store[o].uid
                                        /\ c.dn \in Entries
  BY DEF ReadyHasEntry
<1>2. store[o] # None /\ store[o] \in VersionsOf(o) /\ EnvironmentSound
  BY <1>1, CloseFacts DEF IsReady, CloseInv, ObjectInv, ReconcilerSound
<1>3. PICK c \in claims : c.obj = o
  BY <1>1 DEF HasInv, Known, StoreTells, IsReady, Asked
<1>4. c.dn = home[o] /\ store[o].owner # None
  BY <1>3 DEF HasInv, Known
<1>5. c.uid = store[o].uid
  BY <1>3 DEF CloseInv, PinInv, PinnedByFinalizer, NearInv
<1>6. Safe(o)
  BY <1>1, <1>2, <1>4, VersionParts, StayingSafe
<1>7. There(o, home)
  BY <1>1, <1>2 DEF HasInv, DoneThere, Current, Settled
<1> QED
  BY <1>3, <1>4, <1>5, <1>6, <1>7 DEF There

(* PhaseReady means that the entry is there (ldap_object.go:59), for the     *)
(* children of a top entry as for the top entries themselves: a parent that  *)
(* is deleted takes the entries of its children with it (client.go:327-354), *)
(* but not before its owner references tell, and a parent created again is   *)
(* no owner until it has its finalizer (ldapobject_controller.go:191-260).   *)
(* In a tree of three levels this is not so: when the parent in the middle   *)
(* takes over the new uid of its own parent, before or after its entry went  *)
(* with the old one, nothing tells its child any more that its entry went    *)
(* too, until the next resync.  The other two hypotheses are those under     *)
(* which a finalizer is removed knowingly, and ReadyIsTrue's.                *)
THEOREM ReadyEntryThere ==
    (TwoLevels /\ MaxLag <= 1) =>
        ((Spec /\ [][FailuresRecorded]_vars) => []ReadyHasEntry)
<1> SUFFICES ASSUME MaxLag <= 1, NEW home, Homes(home)
             PROVE  (Spec /\ [][FailuresRecorded]_vars) => []ReadyHasEntry
  BY DEF TwoLevels
<1>1. Init => HasInv(home)
  BY InitHas
<1>2. (/\ ObjectInv /\ ObjectInv' /\ PinInv /\ PinInv' /\ NearInv /\ NearInv'
       /\ HasInv(home) /\ [Next]_vars /\ [FailuresRecorded]_vars)
      => HasInv(home)'
  <2>1. SUFFICES ASSUME ObjectInv, ObjectInv', PinInv, PinInv', NearInv, NearInv',
                        HasInv(home), [Next]_vars, [FailuresRecorded]_vars
                 PROVE  HasInv(home)'
    OBVIOUS
  <2>2. CloseInv /\ CloseInv'
    BY <2>1 DEF CloseInv
  <2>3. CASE FailuresRecorded
    BY <2>1, <2>2, <2>3, NextHas
  <2>4. CASE UNCHANGED vars
    <3>1. UNCHANGED <<dit, call, worker, store, cache, watch, queue, claims, used>>
      BY <2>4 DEF vars, clientVars, kubernetes, environment, history
    <3>2. used["create"] <= used'["create"]
      BY <2>1, <3>1 DEF ObjectInv, ReconcilerSound, EnvironmentSound, Events
    <3> QED
      BY <2>1, <2>2, <3>1, <3>2, WriteUndisturbing, ElsewhereHas
  <2> QED
    BY <2>1, <2>3, <2>4
<1>3. (ObjectInv /\ PinInv /\ NearInv /\ HasInv(home)) => ReadyHasEntry
  BY HasInvReady DEF CloseInv
<1>4. MaxLag <= 1 => (Spec => []NearInv)
  BY NearInvHolds
<1> QED
  BY <1>1, <1>2, <1>3, <1>4, ObjectInvHolds, PinInvHolds, PTL DEF Spec

=============================================================================
