------------------------- MODULE LDAPClient_proofs -------------------------
(***************************************************************************)
(* What every step of a client preserves, whoever calls it: first about    *)
(* upserts, then about deletions.                                          *)
(***************************************************************************)
EXTENDS LDAPClient, SequenceTheorems, TLAPS

Upserting == {"search", "add", "modify", "bind", "setPassword"}

(* What a step of a call may rely on. *)
CallSound(k) ==
    LET c == call[k] IN
    /\ c.step = "idle" => c.entry = None
    /\ c.step # "idle" => c.dn \in DN /\ Head(c.dn).kind = k
    /\ c.step \in Upserting => c.entry \in Desired
    /\ c.entry # None => Wanted(k, c.entry)
    /\ c.step = "modify" => c.found \in Content
    /\ c.step = "bind" => k = User
    /\ c.step = "setPassword" => c.entry.pw # None
    /\ c.step = "delete" => c.entry = None

(* How far an upsert has come.  It holds although another client may delete  *)
(* the entry at any time, because nobody else adds or modifies it.           *)
Converging(k) ==
    LET c == call[k] IN
    (c.entry # None /\ c.entry.name = Head(c.dn).name /\ c.dn \in Entries)
    => /\ c.step = "modify" => dit[c.dn].content = c.found
       /\ c.step \in {"bind", "setPassword"} => dit[c.dn].content = c.entry.content
       /\ (c.step = "returned" /\ c.ok)
            => dit[c.dn] = [content |-> c.entry.content, pw |-> c.entry.pw]

PasswordsOfUsers == \A d \in Entries : Head(d).kind # User => dit[d].pw = None

ClientInv ==
    /\ ClientTypeOK
    /\ PasswordsOfUsers
    /\ \A k \in Kinds : CallSound(k) /\ Converging(k)

(* The client of kind k touches entries of its own kind, or deletes. *)
Spares(k) ==
    \A d \in DOMAIN dit' :
        Head(d).kind # k => d \in Entries /\ dit'[d] = dit[d]

-----------------------------------------------------------------------------

LEMMA WithType ==
    ASSUME ClientTypeOK, NEW d \in DN, NEW e \in Stored
    PROVE  /\ DOMAIN With(d, e) = Entries \cup {d}
           /\ With(d, e) \in [DOMAIN With(d, e) -> Stored]
           /\ DOMAIN With(d, e) \subseteq DN
           /\ With(d, e)[d] = e
           /\ \A x \in Entries \ {d} : With(d, e)[x] = dit[x]
BY DEF ClientTypeOK, With, Entries

LEMMA WithoutType ==
    ASSUME ClientTypeOK, NEW d
    PROVE  /\ DOMAIN Without(d) = Entries \ {d}
           /\ Without(d) \in [DOMAIN Without(d) -> Stored]
           /\ DOMAIN Without(d) \subseteq DN
           /\ \A x \in Entries \ {d} : Without(d)[x] = dit[x]
BY DEF ClientTypeOK, Without, Entries

LEMMA ModifiedContent ==
    ASSUME NEW old \in Content, NEW found \in Content, NEW desired \in Content
    PROVE  LET new == [opt |-> OptModified(old.opt, found.opt, desired.opt),
                       req |-> ReqModified(old.req, found.req, desired.req)]
           IN  new \in Content /\ (old = found => new = desired)
BY DEF Content, OptModified, ReqModified

LEMMA SuffixOfItself ==
    ASSUME NEW S, NEW d \in Seq(S)
    PROVE  IsSuffix(d, d)
<1>1. Reverse(d) \in Seq(S)
  BY DEF Reverse
<1>2. QED
  BY <1>1, LenProperties DEF IsSuffix, IsPrefix

-----------------------------------------------------------------------------
(* A step of client k that spares the others' entries and leaves its own     *)
(* call sound preserves the invariant.                                       *)

LEMMA OneClientMoves ==
    ASSUME ClientInv, NEW k \in Kinds, NEW c \in Call,
           call' = [call EXCEPT ![k] = c], Spares(k),
           ClientTypeOK', PasswordsOfUsers', CallSound(k)', Converging(k)'
    PROVE  ClientInv'
<1>1. ASSUME NEW j \in Kinds, j # k
      PROVE  CallSound(j)' /\ Converging(j)'
  <2>1. call'[j] = call[j]
    BY <1>1 DEF ClientInv, ClientTypeOK
  <2>2. CallSound(j)'
    BY <2>1 DEF ClientInv, CallSound
  <2>3. ASSUME call[j].entry # None, call[j].dn \in Entries'
        PROVE  call[j].dn \in Entries /\ dit'[call[j].dn] = dit[call[j].dn]
    <3>1. call[j].step # "idle" => Head(call[j].dn).kind = j
      BY DEF ClientInv, CallSound
    <3>2. CASE call[j].step # "idle"
      BY <1>1, <2>3, <3>1, <3>2 DEF Spares, Entries
    <3>3. CASE call[j].step = "idle"
      BY <2>3, <3>3 DEF ClientInv, CallSound
    <3>4. QED
      BY <3>2, <3>3
  <2>4. Converging(j)'
    BY <2>1, <2>3 DEF ClientInv, Converging
  <2>5. QED
    BY <2>2, <2>4
<1>2. QED
  BY <1>1 DEF ClientInv

LEMMA GotoType ==
    ASSUME ClientInv, NEW k \in Kinds, call[k].step # "idle",
           NEW step \in Steps, Goto(k, step)
    PROVE  /\ call' \in [Kinds -> Call]
           /\ call' = [call EXCEPT ![k] = call'[k]]
           /\ call'[k] \in Call
           /\ call'[k].step = step /\ call'[k].dn = call[k].dn
           /\ call'[k].entry = call[k].entry
<1>1. <<>> \in Seq(Frame)
  OBVIOUS
<1>2. QED
  BY <1>1 DEF ClientInv, ClientTypeOK, Goto, Becomes, Call

LEMMA ReturnType ==
    ASSUME ClientInv, NEW k \in Kinds, call[k].step # "idle",
           NEW created \in BOOLEAN, NEW ok \in BOOLEAN, Return(k, created, ok)
    PROVE  /\ call' \in [Kinds -> Call]
           /\ call' = [call EXCEPT ![k] = call'[k]]
           /\ call'[k] \in Call
           /\ call'[k].step = "returned" /\ call'[k].dn = call[k].dn
           /\ call'[k].entry = call[k].entry /\ call'[k].ok = ok
<1>1. <<>> \in Seq(Frame) /\ "returned" \in Steps
  BY DEF Steps
<1>2. QED
  BY <1>1 DEF ClientInv, ClientTypeOK, Return, Becomes, Call

(* Where dit stays as it is. *)
LEMMA Unchanged ==
    ASSUME ClientInv, NEW k \in Kinds, UNCHANGED dit
    PROVE  /\ Spares(k) /\ PasswordsOfUsers'
           /\ DOMAIN dit' \subseteq DN
           /\ dit' \in [DOMAIN dit' -> Stored]
BY DEF ClientInv, ClientTypeOK, Spares, PasswordsOfUsers, Entries

LEMMA FailStep ==
    ASSUME ClientInv, NEW k \in Kinds, Fail(k), call[k].step # "idle",
           Spares(k), PasswordsOfUsers',
           DOMAIN dit' \subseteq DN, dit' \in [DOMAIN dit' -> Stored],
           faults' \in 0 .. MaxFaults
    PROVE  ClientInv'
<1>1. Return(k, FALSE, FALSE)
  BY DEF Fail
<1>2. /\ call' \in [Kinds -> Call] /\ call'[k] \in Call
      /\ call' = [call EXCEPT ![k] = call'[k]]
      /\ call'[k].step = "returned" /\ call'[k].dn = call[k].dn
      /\ call'[k].entry = call[k].entry /\ call'[k].ok = FALSE
  BY <1>1, ReturnType
<1>3. ClientTypeOK'
  BY <1>2 DEF ClientTypeOK, Entries
<1>4. CallSound(k)'
  BY <1>2 DEF ClientInv, CallSound, Upserting
<1>5. Converging(k)'
  BY <1>2 DEF Converging
<1>6. QED
  BY <1>2, <1>3, <1>4, <1>5, OneClientMoves

(* An entry of the client's own kind is written, or an entry is deleted. *)
LEMMA WithStep ==
    ASSUME ClientInv, NEW k \in Kinds, NEW d \in DN, Head(d).kind = k,
           NEW e \in Stored, k # User => e.pw = None, dit' = With(d, e)
    PROVE  /\ Spares(k) /\ PasswordsOfUsers'
           /\ DOMAIN dit' \subseteq DN /\ dit' \in [DOMAIN dit' -> Stored]
           /\ DOMAIN dit' = Entries \cup {d} /\ dit'[d] = e
<1>1. ClientTypeOK
  BY DEF ClientInv
<1>2. /\ DOMAIN dit' = Entries \cup {d} /\ dit' \in [DOMAIN dit' -> Stored]
      /\ DOMAIN dit' \subseteq DN /\ dit'[d] = e
      /\ \A x \in Entries \ {d} : dit'[x] = dit[x]
  BY ZenonT(60), <1>1, WithType
<1>3. Spares(k)
  BY <1>2 DEF Spares
<1>4. PasswordsOfUsers'
  BY <1>2 DEF ClientInv, PasswordsOfUsers, Entries
<1>5. QED
  BY <1>2, <1>3, <1>4

LEMMA WithoutStep ==
    ASSUME ClientInv, NEW k \in Kinds, NEW d, dit' = Without(d)
    PROVE  /\ Spares(k) /\ PasswordsOfUsers'
           /\ DOMAIN dit' \subseteq DN /\ dit' \in [DOMAIN dit' -> Stored]
<1>1. ClientTypeOK
  BY DEF ClientInv
<1>2. QED
  BY ZenonT(60), <1>1, WithoutType DEF ClientInv, Spares, PasswordsOfUsers, Entries

-----------------------------------------------------------------------------
(* The requests of CreateOrUpdateEntry.                                    *)

LEMMA SearchStep ==
    ASSUME ClientInv, NEW k \in Kinds, Search(k)
    PROVE  ClientInv'
<1> DEFINE c    == call[k]
           hits == First(c.dn, Matches(c.dn, k, c.entry.name))
<1>1. /\ c.step = "search" /\ c.dn \in DN /\ Head(c.dn).kind = k
      /\ c.entry \in Desired /\ Wanted(k, c.entry) /\ c.entry # None
      /\ UNCHANGED <<dit, faults>>
  BY NoneAssumption DEF Search, ClientInv, CallSound, Upserting
<1>2. Spares(k) /\ PasswordsOfUsers'
  BY <1>1, Unchanged
<1>3. ASSUME call' \in [Kinds -> Call]
      PROVE  ClientTypeOK'
  BY <1>1, <1>3 DEF ClientInv, ClientTypeOK, Entries
(* The entry that was found is the entry itself, or the entry does not exist. *)
<1>4. ASSUME NEW d \in hits, c.entry.name = Head(c.dn).name, c.dn \in Entries
      PROVE  d = c.dn
  <2>1. IsSuffix(c.dn, c.dn)
    BY <1>1, SuffixOfItself DEF DN
  <2>2. Head(c.dn) \in RDN
    BY <1>1, HeadTailProperties DEF DN
  <2>3. Head(c.dn) = [kind |-> k, name |-> c.entry.name]
    BY <1>1, <1>4, <2>2 DEF RDN
  <2>4. c.dn \in Matches(c.dn, k, c.entry.name)
    BY <1>4, <2>1, <2>3 DEF Matches
  <2>5. QED
    BY <1>4, <2>4 DEF First
<1>5. CASE hits = {} /\ Goto(k, "add")
  <2>1. /\ call' \in [Kinds -> Call] /\ call'[k] \in Call
        /\ call' = [call EXCEPT ![k] = call'[k]]
        /\ call'[k].step = "add" /\ call'[k].dn = c.dn /\ call'[k].entry = c.entry
    BY <1>1, <1>5, GotoType DEF Steps
  <2>2. CallSound(k)' /\ Converging(k)'
    BY <1>1, <2>1 DEF CallSound, Converging, Upserting
  <2>3. QED
    BY <1>2, <1>3, <2>1, <2>2, OneClientMoves
<1>6. ASSUME NEW d \in hits
      PROVE  dit[d] \in Stored /\ dit[d].content \in Content
  BY <1>6 DEF First, Matches, ClientInv, ClientTypeOK, Stored
<1>7. ASSUME NEW d \in hits, Becomes(k, "modify", dit[d].content, <<>>, FALSE, FALSE)
      PROVE  ClientInv'
  <2>1. /\ call' \in [Kinds -> Call] /\ call'[k] \in Call
        /\ call' = [call EXCEPT ![k] = call'[k]]
        /\ call'[k].step = "modify" /\ call'[k].dn = c.dn /\ call'[k].entry = c.entry
        /\ call'[k].found = dit[d].content
    <3>1. <<>> \in Seq(Frame) /\ "modify" \in Steps
      BY DEF Steps
    <3>2. QED
      BY <1>1, <1>6, <1>7, <3>1 DEF ClientInv, ClientTypeOK, Becomes, Call
  <2>2. CallSound(k)'
    BY <1>1, <1>6, <2>1 DEF CallSound, Upserting
  <2>3. Converging(k)'
    BY <1>1, <1>4, <2>1 DEF Converging, Entries
  <2>4. QED
    BY <1>2, <1>3, <2>1, <2>2, <2>3, OneClientMoves
(* Without changes the entry already has the wanted attributes. *)
<1>8. ASSUME NEW d \in hits, ~HasChanges(dit[d].content, c.entry.content),
             c.entry.name = Head(c.dn).name, c.dn \in Entries
      PROVE  dit[c.dn] \in Stored /\ dit[c.dn].content = c.entry.content
  <2>1. d = c.dn
    BY <1>4, <1>8
  <2>2. dit[c.dn] \in Stored /\ dit[c.dn].content \in Content
    BY <1>6, <2>1
  <2>3. c.entry.content \in Content
    BY <1>1 DEF Desired
  <2>4. /\ dit[c.dn].content.opt = c.entry.content.opt
        /\ dit[c.dn].content.req = c.entry.content.req
    BY <1>8, <2>1 DEF HasChanges
  <2>5. QED
    BY <2>2, <2>3, <2>4 DEF Content
<1>9. ASSUME NEW d \in hits, ~HasChanges(dit[d].content, c.entry.content),
             k = User, Goto(k, "bind")
      PROVE  ClientInv'
  <2>1. /\ call' \in [Kinds -> Call] /\ call'[k] \in Call
        /\ call' = [call EXCEPT ![k] = call'[k]]
        /\ call'[k].step = "bind" /\ call'[k].dn = c.dn /\ call'[k].entry = c.entry
    BY <1>1, <1>9, GotoType DEF Steps
  <2>2. CallSound(k)'
    BY <1>1, <1>9, <2>1 DEF CallSound, Upserting
  <2>3. Converging(k)'
    BY <1>1, <1>8, <1>9, <2>1 DEF Converging, Entries
  <2>4. QED
    BY <1>2, <1>3, <2>1, <2>2, <2>3, OneClientMoves
<1>10. ASSUME NEW d \in hits, ~HasChanges(dit[d].content, c.entry.content),
              k # User, Return(k, FALSE, TRUE)
       PROVE  ClientInv'
  <2>1. /\ call' \in [Kinds -> Call] /\ call'[k] \in Call
        /\ call' = [call EXCEPT ![k] = call'[k]]
        /\ call'[k].step = "returned" /\ call'[k].dn = c.dn /\ call'[k].entry = c.entry
    BY <1>1, <1>10, ReturnType
  <2>2. CallSound(k)'
    BY <1>1, <2>1 DEF CallSound, Upserting
  <2>3. ASSUME c.entry.name = Head(c.dn).name, c.dn \in Entries
        PROVE  dit[c.dn] = [content |-> c.entry.content, pw |-> c.entry.pw]
    <3>1. c.entry.pw = None /\ dit[c.dn].pw = None
      BY <1>1, <1>10, <2>3 DEF Wanted, ClientInv, PasswordsOfUsers
    <3>2. QED
      BY <1>8, <1>10, <2>3, <3>1 DEF Stored
  <2>4. Converging(k)'
    BY <1>1, <2>1, <2>3 DEF Converging, Entries
  <2>5. QED
    BY <1>2, <1>3, <2>1, <2>2, <2>4, OneClientMoves
<1>11. QED
  BY <1>5, <1>7, <1>9, <1>10 DEF Search

(* The entry each request stores is the wanted one, apart from the password  *)
(* of a new user.                                                            *)
LEMMA AddEffect ==
    ASSUME ClientInv, NEW k \in Kinds, call[k].step = "add", dit' = Added(call[k])
    PROVE  /\ Spares(k) /\ PasswordsOfUsers'
           /\ DOMAIN dit' \subseteq DN /\ dit' \in [DOMAIN dit' -> Stored]
           /\ dit'[call[k].dn] = [content |-> call[k].entry.content, pw |-> None]
<1>1. call[k].dn \in DN /\ Head(call[k].dn).kind = k /\ call[k].entry \in Desired
  BY DEF ClientInv, CallSound, Upserting
<1>2. [content |-> call[k].entry.content, pw |-> None] \in Stored
  BY <1>1 DEF Desired, Stored, Secrets
<1>3. PICK d \in DN, e \in Stored :
        /\ d = call[k].dn /\ e = [content |-> call[k].entry.content, pw |-> None]
        /\ Head(d).kind = k /\ dit' = With(d, e)
  BY <1>1, <1>2 DEF Added
<1>4. Head(d).kind = k /\ dit' = With(d, e) /\ (k # User => e.pw = None)
  BY <1>3
<1>5. /\ Spares(k) /\ PasswordsOfUsers'
      /\ DOMAIN dit' \subseteq DN /\ dit' \in [DOMAIN dit' -> Stored]
      /\ dit'[d] = e
  BY <1>4, WithStep
<1>6. QED
  BY <1>3, <1>5

LEMMA ModifyEffect ==
    ASSUME ClientInv, NEW k \in Kinds, call[k].step = "modify",
           ModifyAccepted(call[k]), dit' = Modified(call[k])
    PROVE  /\ Spares(k) /\ PasswordsOfUsers'
           /\ DOMAIN dit' \subseteq DN /\ dit' \in [DOMAIN dit' -> Stored]
           /\ call[k].entry.name = Head(call[k].dn).name
              => dit'[call[k].dn].content = call[k].entry.content
           /\ dit'[call[k].dn].pw = dit[call[k].dn].pw
<1> DEFINE c   == call[k]
           old == dit[c.dn].content
           new == [opt |-> OptModified(old.opt, c.found.opt, c.entry.content.opt),
                   req |-> ReqModified(old.req, c.found.req, c.entry.content.req)]
<1>1. /\ c.dn \in DN /\ Head(c.dn).kind = k /\ c.entry \in Desired
      /\ c.found \in Content /\ c.entry # None
  BY NoneAssumption DEF ClientInv, CallSound, Upserting
<1>2. c.dn \in Entries /\ dit[c.dn] \in Stored
  BY DEF ModifyAccepted, ClientInv, ClientTypeOK
<1>3. new \in Content /\ (old = c.found => new = c.entry.content)
  BY <1>1, <1>2, ModifiedContent DEF Stored, Desired
<1>4. [content |-> new, pw |-> dit[c.dn].pw] \in Stored
  BY <1>2, <1>3 DEF Stored
<1>5. k # User => dit[c.dn].pw = None
  BY <1>1, <1>2 DEF ClientInv, PasswordsOfUsers
<1>6. c.entry.name = Head(c.dn).name => old = c.found
  BY <1>1, <1>2 DEF ClientInv, Converging
<1>7. PICK d \in DN, e \in Stored :
        /\ d = c.dn /\ e.content = new /\ e.pw = dit[c.dn].pw
        /\ Head(d).kind = k /\ dit' = With(d, e)
  BY <1>1, <1>4 DEF Modified
<1> HIDE DEF new
<1>8. Head(d).kind = k /\ dit' = With(d, e) /\ (k # User => e.pw = None)
  BY <1>5, <1>7
<1>9. /\ Spares(k) /\ PasswordsOfUsers'
      /\ DOMAIN dit' \subseteq DN /\ dit' \in [DOMAIN dit' -> Stored]
      /\ dit'[d] = e
  BY <1>8, WithStep
<1>10. QED
  BY <1>3, <1>6, <1>7, <1>9

LEMMA SetPasswordEffect ==
    ASSUME ClientInv, NEW k \in Kinds, call[k].step = "setPassword",
           SetPasswordAccepted(call[k]), dit' = PasswordSet(call[k])
    PROVE  /\ Spares(k) /\ PasswordsOfUsers'
           /\ DOMAIN dit' \subseteq DN /\ dit' \in [DOMAIN dit' -> Stored]
           /\ dit'[call[k].dn].content = dit[call[k].dn].content
           /\ dit'[call[k].dn].pw = call[k].entry.pw
           /\ dit'[call[k].dn] \in Stored
<1> DEFINE c == call[k]
<1>1. /\ c.dn \in DN /\ Head(c.dn).kind = k /\ c.entry \in Desired
      /\ c.entry # None /\ Wanted(k, c.entry)
  BY NoneAssumption DEF ClientInv, CallSound, Upserting
<1>2. c.dn \in Entries /\ dit[c.dn] \in Stored
  BY DEF SetPasswordAccepted, ClientInv, ClientTypeOK
<1>3. [content |-> dit[c.dn].content, pw |-> c.entry.pw] \in Stored
  BY <1>1, <1>2 DEF Stored, Desired
<1>4. PICK d \in DN, e \in Stored :
        /\ d = c.dn /\ e.content = dit[c.dn].content /\ e.pw = c.entry.pw
        /\ Head(d).kind = k /\ dit' = With(d, e)
  BY <1>1, <1>3 DEF PasswordSet
<1>5. Head(d).kind = k /\ dit' = With(d, e) /\ (k # User => e.pw = None)
  BY <1>1, <1>4 DEF Wanted
<1>6. /\ Spares(k) /\ PasswordsOfUsers'
      /\ DOMAIN dit' \subseteq DN /\ dit' \in [DOMAIN dit' -> Stored]
      /\ dit'[d] = e
  BY <1>5, WithStep
<1>7. QED
  BY <1>4, <1>6

(* An upsert that succeeds leaves what it promises. *)
LEMMA UpsertReturns ==
    ASSUME ClientInv, NEW k \in Kinds, call[k].step \in Upserting,
           NEW created \in BOOLEAN, Return(k, created, TRUE),
           Spares(k), PasswordsOfUsers',
           DOMAIN dit' \subseteq DN, dit' \in [DOMAIN dit' -> Stored],
           UNCHANGED faults,
           (call[k].entry.name = Head(call[k].dn).name /\ call[k].dn \in DOMAIN dit')
             => dit'[call[k].dn] = [content |-> call[k].entry.content, pw |-> call[k].entry.pw]
    PROVE  ClientInv'
<1>1. call[k].step # "idle"
  BY DEF Upserting
<1>2. /\ call' \in [Kinds -> Call] /\ call'[k] \in Call
      /\ call' = [call EXCEPT ![k] = call'[k]]
      /\ call'[k].step = "returned" /\ call'[k].dn = call[k].dn
      /\ call'[k].entry = call[k].entry
  BY <1>1, ReturnType
<1>3. ClientTypeOK'
  BY <1>2 DEF ClientInv, ClientTypeOK, Entries
<1>4. CallSound(k)'
  BY <1>1, <1>2 DEF ClientInv, CallSound, Upserting
<1>5. Converging(k)'
  BY <1>2 DEF Converging, Entries
<1>6. QED
  BY <1>2, <1>3, <1>4, <1>5, OneClientMoves

(* A refused request ends the call and changes nothing. *)
LEMMA RefusedStep ==
    ASSUME ClientInv, NEW k \in Kinds, call[k].step # "idle",
           Fail(k), UNCHANGED <<dit, faults>>
    PROVE  ClientInv'
<1>1. faults' \in 0 .. MaxFaults
  BY DEF ClientInv, ClientTypeOK
<1>2. QED
  BY <1>1, Unchanged, FailStep

LEMMA AddStep ==
    ASSUME ClientInv, NEW k \in Kinds, Add(k)
    PROVE  ClientInv'
<1> DEFINE c == call[k]
<1>1. /\ c.step = "add" /\ c.dn \in DN /\ Head(c.dn).kind = k
      /\ c.entry \in Desired /\ Wanted(k, c.entry) /\ c.entry # None
      /\ UNCHANGED faults
  BY NoneAssumption DEF Add, ClientInv, CallSound, Upserting
<1>2. CASE Fail(k) /\ UNCHANGED dit
  BY <1>1, <1>2, RefusedStep
<1>3. CASE dit' = Added(c)
  <2>1. /\ Spares(k) /\ PasswordsOfUsers'
        /\ DOMAIN dit' \subseteq DN /\ dit' \in [DOMAIN dit' -> Stored]
        /\ dit'[c.dn] = [content |-> c.entry.content, pw |-> None]
    BY <1>1, <1>3, AddEffect
  <2>2. CASE c.entry.pw # None /\ Becomes(k, "setPassword", None, <<>>, TRUE, FALSE)
    <3>1. <<>> \in Seq(Frame) /\ "setPassword" \in Steps
      BY DEF Steps
    <3>2. /\ call' \in [Kinds -> Call] /\ call'[k] \in Call
          /\ call' = [call EXCEPT ![k] = call'[k]]
          /\ call'[k].step = "setPassword" /\ call'[k].dn = c.dn
          /\ call'[k].entry = c.entry
      BY <2>2, <3>1 DEF ClientInv, ClientTypeOK, Becomes, Call
    <3>3. ClientTypeOK'
      BY <1>1, <2>1, <3>2 DEF ClientInv, ClientTypeOK, Entries
    <3>4. CallSound(k)'
      BY <1>1, <2>2, <3>2 DEF CallSound, Upserting
    <3>5. Converging(k)'
      BY <2>1, <3>2 DEF Converging
    <3>6. QED
      BY <2>1, <3>2, <3>3, <3>4, <3>5, OneClientMoves
  <2>3. CASE c.entry.pw = None /\ Return(k, TRUE, TRUE)
    <3>1. c.step \in Upserting
      BY <1>1 DEF Upserting
    <3>2. dit'[c.dn] = [content |-> c.entry.content, pw |-> c.entry.pw]
      BY <2>1, <2>3
    <3>3. QED
      BY <1>1, <2>1, <2>3, <3>1, <3>2, UpsertReturns
  <2>4. QED
    BY <1>2, <2>2, <2>3 DEF Add
<1>4. QED
  BY <1>2, <1>3 DEF Add

LEMMA ModifyStep ==
    ASSUME ClientInv, NEW k \in Kinds, Modify(k)
    PROVE  ClientInv'
<1> DEFINE c == call[k]
<1>1. /\ c.step = "modify" /\ c.dn \in DN /\ Head(c.dn).kind = k
      /\ c.entry \in Desired /\ Wanted(k, c.entry) /\ c.entry # None
      /\ UNCHANGED faults
  BY NoneAssumption DEF Modify, ClientInv, CallSound, Upserting
<1>2. CASE Fail(k) /\ UNCHANGED dit
  BY <1>1, <1>2, RefusedStep
<1>3. CASE ModifyAccepted(c) /\ dit' = Modified(c)
  <2>1. /\ Spares(k) /\ PasswordsOfUsers'
        /\ DOMAIN dit' \subseteq DN /\ dit' \in [DOMAIN dit' -> Stored]
        /\ c.entry.name = Head(c.dn).name => dit'[c.dn].content = c.entry.content
        /\ dit'[c.dn].pw = dit[c.dn].pw
    BY <1>1, <1>3, ModifyEffect
  <2>2. CASE k = User /\ Goto(k, "bind")
    <3>1. /\ call' \in [Kinds -> Call] /\ call'[k] \in Call
          /\ call' = [call EXCEPT ![k] = call'[k]]
          /\ call'[k].step = "bind" /\ call'[k].dn = c.dn /\ call'[k].entry = c.entry
      BY <1>1, <2>2, GotoType DEF Steps
    <3>2. ClientTypeOK'
      BY <1>1, <2>1, <3>1 DEF ClientInv, ClientTypeOK, Entries
    <3>3. CallSound(k)'
      BY <1>1, <2>2, <3>1 DEF CallSound, Upserting
    <3>4. Converging(k)'
      BY <2>1, <3>1 DEF Converging
    <3>5. QED
      BY <2>1, <3>1, <3>2, <3>3, <3>4, OneClientMoves
  <2>3. CASE k # User /\ Return(k, FALSE, TRUE)
    <3>1. c.step \in Upserting
      BY <1>1 DEF Upserting
    <3>2. c.dn \in Entries /\ dit[c.dn].pw = None /\ c.entry.pw = None
      BY <1>1, <1>3, <2>3 DEF ModifyAccepted, Wanted, ClientInv, PasswordsOfUsers
    <3>3. (c.entry.name = Head(c.dn).name /\ c.dn \in DOMAIN dit')
          => dit'[c.dn] = [content |-> c.entry.content, pw |-> c.entry.pw]
      BY <2>1, <3>2 DEF Stored
    <3>4. QED
      BY <1>1, <2>1, <2>3, <3>1, <3>3, UpsertReturns
  <2>4. QED
    BY <1>2, <2>2, <2>3 DEF Modify
<1>4. QED
  BY <1>2, <1>3 DEF Modify

LEMMA BindStep ==
    ASSUME ClientInv, NEW k \in Kinds, Bind(k)
    PROVE  ClientInv'
<1> DEFINE c == call[k]
<1>1. /\ c.step = "bind" /\ c.dn \in DN /\ Head(c.dn).kind = k
      /\ c.entry \in Desired /\ Wanted(k, c.entry) /\ c.entry # None
      /\ UNCHANGED <<dit, faults>>
  BY NoneAssumption DEF Bind, ClientInv, CallSound, Upserting
<1>2. /\ Spares(k) /\ PasswordsOfUsers'
      /\ DOMAIN dit' \subseteq DN /\ dit' \in [DOMAIN dit' -> Stored]
  BY <1>1, Unchanged
<1>3. CASE Fail(k)
  BY <1>1, <1>3, RefusedStep
<1>4. CASE BindSucceeds(c) /\ Return(k, FALSE, TRUE)
  <2>1. c.step \in Upserting
    BY <1>1 DEF Upserting
  <2>2. c.dn \in Entries /\ dit[c.dn] \in Stored /\ dit[c.dn].pw = c.entry.pw
    BY <1>4 DEF BindSucceeds, ClientInv, ClientTypeOK
  <2>3. c.entry.name = Head(c.dn).name => dit[c.dn].content = c.entry.content
    BY <1>1, <2>2 DEF ClientInv, Converging
  <2>4. (c.entry.name = Head(c.dn).name /\ c.dn \in DOMAIN dit')
        => dit'[c.dn] = [content |-> c.entry.content, pw |-> c.entry.pw]
    BY <1>1, <2>2, <2>3 DEF Stored
  <2>5. QED
    BY <1>1, <1>2, <1>4, <2>1, <2>4, UpsertReturns
<1>5. CASE c.entry.pw # None /\ Goto(k, "setPassword")
  <2>1. /\ call' \in [Kinds -> Call] /\ call'[k] \in Call
        /\ call' = [call EXCEPT ![k] = call'[k]]
        /\ call'[k].step = "setPassword" /\ call'[k].dn = c.dn
        /\ call'[k].entry = c.entry
    BY <1>1, <1>5, GotoType DEF Steps
  <2>2. ClientTypeOK'
    BY <1>1, <2>1 DEF ClientInv, ClientTypeOK, Entries
  <2>3. CallSound(k)'
    BY <1>1, <1>5, <2>1 DEF CallSound, Upserting
  <2>4. Converging(k)'
    BY <1>1, <2>1 DEF ClientInv, Converging, Entries
  <2>5. QED
    BY <1>2, <2>1, <2>2, <2>3, <2>4, OneClientMoves
<1>6. QED
  BY <1>3, <1>4, <1>5 DEF Bind

LEMMA SetPasswordStep ==
    ASSUME ClientInv, NEW k \in Kinds, SetPassword(k)
    PROVE  ClientInv'
<1> DEFINE c == call[k]
<1>1. /\ c.step = "setPassword" /\ c.dn \in DN /\ c.entry # None
      /\ c.created \in BOOLEAN /\ UNCHANGED faults
  BY NoneAssumption
  DEF SetPassword, ClientInv, ClientTypeOK, Call, CallSound, Upserting
<1>2. CASE Fail(k) /\ UNCHANGED dit
  BY <1>1, <1>2, RefusedStep
<1>3. CASE /\ SetPasswordAccepted(c) /\ dit' = PasswordSet(c)
           /\ Return(k, c.created, TRUE)
  <2>1. /\ Spares(k) /\ PasswordsOfUsers'
        /\ DOMAIN dit' \subseteq DN /\ dit' \in [DOMAIN dit' -> Stored]
        /\ dit'[c.dn].content = dit[c.dn].content
        /\ dit'[c.dn].pw = c.entry.pw /\ dit'[c.dn] \in Stored
    BY <1>1, <1>3, SetPasswordEffect
  <2>2. c.step \in Upserting /\ c.dn \in Entries
    BY <1>1, <1>3 DEF Upserting, SetPasswordAccepted
  <2>3. c.entry.name = Head(c.dn).name => dit[c.dn].content = c.entry.content
    BY <1>1, <2>2 DEF ClientInv, Converging
  <2>4. (c.entry.name = Head(c.dn).name /\ c.dn \in DOMAIN dit')
        => dit'[c.dn] = [content |-> c.entry.content, pw |-> c.entry.pw]
    BY <2>1, <2>3 DEF Stored
  <2>5. QED
    BY <1>1, <1>3, <2>1, <2>2, <2>4, UpsertReturns
<1>4. QED
  BY <1>2, <1>3 DEF SetPassword

-----------------------------------------------------------------------------
(* DeleteEntry.                                                            *)

(* A call that goes on deleting, or has deleted, promises nothing to upserts. *)
LEMMA DeletionContinues ==
    ASSUME ClientInv, NEW k \in Kinds, call[k].step = "delete",
           NEW frames \in Seq(Frame), Becomes(k, "delete", None, frames, FALSE, FALSE),
           Spares(k), PasswordsOfUsers',
           DOMAIN dit' \subseteq DN, dit' \in [DOMAIN dit' -> Stored],
           UNCHANGED faults
    PROVE  ClientInv'
<1>1. /\ call[k].dn \in DN /\ Head(call[k].dn).kind = k /\ call[k].entry = None
  BY DEF ClientInv, CallSound
<1>2. "delete" \in Steps
  BY DEF Steps
<1>3. /\ call' \in [Kinds -> Call] /\ call'[k] \in Call
      /\ call' = [call EXCEPT ![k] = call'[k]]
      /\ call'[k].step = "delete" /\ call'[k].dn = call[k].dn
      /\ call'[k].entry = call[k].entry
  BY <1>2 DEF ClientInv, ClientTypeOK, Becomes, Call
<1>4. ClientTypeOK'
  BY <1>3 DEF ClientInv, ClientTypeOK, Entries
<1>5. CallSound(k)'
  BY <1>1, <1>3 DEF CallSound, Upserting
<1>6. Converging(k)'
  BY <1>1, <1>3 DEF Converging
<1>7. QED
  BY <1>3, <1>4, <1>5, <1>6, OneClientMoves

LEMMA EnteredType ==
    ASSUME ClientTypeOK, NEW k \in Kinds, call[k].dn \in DN,
           NEW d \in Unvisited(call[k])
    PROVE  Entered(call[k].frames, d) \in Seq(Frame)
<1> DEFINE frames == call[k].frames
<1>1. frames \in Seq(Frame)
  BY DEF ClientTypeOK, Call
<1>2. frames # <<>> => Head(frames) \in Frame /\ Tail(frames) \in Seq(Frame)
  BY <1>1, HeadTailProperties
<1>3. d \in DN
  BY <1>2 DEF Unvisited, Frame
<1>4. Children(d) \in SUBSET DN
  BY DEF Children, Entries, ClientTypeOK
<1>5. [dn |-> d, kids |-> Children(d)] \in Frame
  BY <1>3, <1>4 DEF Frame
<1>6. frames # <<>> => [dn |-> Head(frames).dn, kids |-> Head(frames).kids \ {d}] \in Frame
  BY <1>2 DEF Frame
<1>7. QED
  BY <1>2, <1>5, <1>6 DEF Entered

LEMMA DeleteSearchStep ==
    ASSUME ClientInv, NEW k \in Kinds, DeleteSearch(k)
    PROVE  ClientInv'
<1>1. call[k].step = "delete" /\ call[k].dn \in DN /\ UNCHANGED <<dit, faults>>
  BY DEF DeleteSearch, ClientInv, CallSound
<1>2. PICK d \in Unvisited(call[k]) :
        Becomes(k, "delete", None, Entered(call[k].frames, d), FALSE, FALSE)
  BY DEF DeleteSearch
<1>3. Entered(call[k].frames, d) \in Seq(Frame)
  BY <1>1, EnteredType DEF ClientInv
<1>4. PICK frames \in Seq(Frame) : Becomes(k, "delete", None, frames, FALSE, FALSE)
  BY <1>2, <1>3
<1>5. QED
  BY <1>1, <1>4, Unchanged, DeletionContinues

LEMMA DeleteReturns ==
    ASSUME ClientInv, NEW k \in Kinds, call[k].step = "delete",
           Return(k, FALSE, TRUE), Spares(k), PasswordsOfUsers',
           DOMAIN dit' \subseteq DN, dit' \in [DOMAIN dit' -> Stored],
           UNCHANGED faults
    PROVE  ClientInv'
<1>1. call[k].dn \in DN /\ Head(call[k].dn).kind = k /\ call[k].entry = None
  BY DEF ClientInv, CallSound
<1>2. /\ call' \in [Kinds -> Call] /\ call'[k] \in Call
      /\ call' = [call EXCEPT ![k] = call'[k]]
      /\ call'[k].step = "returned" /\ call'[k].dn = call[k].dn
      /\ call'[k].entry = call[k].entry
  BY ReturnType
<1>3. ClientTypeOK'
  BY <1>2 DEF ClientInv, ClientTypeOK, Entries
<1>4. CallSound(k)'
  BY <1>1, <1>2 DEF CallSound, Upserting
<1>5. Converging(k)'
  BY <1>1, <1>2 DEF Converging
<1>6. QED
  BY <1>2, <1>3, <1>4, <1>5, OneClientMoves

LEMMA DeletedEffect ==
    ASSUME ClientInv, NEW k \in Kinds, dit' = Deleted(call[k])
    PROVE  /\ Spares(k) /\ PasswordsOfUsers'
           /\ DOMAIN dit' \subseteq DN /\ dit' \in [DOMAIN dit' -> Stored]
<1>1. PICK d : dit' = Without(d)
  BY DEF Deleted
<1>2. QED
  BY <1>1, WithoutStep

LEMMA DeleteRequestStep ==
    ASSUME ClientInv, NEW k \in Kinds, DeleteRequest(k)
    PROVE  ClientInv'
<1> DEFINE c == call[k]
<1>1. c.step = "delete" /\ Unvisited(c) = {} /\ UNCHANGED faults
  BY DEF DeleteRequest
<1>2. c.frames \in Seq(Frame) /\ c.frames # <<>>
  BY <1>1 DEF Unvisited, ClientInv, ClientTypeOK, Call
<1>3. CASE Fail(k) /\ UNCHANGED dit
  BY <1>1, <1>3, RefusedStep
<1>4. CASE dit' = Deleted(c)
  <2>1. /\ Spares(k) /\ PasswordsOfUsers'
        /\ DOMAIN dit' \subseteq DN /\ dit' \in [DOMAIN dit' -> Stored]
    BY <1>4, DeletedEffect
  <2>2. CASE Return(k, FALSE, TRUE)
    BY <1>1, <2>1, <2>2, DeleteReturns
  <2>3. CASE Becomes(k, "delete", None, Tail(c.frames), FALSE, FALSE)
    <3>1. Tail(c.frames) \in Seq(Frame)
      BY <1>2, HeadTailProperties
    <3>2. PICK frames \in Seq(Frame) : Becomes(k, "delete", None, frames, FALSE, FALSE)
      BY <2>3, <3>1
    <3>3. QED
      BY <1>1, <2>1, <3>2, DeletionContinues
  <2>4. QED
    BY <1>3, <2>2, <2>3 DEF DeleteRequest
<1>5. QED
  BY <1>3, <1>4 DEF DeleteRequest

-----------------------------------------------------------------------------
(* Failures, and the caller's side.                                        *)

LEMMA RequestFailsStep ==
    ASSUME ClientInv, NEW k \in Kinds, RequestFails(k)
    PROVE  ClientInv'
<1>1. faults' \in 0 .. MaxFaults
  BY MaxFaultsAssumption DEF RequestFails, ClientInv, ClientTypeOK
<1>2. call[k].step # "idle" /\ Fail(k) /\ UNCHANGED dit
  BY DEF RequestFails
<1>3. QED
  BY <1>1, <1>2, Unchanged, FailStep

LEMMA ReplyLostStep ==
    ASSUME ClientInv, NEW k \in Kinds, ReplyLost(k)
    PROVE  ClientInv'
<1> DEFINE c == call[k]
<1>1. faults' \in 0 .. MaxFaults
  BY MaxFaultsAssumption DEF ReplyLost, ClientInv, ClientTypeOK
<1>2. Fail(k) /\ c.step # "idle"
  BY DEF ReplyLost
<1>3. /\ Spares(k) /\ PasswordsOfUsers'
      /\ DOMAIN dit' \subseteq DN /\ dit' \in [DOMAIN dit' -> Stored]
  <2>1. CASE c.step = "add" /\ dit' = Added(c)
    BY <2>1, AddEffect
  <2>2. CASE c.step = "modify" /\ ModifyAccepted(c) /\ dit' = Modified(c)
    BY <2>2, ModifyEffect
  <2>3. CASE c.step = "setPassword" /\ SetPasswordAccepted(c) /\ dit' = PasswordSet(c)
    BY <2>3, SetPasswordEffect
  <2>4. CASE dit' = Deleted(c)
    BY <2>4, DeletedEffect
  <2>5. QED
    BY <2>1, <2>2, <2>3, <2>4 DEF ReplyLost
<1>4. QED
  BY <1>1, <1>2, <1>3, FailStep

LEMMA ClientStepSound ==
    ASSUME ClientInv, NEW k \in Kinds, ClientStep(k)
    PROVE  ClientInv'
<1>1. CASE Request(k)
  BY <1>1, SearchStep, AddStep, ModifyStep, BindStep, SetPasswordStep,
     DeleteSearchStep, DeleteRequestStep DEF Request, UpsertUser, UpsertEntry, Deletion
<1>2. QED
  BY <1>1, RequestFailsStep, ReplyLostStep DEF ClientStep

LEMMA NewCallType ==
    ASSUME NEW step \in Steps, NEW d \in Seq(RDN), NEW entry \in Desired \cup {None},
           NEW frames \in Seq(Frame)
    PROVE  NewCall(step, d, entry, frames) \in Call
BY DEF NewCall, Call

LEMMA CallStarts ==
    ASSUME ClientInv, NEW k \in Kinds, NEW c \in Call,
           call' = [call EXCEPT ![k] = c], UNCHANGED <<dit, faults>>,
           c.step = "idle" => c.entry = None,
           c.step # "idle" => c.dn \in DN /\ Head(c.dn).kind = k,
           c.step \in {"idle", "search", "delete"},
           c.step = "search" => c.entry \in Desired /\ Wanted(k, c.entry),
           c.step = "delete" => c.entry = None
    PROVE  ClientInv'
<1>1. call'[k] = c /\ call' \in [Kinds -> Call]
  BY DEF ClientInv, ClientTypeOK
<1>2. ClientTypeOK'
  BY <1>1 DEF ClientInv, ClientTypeOK, Entries
<1>3. CallSound(k)'
  BY <1>1 DEF CallSound, Upserting
<1>4. Converging(k)'
  BY <1>1 DEF Converging
<1>5. QED
  BY <1>2, <1>3, <1>4, Unchanged, OneClientMoves

LEMMA CallUpsertStep ==
    ASSUME ClientInv, NEW k \in Kinds, NEW d \in DN, Head(d).kind = k,
           NEW entry \in Desired, Wanted(k, entry), CallUpsert(k, d, entry)
    PROVE  ClientInv'
<1> DEFINE c == NewCall("search", d, entry, <<>>)
<1>1. <<>> \in Seq(Frame) /\ "search" \in Steps /\ d \in Seq(RDN)
  BY DEF Steps, DN
<1>2. c \in Call
  BY <1>1 DEF NewCall, Call
<1>3. c.step = "search" /\ c.dn = d /\ c.entry = entry
  BY DEF NewCall
<1>4. call' = [call EXCEPT ![k] = c] /\ UNCHANGED <<dit, faults>>
  BY DEF CallUpsert
<1> HIDE DEF c
<1>5. QED
  BY <1>2, <1>3, <1>4, CallStarts

LEMMA CallDeleteStep ==
    ASSUME ClientInv, NEW k \in Kinds, NEW d \in DN, Head(d).kind = k,
           NEW cascading \in BOOLEAN, CallDelete(k, d, cascading)
    PROVE  ClientInv'
<1> DEFINE frames == IF cascading THEN <<>> ELSE <<[dn |-> d, kids |-> {}]>>
           c      == NewCall("delete", d, None, frames)
<1>1. frames \in Seq(Frame)
  <2>1. [dn |-> d, kids |-> {}] \in Frame
    BY DEF Frame
  <2>2. QED
    BY <2>1
<1>2. "delete" \in Steps /\ d \in Seq(RDN)
  BY DEF Steps, DN
<1>3. call' = [call EXCEPT ![k] = c] /\ UNCHANGED <<dit, faults>>
  BY DEF CallDelete
<1> HIDE DEF frames
<1>4. c \in Call
  BY <1>1, <1>2 DEF NewCall, Call
<1>5. c.step = "delete" /\ c.dn = d /\ c.entry = None
  BY DEF NewCall
<1> HIDE DEF c
<1>6. QED
  BY <1>3, <1>4, <1>5, CallStarts

LEMMA CollectStep ==
    ASSUME ClientInv, NEW k \in Kinds, Collect(k)
    PROVE  ClientInv'
<1>1. "idle" \in Steps /\ <<>> \in Seq(RDN) /\ <<>> \in Seq(Frame)
  BY DEF Steps
<1>2. NoCall \in Call
  BY <1>1 DEF NoCall, NewCall, Call
<1>3. NoCall.step = "idle" /\ NoCall.entry = None
  BY DEF NoCall, NewCall
<1>4. call' = [call EXCEPT ![k] = NoCall] /\ UNCHANGED <<dit, faults>>
  BY DEF Collect
<1>5. QED
  BY <1>2, <1>3, <1>4, CallStarts

LEMMA ClientInitSound ==
    ASSUME ClientInit
    PROVE  ClientInv
<1>1. "idle" \in Steps /\ <<>> \in Seq(RDN) /\ <<>> \in Seq(Frame)
  BY DEF Steps
<1>2. NoCall \in Call /\ NoCall.step = "idle" /\ NoCall.entry = None
  BY <1>1 DEF NoCall, NewCall, Call
<1>3. Entries = {}
  BY DEF ClientInit, Entries
<1>4. ClientTypeOK
  BY <1>2, <1>3, MaxFaultsAssumption DEF ClientInit, ClientTypeOK, Entries
<1>5. ASSUME NEW k \in Kinds
      PROVE  CallSound(k) /\ Converging(k)
  BY <1>2 DEF ClientInit, CallSound, Converging, Upserting
<1>6. QED
  BY <1>3, <1>4, <1>5 DEF ClientInv, PasswordsOfUsers

-----------------------------------------------------------------------------
(* What a deletion may rely on: slapd refuses orphans, so the tree is closed *)
(* under ancestors, and the entry at the bottom of the walk is the one       *)
(* DeleteEntry was asked to delete.                                          *)

(* Every ancestor of an entry is an entry. *)
Rooted == \A d \in Entries, e \in DN : IsSuffix(e, d) => e \in Entries

(* The outermost frame is the call's; what was deleted stays deleted. *)
Deleting(k) ==
    LET c == call[k] IN
    /\ (c.step = "delete" /\ c.frames # <<>>)
         => c.frames[Len(c.frames)].dn = c.dn
    /\ (c.step = "returned" /\ c.ok /\ c.entry = None) => c.dn \notin Entries

DeletionInv == Rooted /\ \A k \in Kinds : Deleting(k)

-----------------------------------------------------------------------------
(* Suffixes.                                                               *)

LEMMA ReverseProperties ==
    ASSUME NEW S, NEW s \in Seq(S)
    PROVE  /\ Reverse(s) \in Seq(S)
           /\ Len(Reverse(s)) = Len(s)
           /\ \A i \in 1 .. Len(s) : Reverse(s)[i] = s[Len(s) - i + 1]
<1>1. Len(s) \in Nat /\ \A i \in 1 .. Len(s) : s[Len(s) - i + 1] \in S
  BY LenProperties
<1>2. Reverse(s) \in [1 .. Len(s) -> S]
  BY <1>1 DEF Reverse
<1>3. Reverse(s) \in Seq(S)
  BY <1>1, <1>2, SeqDef
<1>4. QED
  BY <1>1, <1>2, <1>3, LenProperties DEF Reverse

LEMMA SuffixByIndex ==
    ASSUME NEW S, NEW e \in Seq(S), NEW d \in Seq(S)
    PROVE  IsSuffix(e, d) <=>
             /\ Len(e) <= Len(d)
             /\ \A i \in 1 .. Len(e) : e[i] = d[i + Len(d) - Len(e)]
<1> DEFINE a == Reverse(e)
           b == Reverse(d)
           m == Len(e)
           n == Len(d)
<1>1. m \in Nat /\ n \in Nat
  BY LenProperties
<1>2. /\ a \in Seq(S) /\ Len(a) = m /\ \A i \in 1 .. m : a[i] = e[m - i + 1]
      /\ b \in Seq(S) /\ Len(b) = n /\ \A i \in 1 .. n : b[i] = d[n - i + 1]
  BY ReverseProperties
<1>3. ASSUME m <= n
      PROVE  SubSeq(a, 1, m) = SubSeq(b, 1, m) <=> \A i \in 1 .. m : a[i] = b[i]
  <2>1. (\A i \in 1 .. m : a[i] \in S) /\ (\A i \in 1 .. m : b[i] \in S)
    BY <1>1, <1>2, <1>3, LenProperties
  <2>2. /\ SubSeq(a, 1, m) \in Seq(S) /\ Len(SubSeq(a, 1, m)) = m
        /\ \A i \in 1 .. m : SubSeq(a, 1, m)[i] = a[i]
    BY <1>1, <2>1, SubSeqProperties
  <2>3. /\ SubSeq(b, 1, m) \in Seq(S) /\ Len(SubSeq(b, 1, m)) = m
        /\ \A i \in 1 .. m : SubSeq(b, 1, m)[i] = b[i]
    BY <1>1, <2>1, SubSeqProperties
  <2>4. QED
    BY <2>2, <2>3, SeqEqual
<1>4. ASSUME m <= n
      PROVE  (\A i \in 1 .. m : a[i] = b[i])
               <=> \A i \in 1 .. m : e[i] = d[i + n - m]
  <2>1. ASSUME \A i \in 1 .. m : a[i] = b[i], NEW i \in 1 .. m
        PROVE  e[i] = d[i + n - m]
    <3>1. m - i + 1 \in 1 .. m /\ m - i + 1 \in 1 .. n
      BY <1>1, <1>4
    <3>2. a[m - i + 1] = b[m - i + 1]
      BY <2>1, <3>1
    <3>3. a[m - i + 1] = e[m - (m - i + 1) + 1] /\ b[m - i + 1] = d[n - (m - i + 1) + 1]
      BY <1>2, <3>1
    <3>4. m - (m - i + 1) + 1 = i /\ n - (m - i + 1) + 1 = i + n - m
      BY <1>1
    <3>5. QED
      BY <3>2, <3>3, <3>4
  <2>2. ASSUME \A i \in 1 .. m : e[i] = d[i + n - m], NEW i \in 1 .. m
        PROVE  a[i] = b[i]
    <3>1. m - i + 1 \in 1 .. m /\ i \in 1 .. n
      BY <1>1, <1>4
    <3>2. a[i] = e[m - i + 1] /\ b[i] = d[n - i + 1]
      BY <1>2, <3>1
    <3>3. e[m - i + 1] = d[(m - i + 1) + n - m]
      BY <2>2, <3>1
    <3>4. (m - i + 1) + n - m = n - i + 1
      BY <1>1
    <3>5. QED
      BY <3>2, <3>3, <3>4
  <2>3. QED
    BY <2>1, <2>2
<1>5. QED
  BY <1>2, <1>3, <1>4 DEF IsSuffix, IsPrefix

(* A suffix is the whole or a suffix of the tail. *)
LEMMA SuffixOfTail ==
    ASSUME NEW S, NEW e \in Seq(S), NEW d \in Seq(S), d # <<>>, IsSuffix(e, d), e # d
    PROVE  IsSuffix(e, Tail(d))
<1> DEFINE m == Len(e)
           n == Len(d)
<1>1. /\ m \in Nat /\ n \in Nat /\ m <= n
      /\ \A i \in 1 .. m : e[i] = d[i + n - m]
  BY SuffixByIndex, LenProperties
<1>2. /\ Tail(d) \in Seq(S) /\ Len(Tail(d)) = n - 1
      /\ \A i \in 1 .. n - 1 : Tail(d)[i] = d[i + 1]
  BY HeadTailProperties
<1>3. m # n
  <2>1. SUFFICES ASSUME m = n PROVE FALSE
    OBVIOUS
  <2>2. \A i \in 1 .. m : e[i] = d[i]
    BY <1>1, <2>1
  <2>3. QED
    BY <2>1, <2>2, SeqEqual
<1>4. ASSUME NEW i \in 1 .. m
      PROVE  e[i] = Tail(d)[i + (n - 1) - m]
  <2>1. i + (n - 1) - m \in 1 .. n - 1 /\ (i + (n - 1) - m) + 1 = i + n - m
    BY <1>1, <1>3
  <2>2. QED
    BY <1>1, <1>2, <2>1
<1>5. m <= n - 1
  BY <1>1, <1>3
<1>6. QED
  BY <1>2, <1>4, <1>5, SuffixByIndex

(* Below a proper suffix there is a suffix one longer. *)
LEMMA LongerSuffix ==
    ASSUME NEW S, NEW e \in Seq(S), NEW d \in Seq(S), IsSuffix(e, d), e # d
    PROVE  \E x \in Seq(S) : x # <<>> /\ Tail(x) = e /\ IsSuffix(x, d)
<1> DEFINE m == Len(e)
           n == Len(d)
           x == SubSeq(d, n - m, n)
<1>1. /\ m \in Nat /\ n \in Nat /\ m <= n
      /\ \A i \in 1 .. m : e[i] = d[i + n - m]
  BY SuffixByIndex, LenProperties
<1>2. m < n
  <2>1. SUFFICES ASSUME m = n PROVE FALSE
    BY <1>1
  <2>2. \A i \in 1 .. m : e[i] = d[i]
    BY <1>1, <2>1
  <2>3. QED
    BY <2>1, <2>2, SeqEqual
<1>3. /\ x \in Seq(S) /\ Len(x) = m + 1
      /\ \A i \in 1 .. m + 1 : x[i] = d[n - m + i - 1]
  <2>1. \A i \in n - m .. n : d[i] \in S
    BY <1>1, <1>2, LenProperties
  <2>2. /\ x \in Seq(S) /\ Len(x) = IF n - m <= n THEN n - (n - m) + 1 ELSE 0
        /\ \A i \in 1 .. n - (n - m) + 1 : x[i] = d[n - m + i - 1]
    BY <1>1, <2>1, SubSeqProperties
  <2>3. n - (n - m) + 1 = m + 1 /\ n - m <= n
    BY <1>1
  <2>4. QED
    BY <2>2, <2>3
<1> HIDE DEF x
<1>4. x # <<>>
  BY <1>1, <1>3
<1>5. Tail(x) = e
  <2>1. /\ Tail(x) \in Seq(S) /\ Len(Tail(x)) = m
        /\ \A i \in 1 .. m : Tail(x)[i] = x[i + 1]
    BY <1>1, <1>3, <1>4, HeadTailProperties
  <2>2. ASSUME NEW i \in 1 .. m
        PROVE  Tail(x)[i] = e[i]
    <3>1. i + 1 \in 1 .. m + 1 /\ n - m + (i + 1) - 1 = i + n - m
      BY <1>1
    <3>2. QED
      BY <1>1, <1>3, <2>1, <3>1
  <2>3. QED
    BY <2>1, <2>2, SeqEqual
<1>6. IsSuffix(x, d)
  <2>1. ASSUME NEW i \in 1 .. Len(x)
        PROVE  x[i] = d[i + n - Len(x)]
    BY <1>1, <1>3, <2>1
  <2>2. Len(x) <= n
    BY <1>1, <1>2, <1>3
  <2>3. QED
    BY <1>3, <2>1, <2>2, SuffixByIndex
<1>7. QED
  BY <1>3, <1>4, <1>5, <1>6

-----------------------------------------------------------------------------
(* The tree stays rooted.                                                  *)

LEMMA RootedAdd ==
    ASSUME ClientInv, Rooted, NEW k \in Kinds, call[k].step = "add",
           AddAccepted(call[k]), dit' = Added(call[k])
    PROVE  Rooted'
<1>1. PICK d \in DN : d = call[k].dn
  BY DEF ClientInv, CallSound
<1>2. Entries' = Entries \cup {d}
  BY <1>1 DEF Added, With, Entries
<1>3. d \in Seq(RDN) /\ d # <<>> /\ Tail(d) \in Entries \cup {<<>>}
  BY <1>1 DEF DN, AddAccepted
<1>4. ASSUME NEW e \in DN, IsSuffix(e, d), e # d
      PROVE  e \in Entries
  <2>1. e \in Seq(RDN) /\ e # <<>>
    BY DEF DN
  <2>2. IsSuffix(e, Tail(d))
    BY <1>3, <1>4, <2>1, SuffixOfTail
  <2>3. Tail(d) # <<>>
    <3>1. SUFFICES ASSUME Tail(d) = <<>> PROVE FALSE
      OBVIOUS
    <3>2. Tail(d) \in Seq(RDN) /\ Len(Tail(d)) = 0
      BY <1>3, <3>1, HeadTailProperties, EmptySeq
    <3>3. Len(e) <= 0
      BY <2>1, <2>2, <3>2, SuffixByIndex
    <3>4. QED
      BY <2>1, <3>3, LenProperties, EmptySeq
  <2>4. QED
    BY <1>3, <2>2, <2>3 DEF Rooted
<1>5. QED
  BY <1>2, <1>4 DEF Rooted

LEMMA RootedDelete ==
    ASSUME ClientInv, Rooted, NEW k \in Kinds,
           DelAccepted(call[k]), dit' = Deleted(call[k])
    PROVE  Rooted'
<1>1. PICK d : d = Head(call[k].frames).dn
  OBVIOUS
<1>2. Entries' = Entries \ {d} /\ Children(d) = {}
  BY <1>1 DEF Deleted, Without, Entries, DelAccepted
<1>3. SUFFICES ASSUME NEW x \in Entries, NEW e \in DN, IsSuffix(e, x), e = d, x # d
               PROVE  FALSE
  BY <1>2 DEF Rooted
<1>4. e \in Seq(RDN) /\ x \in Seq(RDN)
  BY <1>3 DEF DN, ClientInv, ClientTypeOK
<1>5. PICK y \in Seq(RDN) : y # <<>> /\ Tail(y) = e /\ IsSuffix(y, x)
  BY <1>3, <1>4, LongerSuffix
<1>6. y \in Entries
  BY <1>3, <1>5 DEF Rooted, DN
<1>7. QED
  BY <1>2, <1>3, <1>5, <1>6 DEF Children

LEMMA RootedKept ==
    ASSUME Rooted, Entries' = Entries
    PROVE  Rooted'
BY DEF Rooted

LEMMA ModifyKeeps ==
    ASSUME NEW k \in Kinds, ModifyAccepted(call[k]), dit' = Modified(call[k])
    PROVE  Entries' = Entries
BY DEF ModifyAccepted, Modified, With, Entries

LEMMA SetPasswordKeeps ==
    ASSUME NEW k \in Kinds, SetPasswordAccepted(call[k]), dit' = PasswordSet(call[k])
    PROVE  Entries' = Entries
BY DEF SetPasswordAccepted, PasswordSet, With, Entries

-----------------------------------------------------------------------------
(* A step of one client, seen by the deletions of the others.              *)

LEMMA OneDeletes ==
    ASSUME ClientInv, DeletionInv, NEW k \in Kinds,
           call' = [call EXCEPT ![k] = call'[k]],
           Spares(k), Rooted', Deleting(k)'
    PROVE  DeletionInv'
<1>1. ASSUME NEW j \in Kinds, j # k
      PROVE  Deleting(j)'
  <2>1. call'[j] = call[j]
    BY <1>1 DEF ClientInv, ClientTypeOK
  <2>2. call[j].step # "idle" => Head(call[j].dn).kind = j
    BY DEF ClientInv, CallSound
  <2>3. Deleting(j)
    BY DEF DeletionInv
  <2>4. CASE call[j].step = "returned" /\ call[j].ok /\ call[j].entry = None
    <3>1. call[j].dn \notin Entries'
      BY <1>1, <2>2, <2>3, <2>4 DEF Deleting, Spares, Entries
    <3>2. QED
      BY <2>1, <2>4, <3>1 DEF Deleting
  <2>5. CASE ~(call[j].step = "returned" /\ call[j].ok /\ call[j].entry = None)
    BY <2>1, <2>3, <2>5 DEF Deleting
  <2>6. QED
    BY <2>4, <2>5
<1>2. QED
  BY <1>1 DEF DeletionInv

(* A call that becomes anything but a deletion, or a failed one. *)
LEMMA NoDeletion ==
    ASSUME NEW k \in Kinds, call'[k].step # "delete",
           call'[k].step = "returned" => (~call'[k].ok \/ call'[k].entry # None)
    PROVE  Deleting(k)'
BY DEF Deleting

LEMMA BecomesFields ==
    ASSUME ClientInv, NEW k \in Kinds,
           NEW step, NEW found, NEW frames, NEW created, NEW ok,
           Becomes(k, step, found, frames, created, ok)
    PROVE  /\ call' = [call EXCEPT ![k] = call'[k]]
           /\ call'[k].step = step /\ call'[k].dn = call[k].dn
           /\ call'[k].entry = call[k].entry /\ call'[k].frames = frames
           /\ call'[k].ok = ok
BY DEF ClientInv, ClientTypeOK, Becomes

LEMMA FailDeletes ==
    ASSUME ClientInv, DeletionInv, NEW k \in Kinds, Fail(k), Spares(k), Rooted'
    PROVE  DeletionInv'
<1>1. /\ call' = [call EXCEPT ![k] = call'[k]]
      /\ call'[k].step = "returned" /\ call'[k].ok = FALSE
  BY DEF ClientInv, ClientTypeOK, Fail, Return, Becomes
<1>2. QED
  BY <1>1, NoDeletion, OneDeletes

(* A request of an upsert. *)
LEMMA UpsertDeletes ==
    ASSUME ClientInv, DeletionInv, NEW k \in Kinds, call[k].step \in Upserting,
           NEW step \in Upserting \cup {"returned"}, NEW found, NEW created, NEW ok,
           Becomes(k, step, found, <<>>, created, ok),
           Spares(k), Rooted'
    PROVE  DeletionInv'
<1>1. call[k].entry # None
  BY NoneAssumption DEF ClientInv, CallSound
<1>2. /\ call' = [call EXCEPT ![k] = call'[k]]
      /\ call'[k].step = step /\ call'[k].entry = call[k].entry
  BY DEF ClientInv, ClientTypeOK, Becomes
<1>3. call'[k].step # "delete"
  BY <1>2 DEF Upserting
<1>4. QED
  BY <1>1, <1>2, <1>3, NoDeletion, OneDeletes

-----------------------------------------------------------------------------
(* The requests.                                                           *)

LEMMA SearchDeletes ==
    ASSUME ClientInv, DeletionInv, NEW k \in Kinds, Search(k)
    PROVE  DeletionInv'
<1>1. call[k].step \in Upserting /\ UNCHANGED dit
  BY DEF Search, Upserting
<1>2. Spares(k) /\ Rooted'
  BY <1>1, Unchanged, RootedKept DEF DeletionInv, Entries
<1>3. \/ Becomes(k, "add", None, <<>>, FALSE, FALSE)
      \/ \E found : Becomes(k, "modify", found, <<>>, FALSE, FALSE)
      \/ Becomes(k, "bind", None, <<>>, FALSE, FALSE)
      \/ Becomes(k, "returned", None, <<>>, FALSE, TRUE)
  BY DEF Search, Goto, Return
<1>4. "add" \in Upserting /\ "modify" \in Upserting /\ "bind" \in Upserting
  BY DEF Upserting
<1>5. QED
  BY <1>1, <1>2, <1>3, <1>4, UpsertDeletes

LEMMA AddDeletes ==
    ASSUME ClientInv, DeletionInv, NEW k \in Kinds, Add(k)
    PROVE  DeletionInv'
<1>1. call[k].step = "add" /\ call[k].step \in Upserting /\ "setPassword" \in Upserting
  BY DEF Add, Upserting
<1>2. CASE Fail(k) /\ UNCHANGED dit
  BY <1>2, Unchanged, RootedKept, FailDeletes DEF DeletionInv, Entries
<1>3. CASE AddAccepted(call[k]) /\ dit' = Added(call[k]) /\ ~Fail(k)
  <2>1. Spares(k)
    BY <1>1, <1>3, AddEffect
  <2>2. Rooted'
    BY <1>1, <1>3, RootedAdd DEF DeletionInv
  <2>3. \/ Becomes(k, "setPassword", None, <<>>, TRUE, FALSE)
        \/ Becomes(k, "returned", None, <<>>, TRUE, TRUE)
    BY <1>3 DEF Add, Return
  <2>4. QED
    BY <1>1, <2>1, <2>2, <2>3, UpsertDeletes
<1>4. CASE AddAccepted(call[k]) /\ dit' = Added(call[k]) /\ Fail(k)
  BY <1>1, <1>4, AddEffect, RootedAdd, FailDeletes DEF DeletionInv
<1>5. QED
  BY <1>2, <1>3, <1>4 DEF Add

LEMMA ModifyDeletes ==
    ASSUME ClientInv, DeletionInv, NEW k \in Kinds, Modify(k)
    PROVE  DeletionInv'
<1>1. /\ call[k].step = "modify" /\ call[k].step \in Upserting
      /\ "bind" \in Upserting
  BY DEF Modify, Upserting
<1>2. CASE Fail(k) /\ UNCHANGED dit
  BY <1>2, Unchanged, RootedKept, FailDeletes DEF DeletionInv, Entries
<1>3. CASE ModifyAccepted(call[k]) /\ dit' = Modified(call[k])
  <2>1. Spares(k) /\ Rooted'
    BY <1>1, <1>3, ModifyEffect, ModifyKeeps, RootedKept DEF DeletionInv
  <2>2. CASE \/ Becomes(k, "bind", None, <<>>, FALSE, FALSE)
             \/ Becomes(k, "returned", None, <<>>, FALSE, TRUE)
    BY <1>1, <2>1, <2>2, UpsertDeletes
  <2>3. QED
    BY <1>2, <2>2 DEF Modify, Goto, Return
<1>4. QED
  BY <1>2, <1>3 DEF Modify

LEMMA BindDeletes ==
    ASSUME ClientInv, DeletionInv, NEW k \in Kinds, Bind(k)
    PROVE  DeletionInv'
<1>1. /\ call[k].step \in Upserting /\ "setPassword" \in Upserting
      /\ UNCHANGED dit
  BY DEF Bind, Upserting
<1>2. Spares(k) /\ Rooted'
  BY <1>1, Unchanged, RootedKept DEF DeletionInv, Entries
<1>3. CASE Fail(k)
  BY <1>2, <1>3, FailDeletes
<1>4. CASE \/ Becomes(k, "setPassword", None, <<>>, FALSE, FALSE)
           \/ Becomes(k, "returned", None, <<>>, FALSE, TRUE)
  BY <1>1, <1>2, <1>4, UpsertDeletes
<1>5. QED
  BY <1>3, <1>4 DEF Bind, Goto, Return

LEMMA SetPasswordDeletes ==
    ASSUME ClientInv, DeletionInv, NEW k \in Kinds, SetPassword(k)
    PROVE  DeletionInv'
<1>1. call[k].step = "setPassword" /\ call[k].step \in Upserting
  BY DEF SetPassword, Upserting
<1>2. CASE Fail(k) /\ UNCHANGED dit
  BY <1>2, Unchanged, RootedKept, FailDeletes DEF DeletionInv, Entries
<1>3. CASE /\ SetPasswordAccepted(call[k]) /\ dit' = PasswordSet(call[k])
           /\ Return(k, call[k].created, TRUE)
  <2>1. Spares(k) /\ Rooted'
    BY <1>1, <1>3, SetPasswordEffect, SetPasswordKeeps, RootedKept DEF DeletionInv
  <2>2. PICK created : Becomes(k, "returned", None, <<>>, created, TRUE)
    BY <1>3 DEF Return
  <2>3. QED
    BY <1>1, <2>1, <2>2, UpsertDeletes
<1>4. QED
  BY <1>2, <1>3 DEF SetPassword

LEMMA ConsProperties ==
    ASSUME NEW S, NEW x \in S, NEW t \in Seq(S)
    PROVE  /\ <<x>> \o t \in Seq(S)
           /\ Len(<<x>> \o t) = Len(t) + 1
           /\ (<<x>> \o t)[1] = x
           /\ \A i \in 1 .. Len(t) : (<<x>> \o t)[i + 1] = t[i]
<1>1. <<x>> \in Seq(S) /\ Len(<<x>>) = 1 /\ <<x>>[1] = x
  OBVIOUS
<1>2. PICK n \in Nat : n = Len(t)
  BY LenProperties
<1>3. /\ <<x>> \o t \in Seq(S) /\ Len(<<x>> \o t) = 1 + n
      /\ \A i \in 1 .. 1 + n :
            (<<x>> \o t)[i] = IF i <= 1 THEN <<x>>[i] ELSE t[i - 1]
  BY <1>1, <1>2, ConcatProperties
<1>4. (<<x>> \o t)[1] = x
  <2>1. 1 \in 1 .. 1 + n
    OBVIOUS
  <2>2. QED
    BY <1>1, <1>3, <2>1
<1>5. ASSUME NEW i \in 1 .. n
      PROVE  (<<x>> \o t)[i + 1] = t[i]
  <2>1. i + 1 \in 1 .. 1 + n /\ ~(i + 1 <= 1) /\ (i + 1) - 1 = i
    OBVIOUS
  <2>2. QED
    BY <1>3, <2>1
<1>6. QED
  BY <1>2, <1>3, <1>4, <1>5

LEMMA EnteredBottom ==
    ASSUME ClientInv, DeletionInv, NEW k \in Kinds, call[k].step = "delete",
           NEW d \in Unvisited(call[k]),
           NEW frames, frames = Entered(call[k].frames, d)
    PROVE  frames[Len(frames)].dn = call[k].dn
<1> DEFINE old == call[k].frames
<1>1. old \in Seq(Frame)
  BY DEF ClientInv, ClientTypeOK, Call
<1>len. PICK n \in Nat : n = Len(old)
  BY <1>1, LenProperties
<1>2. PICK top \in Frame : top.dn = d /\ top = [dn |-> d, kids |-> Children(d)]
  <2>1. d \in DN
    <3>1. old # <<>> => Head(old) \in Frame
      BY <1>1, HeadTailProperties
    <3>2. call[k].dn \in DN
      BY DEF ClientInv, CallSound
    <3>3. QED
      BY <3>1, <3>2 DEF Unvisited, Frame
  <2>2. Children(d) \in SUBSET DN
    BY DEF Children, Entries, ClientInv, ClientTypeOK
  <2>3. QED
    BY <2>1, <2>2 DEF Frame
<1>3. CASE old = <<>>
  <2>1. frames = <<top>> /\ d = call[k].dn
    BY <1>2, <1>3, ConcatEmptySeq DEF Entered, Unvisited
  <2>2. QED
    BY <1>2, <2>1
<1>4. CASE old # <<>>
  <2>1. /\ Head(old) \in Frame /\ Head(old) = old[1]
        /\ Tail(old) \in Seq(Frame) /\ Len(Tail(old)) = n - 1
        /\ \A i \in 1 .. n - 1 : Tail(old)[i] = old[i + 1]
    BY <1>len, <1>1, <1>4, HeadTailProperties
  <2>len. n > 0
    BY <1>len, <1>1, <1>4, EmptySeq
  <2>2. PICK below \in Frame :
          below.dn = old[1].dn /\ below = [dn |-> Head(old).dn, kids |-> Head(old).kids \ {d}]
    BY <2>1 DEF Frame
  <2>3. frames = <<top>> \o (<<below>> \o Tail(old))
    BY <1>2, <1>4, <2>2 DEF Entered
  <2>4. /\ Len(frames) = n + 1 /\ frames[2] = below
        /\ \A i \in 1 .. n - 1 : frames[i + 2] = Tail(old)[i]
    <3>1. PICK rest \in Seq(Frame) : rest = <<below>> \o Tail(old)
      BY <2>1, ConsProperties
    <3>2. Len(rest) = n /\ rest[1] = below /\ \A i \in 1 .. n - 1 : rest[i + 1] = Tail(old)[i]
      <4>1. /\ Len(rest) = Len(Tail(old)) + 1 /\ rest[1] = below
            /\ \A i \in 1 .. Len(Tail(old)) : rest[i + 1] = Tail(old)[i]
        BY <2>1, <3>1, ConsProperties
      <4>2. Len(Tail(old)) = n - 1 /\ (n - 1) + 1 = n
        BY <2>1
      <4>3. QED
        BY <4>1, <4>2
    <3>3. frames = <<top>> \o rest
      BY <2>3, <3>1
    <3>4. Len(frames) = n + 1 /\ \A i \in 1 .. n : frames[i + 1] = rest[i]
      BY <3>2, <3>3, ConsProperties
    <3>5. frames[2] = below
      <4>1. 1 \in 1 .. n /\ 1 + 1 = 2
        BY <2>len
      <4>2. QED
        BY <3>2, <3>4, <4>1
    <3>6. ASSUME NEW i \in 1 .. n - 1
          PROVE  frames[i + 2] = Tail(old)[i]
      <4>1. i + 1 \in 1 .. n /\ (i + 1) + 1 = i + 2
        OBVIOUS
      <4>2. frames[(i + 1) + 1] = rest[i + 1]
        BY <3>4, <4>1
      <4>3. QED
        BY <3>2, <4>1, <4>2
    <3>7. QED
      BY <3>4, <3>5, <3>6
  <2>5. old[n].dn = call[k].dn
    BY <1>len, <1>4 DEF DeletionInv, Deleting
  <2>6. CASE n = 1
    BY <2>2, <2>4, <2>5, <2>6
  <2>7. CASE n > 1
    <3>1. n - 1 \in 1 .. n - 1 /\ (n - 1) + 2 = n + 1 /\ (n - 1) + 1 = n
      BY <2>7
    <3>2. frames[n + 1] = old[n]
      BY <2>1, <2>4, <3>1
    <3>3. QED
      BY <2>4, <2>5, <3>2
  <2>8. QED
    BY <2>len, <2>6, <2>7
<1>5. QED
  BY <1>3, <1>4

LEMMA DeleteSearchDeletes ==
    ASSUME ClientInv, DeletionInv, NEW k \in Kinds, DeleteSearch(k)
    PROVE  DeletionInv'
<1>1. call[k].step = "delete" /\ UNCHANGED dit
  BY DEF DeleteSearch
<1>visit. PICK d \in Unvisited(call[k]) :
            Becomes(k, "delete", None, Entered(call[k].frames, d), FALSE, FALSE)
  BY DEF DeleteSearch
<1>2. PICK frames :
        /\ frames = Entered(call[k].frames, d)
        /\ Becomes(k, "delete", None, frames, FALSE, FALSE)
  BY <1>visit
<1>3. frames[Len(frames)].dn = call[k].dn
  BY <1>1, <1>2, EnteredBottom
<1>4. /\ call' = [call EXCEPT ![k] = call'[k]]
      /\ call'[k].step = "delete" /\ call'[k].dn = call[k].dn
      /\ call'[k].frames = frames
  BY <1>2 DEF ClientInv, ClientTypeOK, Becomes
<1>5. Deleting(k)'
  BY <1>3, <1>4 DEF Deleting
<1>6. QED
  BY <1>1, <1>4, <1>5, Unchanged, RootedKept, OneDeletes DEF DeletionInv, Entries

LEMMA DeleteRequestDeletes ==
    ASSUME ClientInv, DeletionInv, NEW k \in Kinds, DeleteRequest(k)
    PROVE  DeletionInv'
<1> DEFINE c == call[k]
<1>1. c.step = "delete" /\ Unvisited(c) = {}
  BY DEF DeleteRequest
<1>2. c.frames \in Seq(Frame) /\ c.frames # <<>>
  BY <1>1 DEF Unvisited, ClientInv, ClientTypeOK, Call
<1>len. PICK n \in Nat : n = Len(c.frames) /\ n > 0 /\ c.frames[n].dn = c.dn
  BY <1>1, <1>2, EmptySeq DEF DeletionInv, Deleting
<1>3. /\ Head(c.frames) = c.frames[1]
      /\ Len(Tail(c.frames)) = n - 1
      /\ \A i \in 1 .. n - 1 : Tail(c.frames)[i] = c.frames[i + 1]
  BY <1>len, <1>2, HeadTailProperties
<1>4. CASE Fail(k) /\ UNCHANGED dit
  BY <1>4, Unchanged, RootedKept, FailDeletes DEF DeletionInv, Entries
<1>5. CASE DelAccepted(c) /\ dit' = Deleted(c)
  <2>1. Spares(k) /\ Rooted'
    BY <1>5, DeletedEffect, RootedDelete DEF DeletionInv
  <2>2. CASE n = 1 /\ Return(k, FALSE, TRUE)
    <3>1. /\ call' = [call EXCEPT ![k] = call'[k]]
          /\ call'[k].step = "returned" /\ call'[k].dn = c.dn
      BY <2>2 DEF ClientInv, ClientTypeOK, Return, Becomes
    <3>2. c.dn \notin Entries'
      BY <1>len, <1>3, <1>5, <2>2 DEF Deleted, Without, Entries
    <3>3. Deleting(k)'
      BY <3>1, <3>2 DEF Deleting
    <3>4. QED
      BY <2>1, <3>1, <3>3, OneDeletes
  <2>3. CASE n # 1 /\ Becomes(k, "delete", None, Tail(c.frames), FALSE, FALSE)
    <3>1. /\ call' = [call EXCEPT ![k] = call'[k]]
          /\ call'[k].step = "delete" /\ call'[k].dn = c.dn
          /\ call'[k].frames = Tail(c.frames)
      BY <2>3 DEF ClientInv, ClientTypeOK, Becomes
    <3>2. Tail(c.frames)[n - 1] = c.frames[n]
      <4>1. n > 0 /\ n # 1
        BY <1>len, <2>3
      <4>2. n - 1 \in 1 .. n - 1 /\ (n - 1) + 1 = n
        BY <4>1
      <4>3. QED
        BY <1>3, <4>2
    <3>3. Deleting(k)'
      BY <1>len, <1>3, <3>1, <3>2 DEF Deleting
    <3>4. QED
      BY <2>1, <3>1, <3>3, OneDeletes
  <2>4. QED
    BY <1>len, <1>4, <2>2, <2>3 DEF DeleteRequest
<1>6. QED
  BY <1>4, <1>5 DEF DeleteRequest

LEMMA RequestFailsDeletes ==
    ASSUME ClientInv, DeletionInv, NEW k \in Kinds, RequestFails(k)
    PROVE  DeletionInv'
BY Unchanged, RootedKept, FailDeletes DEF RequestFails, DeletionInv, Entries

LEMMA ReplyLostDeletes ==
    ASSUME ClientInv, DeletionInv, NEW k \in Kinds, ReplyLost(k)
    PROVE  DeletionInv'
<1> DEFINE c == call[k]
<1>1. Fail(k)
  BY DEF ReplyLost
<1>2. Rooted
  BY DEF DeletionInv
<1>3. CASE c.step = "add" /\ AddAccepted(c) /\ dit' = Added(c)
  BY <1>1, <1>2, <1>3, AddEffect, RootedAdd, FailDeletes
<1>4. CASE c.step = "modify" /\ ModifyAccepted(c) /\ dit' = Modified(c)
  BY <1>1, <1>2, <1>4, ModifyEffect, ModifyKeeps, RootedKept, FailDeletes
<1>5. CASE c.step = "setPassword" /\ SetPasswordAccepted(c) /\ dit' = PasswordSet(c)
  BY <1>1, <1>2, <1>5, SetPasswordEffect, SetPasswordKeeps, RootedKept, FailDeletes
<1>6. CASE DelAccepted(c) /\ dit' = Deleted(c)
  BY <1>1, <1>2, <1>6, DeletedEffect, RootedDelete, FailDeletes
<1>7. QED
  BY <1>3, <1>4, <1>5, <1>6 DEF ReplyLost

LEMMA ClientStepDeletes ==
    ASSUME ClientInv, DeletionInv, NEW k \in Kinds, ClientStep(k)
    PROVE  DeletionInv'
<1>1. CASE Request(k)
  BY <1>1, SearchDeletes, AddDeletes, ModifyDeletes, BindDeletes, SetPasswordDeletes,
     DeleteSearchDeletes, DeleteRequestDeletes DEF Request, UpsertUser, UpsertEntry, Deletion
<1>2. QED
  BY <1>1, RequestFailsDeletes, ReplyLostDeletes DEF ClientStep

LEMMA CallUpsertDeletes ==
    ASSUME ClientInv, DeletionInv, NEW k \in Kinds, NEW d, NEW entry,
           CallUpsert(k, d, entry)
    PROVE  DeletionInv'
<1>1. /\ call' = [call EXCEPT ![k] = call'[k]]
      /\ call'[k].step = "search" /\ UNCHANGED dit
  BY DEF ClientInv, ClientTypeOK, CallUpsert, NewCall
<1>2. QED
  BY <1>1, NoDeletion, Unchanged, RootedKept, OneDeletes DEF DeletionInv, Entries

LEMMA CallDeleteDeletes ==
    ASSUME ClientInv, DeletionInv, NEW k \in Kinds, NEW d \in DN,
           NEW cascading \in BOOLEAN, CallDelete(k, d, cascading)
    PROVE  DeletionInv'
<1> DEFINE frames == IF cascading THEN <<>> ELSE <<[dn |-> d, kids |-> {}]>>
<1>1. /\ call' = [call EXCEPT ![k] = call'[k]]
      /\ call'[k].step = "delete" /\ call'[k].dn = d /\ call'[k].frames = frames
      /\ UNCHANGED dit
  BY DEF ClientInv, ClientTypeOK, CallDelete, NewCall
<1>2. frames # <<>> => frames[Len(frames)].dn = d
  OBVIOUS
<1>3. Deleting(k)'
  BY <1>1, <1>2 DEF Deleting
<1>4. QED
  BY <1>1, <1>3, Unchanged, RootedKept, OneDeletes DEF DeletionInv, Entries

LEMMA CollectDeletes ==
    ASSUME ClientInv, DeletionInv, NEW k \in Kinds, Collect(k)
    PROVE  DeletionInv'
<1>1. /\ call' = [call EXCEPT ![k] = call'[k]]
      /\ call'[k].step = "idle" /\ UNCHANGED dit
  BY DEF ClientInv, ClientTypeOK, Collect, NoCall, NewCall
<1>2. QED
  BY <1>1, NoDeletion, Unchanged, RootedKept, OneDeletes DEF DeletionInv, Entries

LEMMA DeletionInitSound ==
    ASSUME ClientInit
    PROVE  DeletionInv
BY DEF ClientInit, DeletionInv, Rooted, Deleting, Entries, NoCall, NewCall

(* What a successful cascade promises. *)
LEMMA SubtreeGone ==
    ASSUME ClientInv, DeletionInv
    PROVE  DeletedSubtreeGone
<1>1. SUFFICES ASSUME NEW k \in Kinds,
                      call[k].step = "returned", call[k].ok, call[k].entry = None,
                      NEW d \in Entries, IsSuffix(call[k].dn, d)
               PROVE  FALSE
  BY DEF DeletedSubtreeGone
<1>2. call[k].dn \in DN /\ call[k].dn \notin Entries
  BY <1>1 DEF ClientInv, CallSound, DeletionInv, Deleting
<1>3. QED
  BY <1>1, <1>2 DEF DeletionInv, Rooted

=============================================================================
