----------------------------- MODULE LDAPClient -----------------------------
(***************************************************************************)
(* The LDAP client of the operator (internal/ldap/client.go) against the   *)
(* directory information tree of slapd.                                    *)
(*                                                                         *)
(* One client serves each kind of object, because each of the three        *)
(* generic reconcilers runs one worker that builds its own clientImpl.     *)
(* The clients interleave at the granularity of an LDAP request: slapd     *)
(* executes a request atomically, and CreateOrUpdateEntry and DeleteEntry  *)
(* are sequences of requests with nothing that holds them together.        *)
(*                                                                         *)
(* Abstractions.  An attribute is a member of a small set.  "opt" stands   *)
(* for the optional attribute of the kind (description of a unit or group, *)
(* mail of a user) and "req" for the ones that are always present (member  *)
(* of a group, cn and sn of a user; of no consequence for a unit).         *)
(* connect() is part of the request that follows it.                       *)
(*                                                                         *)
(* Nothing refers to an operator named Bug...: each is a slip that could   *)
(* be made in the code of the operator after it, and breaks a property.    *)
(***************************************************************************)
EXTENDS Naturals, Sequences, SequencesExt

CONSTANTS
    Names,      \* values of the naming attribute (ou, cn, uid)
    Texts,      \* values of the other attributes
    Passwords,  \* passwords of users
    None,       \* no argument, the empty password
    MaxFaults   \* bound on failures: of requests, of replies, of the process

Unit  == "LDAPOrganizationalUnit"
Group == "LDAPGroup"
User  == "LDAPUser"
Kinds == {Unit, Group, User}

(* A distinguished name, the leaf first.  The naming context <<>> always     *)
(* exists: bootstrap.sh creates it.                                          *)
RDN == [kind : Kinds, name : Names]
DN  == Seq(RDN) \ {<<>>}

VARIABLES
    dit,    \* slapd: the entries, by distinguished name
    call,   \* the CreateOrUpdateEntry or DeleteEntry each client executes
    faults  \* how many more failures there may be

clientVars == <<dit, call, faults>>

Content == [opt : SUBSET Texts, req : Texts]
Secrets == Passwords \cup {None}
Stored  == [content : Content, pw : Secrets]

(* What a caller asks for: ldap.OrganizationalUnit, ldap.Group, ldap.User. *)
Desired == [name : Names, content : Content, pw : Secrets]

(* None is none of the values it stands in for. *)
ASSUME MaxFaultsAssumption == MaxFaults \in Nat
ASSUME NoneAssumption ==
    /\ None \notin Passwords
    /\ None \notin Content
    /\ None \notin Desired

Frame == [dn : DN, kids : SUBSET DN]

Steps == {"idle", "search", "add", "modify", "bind", "setPassword",
          "delete", "returned"}

Call == [step    : Steps,
         dn      : Seq(RDN),
         entry   : Desired \cup {None},
         found   : Content \cup {None},
         frames  : Seq(Frame),
         created : BOOLEAN,
         ok      : BOOLEAN]

NewCall(step, d, entry, frames) ==
    [step |-> step, dn |-> d, entry |-> entry, found |-> None,
     frames |-> frames, created |-> FALSE, ok |-> FALSE]

NoCall == NewCall("idle", <<>>, None, <<>>)

ClientInit ==
    /\ dit = [d \in {} |-> None]
    /\ call = [k \in Kinds |-> NoCall]
    /\ faults = MaxFaults

-----------------------------------------------------------------------------
(* slapd: what a request finds and when it is refused.                     *)

Entries     == DOMAIN dit
Children(d) == {e \in Entries : Tail(e) = d}

With(d, entry) == [e \in Entries \cup {d} |-> IF e = d THEN entry ELSE dit[e]]
Without(d)     == [e \in Entries \ {d} |-> dit[e]]

(* Entries a whole-subtree search returns for objectClass k and the name. *)
Matches(base, k, name) ==
    {d \in Entries : /\ IsSuffix(base, d)
                     /\ Head(d) = [kind |-> k, name |-> name]}

(* Entries[0]: the base itself when it matches, since slapd returns entries *)
(* in the order of their creation; some other match when it does not.       *)
First(base, matches) == IF base \in matches THEN {base} ELSE matches

AddAccepted(c) ==
    /\ c.dn \notin Entries
    /\ Tail(c.dn) \in Entries \cup {<<>>}
    /\ Head(c.dn).name = c.entry.name

BugAddedAtParent(c) == With(Tail(c.dn), [content |-> c.entry.content, pw |-> None])

Added(c) == With(c.dn, [content |-> c.entry.content, pw |-> None])

(* optionalAttributeModifications: the change is chosen from what the search *)
(* returned and applied to what is stored by then.                           *)
OptAccepted(stored, found, desired) ==
    IF desired = {} THEN found # {} => stored # {}
                    ELSE found = {} => stored \cap desired = {}

OptModified(stored, found, desired) ==
    IF desired = {} THEN (IF found # {} THEN {} ELSE stored)
                    ELSE (IF found = {} THEN stored \cup desired ELSE desired)

BugReqKept(stored, found, desired) == IF found = desired THEN desired ELSE stored

ReqModified(stored, found, desired) == IF found # desired THEN desired ELSE stored

BugNeverRemoved(found, desired) == desired.opt # {} \/ found.req # desired.req

(* len(modifyRequest.Changes) > 0: an optional attribute that is wanted and *)
(* present is always replaced, even by itself.                              *)
HasChanges(found, desired) ==
    \/ desired.opt # {} \/ found.opt # {}
    \/ found.req # desired.req

ModifyAccepted(c) ==
    /\ c.dn \in Entries
    /\ OptAccepted(dit[c.dn].content.opt, c.found.opt, c.entry.content.opt)

Modified(c) ==
    LET old == dit[c.dn].content
        new == [opt |-> OptModified(old.opt, c.found.opt, c.entry.content.opt),
                req |-> ReqModified(old.req, c.found.req, c.entry.content.req)]
    IN  With(c.dn, [content |-> new, pw |-> dit[c.dn].pw])

SetPasswordAccepted(c) == c.dn \in Entries
PasswordSet(c) == With(c.dn, [content |-> dit[c.dn].content, pw |-> c.entry.pw])

(* NoSuchObject counts as deleted; an entry with children is refused. *)
DelAccepted(c) == Children(Head(c.frames).dn) = {}
Deleted(c)     == Without(Head(c.frames).dn)

-----------------------------------------------------------------------------
(* Control of a call.                                                      *)

Becomes(k, step, found, frames, created, ok) ==
    call' = [call EXCEPT ![k] =
               [step |-> step, dn |-> call[k].dn, entry |-> call[k].entry,
                found |-> found, frames |-> frames, created |-> created, ok |-> ok]]

Goto(k, step)          == Becomes(k, step, None, <<>>, FALSE, FALSE)
Return(k, created, ok) == Becomes(k, "returned", None, <<>>, created, ok)

BugErrorIgnored(k) ==   \* that of a deletion
    Return(k, FALSE, call[k].step = "delete")

Fail(k)                == Return(k, FALSE, FALSE)

(* CreateOrUpdateEntry(entry), entry.DistinguishedName = d. *)
CallUpsert(k, d, entry) ==
    /\ call[k].step = "idle"
    /\ call' = [call EXCEPT ![k] = NewCall("search", d, entry, <<>>)]
    /\ UNCHANGED <<dit, faults>>

(* DeleteEntry(d, cascading): without cascading the entry's children are not *)
(* listed, as if they had all been visited.                                  *)
CallDelete(k, d, cascading) ==
    /\ call[k].step = "idle"
    /\ LET frames == IF cascading THEN <<>> ELSE <<[dn |-> d, kids |-> {}]>>
       IN  call' = [call EXCEPT ![k] = NewCall("delete", d, None, frames)]
    /\ UNCHANGED <<dit, faults>>

(* The caller takes the result. *)
Collect(k) ==
    /\ call[k].step = "returned"
    /\ call' = [call EXCEPT ![k] = NoCall]
    /\ UNCHANGED <<dit, faults>>

-----------------------------------------------------------------------------
(* CreateOrUpdateEntry, one action per request.                            *)

Search(k) ==
    LET c == call[k]
        hits == First(c.dn, Matches(c.dn, k, c.entry.name))
    IN  /\ c.step = "search"
        /\ \/ /\ hits = {}
              /\ Goto(k, "add")
           \/ \E d \in hits :
                LET found == dit[d].content IN
                \/ /\ HasChanges(found, c.entry.content)
                   /\ Becomes(k, "modify", found, <<>>, FALSE, FALSE)
                \/ /\ ~HasChanges(found, c.entry.content)
                   /\ k = User
                   /\ Goto(k, "bind")
                \/ /\ ~HasChanges(found, c.entry.content)
                   /\ k # User
                   /\ Return(k, FALSE, TRUE)
        /\ UNCHANGED <<dit, faults>>

(* Only users have a password; it is set by a request of its own. *)
Add(k) ==
    LET c == call[k] IN
    /\ c.step = "add"
    /\ \/ /\ AddAccepted(c)
          /\ dit' = Added(c)
          /\ IF c.entry.pw # None
             THEN Becomes(k, "setPassword", None, <<>>, TRUE, FALSE)
             ELSE Return(k, TRUE, TRUE)
       \/ /\ ~AddAccepted(c)
          /\ Fail(k)
          /\ UNCHANGED dit
    /\ UNCHANGED faults

Modify(k) ==
    LET c == call[k] IN
    /\ c.step = "modify"
    /\ \/ /\ ModifyAccepted(c)
          /\ dit' = Modified(c)
          /\ IF k = User THEN Goto(k, "bind") ELSE Return(k, FALSE, TRUE)
       \/ /\ ~ModifyAccepted(c)
          /\ Fail(k)
          /\ UNCHANGED dit
    /\ UNCHANGED faults

(* The password is compared by binding as the user.  go-ldap refuses to bind *)
(* with an empty password; a missing entry and an entry without a password   *)
(* are InvalidCredentials.                                                   *)
BindSucceeds(c) == c.dn \in Entries /\ dit[c.dn].pw = c.entry.pw

Bind(k) ==
    LET c == call[k] IN
    /\ c.step = "bind"
    /\ \/ /\ c.entry.pw = None
          /\ Fail(k)
       \/ /\ c.entry.pw # None /\ BindSucceeds(c)
          /\ Return(k, FALSE, TRUE)
       \/ /\ c.entry.pw # None /\ ~BindSucceeds(c)
          /\ Goto(k, "setPassword")
    /\ UNCHANGED <<dit, faults>>

SetPassword(k) ==
    LET c == call[k] IN
    /\ c.step = "setPassword"
    /\ \/ /\ SetPasswordAccepted(c)
          /\ dit' = PasswordSet(c)
          /\ Return(k, c.created, TRUE)
       \/ /\ ~SetPasswordAccepted(c)
          /\ Fail(k)
          /\ UNCHANGED dit
    /\ UNCHANGED faults

(* DeleteEntry: a depth-first walk over the children each search returned.  *)
Unvisited(c) == IF c.frames = <<>> THEN {c.dn} ELSE Head(c.frames).kids

BugVisitedAgain(frames, d) == <<[dn |-> d, kids |-> Children(d)]>> \o frames

Entered(frames, d) ==
    <<[dn |-> d, kids |-> Children(d)]>>
      \o IF frames = <<>> THEN <<>>
         ELSE <<[dn |-> Head(frames).dn, kids |-> Head(frames).kids \ {d}]>>
                \o Tail(frames)

DeleteSearch(k) ==
    LET c == call[k] IN
    /\ c.step = "delete"
    /\ \E d \in Unvisited(c) :
          Becomes(k, "delete", None, Entered(c.frames, d), FALSE, FALSE)
    /\ UNCHANGED <<dit, faults>>

DeleteRequest(k) ==
    LET c == call[k] IN
    /\ c.step = "delete"
    /\ Unvisited(c) = {}
    /\ \/ /\ DelAccepted(c)
          /\ dit' = Deleted(c)
          /\ IF Len(c.frames) = 1
             THEN Return(k, FALSE, TRUE)
             ELSE Becomes(k, "delete", None, Tail(c.frames), FALSE, FALSE)
       \/ /\ ~DelAccepted(c)
          /\ Fail(k)
          /\ UNCHANGED dit
    /\ UNCHANGED faults

(* slapd cannot be reached or answers with another error. *)
RequestFails(k) ==
    /\ call[k].step \notin {"idle", "returned"}
    /\ faults > 0
    /\ faults' = faults - 1
    /\ Fail(k)
    /\ UNCHANGED dit

(* slapd executes the request and the answer does not arrive in five seconds. *)
ReplyLost(k) ==
    LET c == call[k] IN
    /\ faults > 0
    /\ faults' = faults - 1
    /\ \/ c.step = "add" /\ AddAccepted(c) /\ dit' = Added(c)
       \/ c.step = "modify" /\ ModifyAccepted(c) /\ dit' = Modified(c)
       \/ c.step = "setPassword" /\ SetPasswordAccepted(c) /\ dit' = PasswordSet(c)
       \/ /\ c.step = "delete" /\ Unvisited(c) = {}
          /\ DelAccepted(c) /\ dit' = Deleted(c)
    /\ Fail(k)

(* Units and groups, users, and DeleteEntry. *)
UpsertEntry(k) == Search(k) \/ Add(k) \/ Modify(k)
UpsertUser(k)  == UpsertEntry(k) \/ Bind(k) \/ SetPassword(k)
Deletion(k)    == DeleteSearch(k) \/ DeleteRequest(k)

Request(k) == UpsertUser(k) \/ Deletion(k)

ClientStep(k) == Request(k) \/ RequestFails(k) \/ ReplyLost(k)

-----------------------------------------------------------------------------
(* What the mappers of internal/mapper/mapper.go can ask for: one value of   *)
(* the optional attribute at most, and a password for users only.            *)
Wanted(k, entry) ==
    /\ \A t, u \in entry.content.opt : t = u
    /\ k # User => entry.pw = None

-----------------------------------------------------------------------------
(* Properties.                                                             *)

(* Every variable keeps its type. *)
ClientTypeOK ==
    /\ Entries \subseteq DN
    /\ dit \in [Entries -> Stored]
    /\ call \in [Kinds -> Call]
    /\ faults \in 0 .. MaxFaults

(* A CreateOrUpdateEntry that reports success has converged: whatever was    *)
(* stored before, whatever failed in earlier calls and whatever the other    *)
(* clients delete meanwhile, the entry is gone or has exactly the wanted     *)
(* attributes, and a user the wanted password (the search, modify, bind and  *)
(* password requests of lines 188-230, 268-316 and 356-440).                 *)
UpsertConverged ==
    \A k \in Kinds :
        LET c == call[k] IN
        (/\ c.step = "returned" /\ c.ok
         /\ c.entry # None
         /\ c.entry.name = Head(c.dn).name
         /\ c.dn \in Entries)
        => dit[c.dn] = [content |-> c.entry.content, pw |-> c.entry.pw]

(* A cascading DeleteEntry that reports success has left nothing at or below *)
(* its entry, though the other clients may add children between its searches *)
(* and its deletions (lines 122-149).                                        *)
DeletedSubtreeGone ==
    \A k \in Kinds :
        LET c == call[k] IN
        (c.step = "returned" /\ c.ok /\ c.entry = None)
        => \A d \in Entries : ~IsSuffix(c.dn, d)

(* Every call returns: the recursion of DeleteEntry visits the children its  *)
(* searches returned, however many are added meanwhile.                      *)
CallReturns ==
    \A k \in Kinds : call[k].step # "idle" ~> call[k].step = "returned"

(* "Password is an optional password for this user" (types.go:65): the      *)
(* upsert of a user without one, whose entry exists and none of whose        *)
(* requests failed, succeeds.                                                *)
PasswordOptional ==
    \A k \in Kinds :
        LET c == call[k] IN
        (/\ c.step = "returned"
         /\ c.entry # None
         /\ c.entry.pw = None
         /\ c.entry.name = Head(c.dn).name
         /\ c.dn \in Entries
         /\ faults = MaxFaults)
        => c.ok

=============================================================================
