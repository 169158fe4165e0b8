---------------------------- MODULE MCLDAPObject ----------------------------
(***************************************************************************)
(* Small clusters for LDAPObject: which objects there are, the specs their *)
(* user may give them, and how often the environment acts.                 *)
(***************************************************************************)
EXTENDS LDAPObject, TLC

CONSTANTS t1, t2, p1, p2, s1, s2

MCNames == {"a", "b"}
plain   == [opt |-> {}, req |-> t1]

spec(parent, secretRef) ==
    [parent |-> parent, name |-> "a", content |-> plain, secretRef |-> secretRef]

Interchangeable == Permutations({p1, p2})

(* A unit and a user in it. *)
UserObjects == {"ou", "u"}
UserKinds   == [ou |-> Unit, u |-> User]
UserSpecs   == [ou |-> {spec(None, None)}, u |-> {spec("ou", s1)}]

(* A unit and a group in it. *)
GroupObjects == {"ou", "g"}
GroupKinds   == [ou |-> Unit, g |-> Group]
GroupSpecs   == [ou |-> {spec(None, None)}, g |-> {spec("ou", None)}]

(* The same, or the group below something that is no LDAP object. *)
StraySpecs == [GroupSpecs EXCEPT !["g"] = @ \cup {spec(Foreign, None)}]

(* A user on its own. *)
SoloUser      == {"u"}
SoloUserKinds == [u |-> User]
SoloUserSpecs == [u |-> {spec(None, s1)}]

(* The same with another attribute and secret, renamed, or moved below itself. *)
ChangedSpecs == [u |-> {spec(None, s1), spec("u", s1),
                        [spec(None, s2) EXCEPT !.content.req = t2],
                        [spec(None, s1) EXCEPT !.name = "b"]}]

Up     == {[uid |-> 0, phase |-> "Ready"]}
Anyhow == {[uid |-> 0, phase |-> "Ready"], [uid |-> 0, phase |-> "Pending"], None}

NoEvents == [e \in Events |-> 0]
provisioning == [NoEvents EXCEPT !["create"] = 2, !["directory"] = 2, !["secret"] = 1]
deletion     == [NoEvents EXCEPT !["create"] = 2, !["delete"] = 2]
failures     == [NoEvents EXCEPT !["create"] = 3, !["delete"] = 1]

losses       == [NoEvents EXCEPT !["create"] = 1, !["directoryLoss"] = 1,
                    !["secretLoss"] = 1, !["delete"] = 1]
changes      == [losses EXCEPT !["create"] = 2, !["edit"] = 2, !["resync"] = 1]
outage       == [NoEvents EXCEPT !["create"] = 1, !["directory"] = 2]

=============================================================================
