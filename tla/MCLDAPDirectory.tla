-------------------------- MODULE MCLDAPDirectory ---------------------------
(***************************************************************************)
(* How often the environment of LDAPDirectory acts.                        *)
(***************************************************************************)
EXTENDS LDAPDirectory

CONSTANTS i1, i2, v1, v2

(* One edit changes the image, another one the volume claim templates. *)
MCSpecs == {[image |-> i1, volumes |-> v1], [image |-> i2, volumes |-> v1],
            [image |-> i1, volumes |-> v2]}

lifetime == [e \in Events |-> IF e = "create" THEN 2 ELSE 1]
unready  == [e \in Events |-> IF e \in {"create", "unready"} THEN 1 ELSE 0]

=============================================================================
