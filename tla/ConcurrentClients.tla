------------------------- MODULE ConcurrentClients -------------------------
(***************************************************************************)
(* The three LDAP clients against one directory, called with anything a    *)
(* reconciler of their kind may ask for, in any order.                     *)
(***************************************************************************)
EXTENDS LDAPClient

CONSTANT Targets  \* distinguished names the callers use

ASSUME TargetsAssumption == \A d \in Targets : d \in DN

(* The kind of an object decides its RDN. *)
Calls(k) ==
    \E d \in Targets :
       /\ Head(d).kind = k
       /\ \/ \E entry \in Desired : Wanted(k, entry) /\ CallUpsert(k, d, entry)
          \/ \E cascading \in BOOLEAN : CallDelete(k, d, cascading)

Next == \E k \in Kinds : Calls(k) \/ ClientStep(k) \/ Collect(k)

(* A goroutine that executes a call keeps running; nobody has to call. *)
Spec ==
    /\ ClientInit /\ [][Next]_clientVars
    /\ \A k \in Kinds : WF_clientVars(Request(k))

=============================================================================
