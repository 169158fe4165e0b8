---------------------- MODULE ConcurrentClients_proofs ----------------------
(***************************************************************************)
(* Concurrent clients keep every upsert's promise, for every set of names, *)
(* texts, passwords and targets and any number of failures.                *)
(***************************************************************************)
EXTENDS ConcurrentClients, LDAPClient_proofs

LEMMA CallsSound ==
    ASSUME ClientInv, NEW k \in Kinds, Calls(k)
    PROVE  ClientInv'
<1>1. PICK d \in Targets :
        /\ Head(d).kind = k
        /\ \/ \E entry \in Desired : Wanted(k, entry) /\ CallUpsert(k, d, entry)
           \/ \E cascading \in BOOLEAN : CallDelete(k, d, cascading)
  BY DEF Calls
<1>2. d \in DN
  BY TargetsAssumption
<1>3. ASSUME NEW entry \in Desired, Wanted(k, entry), CallUpsert(k, d, entry)
      PROVE  ClientInv'
  BY <1>1, <1>2, <1>3, CallUpsertStep
<1>4. ASSUME NEW cascading \in BOOLEAN, CallDelete(k, d, cascading)
      PROVE  ClientInv'
  BY <1>1, <1>2, <1>4, CallDeleteStep
<1>5. QED
  BY <1>1, <1>3, <1>4

LEMMA Stutters ==
    ASSUME ClientInv, UNCHANGED clientVars
    PROVE  ClientInv'
<1>1. ClientTypeOK' /\ PasswordsOfUsers'
  BY DEF clientVars, ClientInv, ClientTypeOK, PasswordsOfUsers, Entries
<1>2. ASSUME NEW k \in Kinds
      PROVE  CallSound(k)' /\ Converging(k)'
  BY DEF clientVars, ClientInv, CallSound, Converging, Entries
<1>3. QED
  BY <1>1, <1>2 DEF ClientInv

THEOREM ClientInvariant == Spec => []ClientInv
<1>1. ClientInit => ClientInv
  BY ClientInitSound
<1>2. ClientInv /\ [Next]_clientVars => ClientInv'
  <2>1. SUFFICES ASSUME ClientInv, [Next]_clientVars
                 PROVE  ClientInv'
    OBVIOUS
  <2>2. ASSUME NEW k \in Kinds, Calls(k) \/ ClientStep(k) \/ Collect(k)
        PROVE  ClientInv'
    BY <2>1, <2>2, CallsSound, ClientStepSound, CollectStep
  <2>3. QED
    BY <2>1, <2>2, Stutters DEF Next
<1>3. QED
  BY <1>1, <1>2, PTL DEF Spec

(* Every variable of the clients and of the directory keeps its type. *)
THEOREM TypeCorrect == Spec => []ClientTypeOK
<1>1. ClientInv => ClientTypeOK
  BY DEF ClientInv
<1>2. QED
  BY <1>1, ClientInvariant, PTL

(* A CreateOrUpdateEntry that reports success has converged, whatever the    *)
(* other clients did between its requests and whatever failed before.        *)
THEOREM Converged == Spec => []UpsertConverged
<1>1. ClientInv => UpsertConverged
  BY DEF ClientInv, Converging, UpsertConverged
<1>2. QED
  BY <1>1, ClientInvariant, PTL

LEMMA CallsDelete ==
    ASSUME ClientInv, DeletionInv, NEW k \in Kinds, Calls(k)
    PROVE  DeletionInv'
<1>1. PICK d \in Targets :
        \/ \E entry \in Desired : CallUpsert(k, d, entry)
        \/ \E cascading \in BOOLEAN : CallDelete(k, d, cascading)
  BY DEF Calls
<1>2. d \in DN
  BY TargetsAssumption
<1>3. QED
  BY <1>1, <1>2, CallUpsertDeletes, CallDeleteDeletes

LEMMA StuttersDelete ==
    ASSUME ClientInv, DeletionInv, UNCHANGED clientVars
    PROVE  DeletionInv'
BY DEF clientVars, DeletionInv, Rooted, Deleting, Entries

THEOREM DeletionInvariant == Spec => []DeletionInv
<1>1. ClientInit => DeletionInv
  BY DeletionInitSound
<1>2. ClientInv /\ DeletionInv /\ [Next]_clientVars => DeletionInv'
  <2>1. SUFFICES ASSUME ClientInv, DeletionInv, [Next]_clientVars
                 PROVE  DeletionInv'
    OBVIOUS
  <2>2. ASSUME NEW k \in Kinds, Calls(k) \/ ClientStep(k) \/ Collect(k)
        PROVE  DeletionInv'
    BY <2>1, <2>2, CallsDelete, ClientStepDeletes, CollectDeletes
  <2>3. QED
    BY <2>1, <2>2, StuttersDelete DEF Next
<1>3. QED
  BY <1>1, <1>2, ClientInvariant, PTL DEF Spec

(* A cascading DeleteEntry that reports success has left nothing at or below *)
(* its entry, whatever the other clients added between its requests.         *)
THEOREM CascadeComplete == Spec => []DeletedSubtreeGone
<1>1. ClientInv /\ DeletionInv => DeletedSubtreeGone
  BY SubtreeGone
<1>2. QED
  BY <1>1, ClientInvariant, DeletionInvariant, PTL

=============================================================================
