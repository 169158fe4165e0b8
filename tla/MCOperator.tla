----------------------------- MODULE MCOperator -----------------------------
(***************************************************************************)
(* One directory and one unit in it, for Operator.                         *)
(***************************************************************************)
EXTENDS Operator

CONSTANTS t1, i1, v1

MCObjects == {"ou"}
MCKindOf  == [ou |-> Unit]
MCSpecs   == [ou |-> {[parent |-> None, name |-> "a", secretRef |-> None,
                       content |-> [opt |-> {}, req |-> t1]]}]

MCDirectorySpecs == {[image |-> i1, volumes |-> v1]}

MCLimits == [e \in Events |-> IF e = "create" THEN 1 ELSE 0]

DirectoryEvents == {"create", "edit", "delete", "certificate", "unready", "secretLoss",
                    "statefulSetLoss", "serviceLoss", "resync", "apiFailure", "crash"}

Once(events) == [e \in DirectoryEvents |-> IF e \in events THEN 1 ELSE 0]

recovery == Once({"create", "certificate", "serviceLoss", "crash"})
teardown == Once({"create", "delete"})

=============================================================================
