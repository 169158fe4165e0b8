------------------------ MODULE MCConcurrentClients ------------------------
(***************************************************************************)
(* Small trees for ConcurrentClients.                                      *)
(*   MCBranch   a unit and a user in it                                    *)
(*   MCFork     a unit, and a unit with another name and a user in it: the *)
(*              recursion of DeleteEntry meets children of two kinds, and  *)
(*              a search can match an entry below its base                 *)
(***************************************************************************)
EXTENDS ConcurrentClients

CONSTANTS t1, p1, p2

rdn(k, n) == [kind |-> k, name |-> n]

MCNames  == {"a", "b"}
MCBranch == { <<rdn(Unit, "a")>>,
              <<rdn(User, "a"), rdn(Unit, "a")>> }
MCFork   == { <<rdn(Unit, "a")>>,
              <<rdn(Unit, "b"), rdn(Unit, "a")>>,
              <<rdn(User, "a"), rdn(Unit, "a")>> }

=============================================================================
