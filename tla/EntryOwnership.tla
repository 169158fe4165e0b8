--------------------------- MODULE EntryOwnership ---------------------------
(***************************************************************************)
(* What the object reconcilers promise about the entries in slapd, without *)
(* caches, queues, workers or requests: an entry is added only on behalf   *)
(* of an object that its finalizer holds, and an object that is let go     *)
(* while its entry is there leaves it behind knowingly.                    *)
(*                                                                         *)
(*   held       the incarnations of objects that their finalizers hold     *)
(*   claims     the entries asked for on behalf of an incarnation          *)
(*   entries    the distinguished names in slapd                           *)
(*   abandoned  those left behind when their object was let go             *)
(***************************************************************************)

CONSTANTS Objects, Uids, Names

VARIABLES held, claims, entries, abandoned

vars == <<held, claims, entries, abandoned>>

Incarnation == [obj : Objects, uid : Uids]
Claim       == [obj : Objects, uid : Uids, dn : Names]

Init == held = {} /\ claims = {} /\ entries = {} /\ abandoned = {}

Of(c)       == [obj |-> c.obj, uid |-> c.uid]
ClaimsOf(i) == {c \in claims : Of(c) = i}

NamesOf(cs) == {c.dn : c \in cs}

(* The finalizer is added to an object of which no other incarnation is held. *)
Hold ==
    /\ \E i \in held' \ held :
          /\ i \in Incarnation
          /\ \A j \in held : j.obj # i.obj
          /\ held' = held \cup {i}
    /\ UNCHANGED <<claims, entries, abandoned>>

(* The reconciler asks for an entry. *)
Ask ==
    /\ \E c \in claims' \ claims :
          c \in Claim /\ Of(c) \in held /\ claims' = claims \cup {c}
    /\ UNCHANGED <<held, entries, abandoned>>

(* slapd adds an entry somebody has asked for. *)
Add ==
    /\ \E d \in NamesOf(claims) \ entries : entries' = entries \cup {d}
    /\ UNCHANGED <<held, claims, abandoned>>

(* slapd deletes an entry, for whomever. *)
Remove ==
    /\ \E d \in entries : entries' = entries \ {d}
    /\ UNCHANGED <<held, claims, abandoned>>

(* The finalizer is removed; what slapd still has of the object stays behind. *)
LetGo(i) ==
    /\ held' = held \ {i}
    /\ claims' = claims \ ClaimsOf(i)
    /\ abandoned' = abandoned \cup (entries \cap NamesOf(ClaimsOf(i)))
    /\ UNCHANGED entries

Next ==
    \/ Hold
    \/ \E i \in held : LetGo(i)
    \/ Ask \/ Add \/ Remove

Spec == Init /\ [][Next]_vars

-----------------------------------------------------------------------------
(* Every variable keeps its type. *)
TypeOK ==
    /\ held \subseteq Incarnation
    /\ claims \subseteq Claim
    /\ entries \subseteq Names /\ abandoned \subseteq Names

(* The object an entry was asked for is still there, held by its finalizer, *)
(* and there is one of that name only.                                      *)
ClaimsHeld ==
    /\ \A c \in claims : Of(c) \in held
    /\ \A i, j \in held : i.obj = j.obj => i = j

(* No entry leaks: somebody will still delete it, or it was given up. *)
NoLeak == entries \subseteq NamesOf(claims) \cup abandoned

=============================================================================
