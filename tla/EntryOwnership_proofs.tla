----------------------- MODULE EntryOwnership_proofs -----------------------
(***************************************************************************)
(* The ownership of entries loses none.  LDAPObject implements it, see     *)
(* LDAPObject_proofs, and what is proved here holds of the reconciler      *)
(* wherever it does.                                                       *)
(***************************************************************************)
EXTENDS EntryOwnership, TLAPS

(* The claims of an object are those of its one held incarnation, so that   *)
(* letting it go takes no claim of another one along (line 226).            *)
OwnershipInv == TypeOK /\ ClaimsHeld /\ NoLeak

LEMMA OwnershipInit == Init => OwnershipInv
  BY DEF Init, OwnershipInv, TypeOK, ClaimsHeld, NoLeak, NamesOf

LEMMA HoldStep ==
    ASSUME OwnershipInv, Hold
    PROVE  OwnershipInv'
<1>1. PICK i \in held' \ held :
        /\ i \in Incarnation
        /\ \A j \in held : j.obj # i.obj
        /\ held' = held \cup {i}
  BY DEF Hold
<1>2. UNCHANGED <<claims, entries, abandoned>>
  BY DEF Hold
<1>3. TypeOK'
  BY <1>1, <1>2 DEF OwnershipInv, TypeOK
<1>4. ClaimsHeld'
  BY <1>1, <1>2 DEF OwnershipInv, ClaimsHeld, Of
<1>5. NoLeak'
  BY <1>2 DEF OwnershipInv, NoLeak, NamesOf
<1> QED
  BY <1>3, <1>4, <1>5 DEF OwnershipInv

LEMMA AskStep ==
    ASSUME OwnershipInv, Ask
    PROVE  OwnershipInv'
<1>1. PICK c \in claims' \ claims :
        c \in Claim /\ Of(c) \in held /\ claims' = claims \cup {c}
  BY DEF Ask
<1>2. UNCHANGED <<held, entries, abandoned>>
  BY DEF Ask
<1>3. TypeOK'
  BY <1>1, <1>2 DEF OwnershipInv, TypeOK
<1>4. ClaimsHeld'
  BY <1>1, <1>2 DEF OwnershipInv, ClaimsHeld
<1>5. NoLeak'
  BY <1>1, <1>2 DEF OwnershipInv, NoLeak, NamesOf
<1> QED
  BY <1>3, <1>4, <1>5 DEF OwnershipInv

LEMMA AddStep ==
    ASSUME OwnershipInv, Add
    PROVE  OwnershipInv'
<1>1. PICK d \in NamesOf(claims) \ entries : entries' = entries \cup {d}
  BY DEF Add
<1>2. UNCHANGED <<held, claims, abandoned>>
  BY DEF Add
<1>3. d \in Names
  BY DEF OwnershipInv, TypeOK, Claim, NamesOf
<1>4. TypeOK'
  BY <1>1, <1>2, <1>3 DEF OwnershipInv, TypeOK
<1>5. ClaimsHeld'
  BY <1>2 DEF OwnershipInv, ClaimsHeld
<1>6. NoLeak'
  BY <1>1, <1>2 DEF OwnershipInv, NoLeak, NamesOf
<1> QED
  BY <1>4, <1>5, <1>6 DEF OwnershipInv

LEMMA RemoveStep ==
    ASSUME OwnershipInv, Remove
    PROVE  OwnershipInv'
<1>1. PICK d \in entries : entries' = entries \ {d}
  BY DEF Remove
<1>2. UNCHANGED <<held, claims, abandoned>>
  BY DEF Remove
<1> QED
  BY <1>1, <1>2 DEF OwnershipInv, TypeOK, ClaimsHeld, NoLeak, NamesOf

(* The claims of i go with it, all others are of incarnations still held,    *)
(* and the entries only i had asked for are abandoned.                       *)
LEMMA LetGoStep ==
    ASSUME OwnershipInv, NEW i \in held, LetGo(i)
    PROVE  OwnershipInv'
<1>1. /\ held' = held \ {i}
      /\ claims' = claims \ ClaimsOf(i)
      /\ abandoned' = abandoned \cup (entries \cap NamesOf(ClaimsOf(i)))
      /\ entries' = entries
  BY DEF LetGo
<1>2. TypeOK'
  BY <1>1 DEF OwnershipInv, TypeOK
<1>3. ClaimsHeld'
  <2>1. \A c \in claims' : Of(c) \in held /\ Of(c) # i
    BY <1>1 DEF OwnershipInv, ClaimsHeld, ClaimsOf
  <2> QED
    BY <1>1, <2>1 DEF OwnershipInv, ClaimsHeld
<1>4. NoLeak'
  <2>1. SUFFICES ASSUME NEW d \in entries, d \notin abandoned
                 PROVE  d \in NamesOf(claims') \cup abandoned'
    BY <1>1 DEF OwnershipInv, NoLeak
  <2>2. PICK c \in claims : c.dn = d
    BY <2>1 DEF OwnershipInv, NoLeak, NamesOf
  <2>3. CASE c \in ClaimsOf(i)
    BY <1>1, <2>2, <2>3 DEF NamesOf
  <2>4. CASE c \notin ClaimsOf(i)
    BY <1>1, <2>2, <2>4 DEF NamesOf
  <2> QED
    BY <2>3, <2>4
<1> QED
  BY <1>2, <1>3, <1>4 DEF OwnershipInv

(* No entry leaks: whoever asked for it is still held by its finalizer and   *)
(* will delete it, or was let go knowing that slapd still has it (lines      *)
(* 218-236 of the object reconciler).                                        *)
THEOREM NothingLeaks == Spec => [](ClaimsHeld /\ NoLeak)
<1>1. Init => OwnershipInv
  BY OwnershipInit
<1>2. OwnershipInv /\ [Next]_vars => OwnershipInv'
  <2> SUFFICES ASSUME OwnershipInv, [Next]_vars
               PROVE  OwnershipInv'
    OBVIOUS
  <2>1. ASSUME NEW i \in held, LetGo(i) PROVE OwnershipInv'
    BY <2>1, LetGoStep
  <2>2. CASE UNCHANGED vars
    BY <2>2 DEF vars, OwnershipInv, TypeOK, ClaimsHeld, NoLeak, NamesOf
  <2> QED
    BY <2>1, <2>2, HoldStep, AskStep, AddStep, RemoveStep DEF Next
<1>3. OwnershipInv => ClaimsHeld /\ NoLeak
  BY DEF OwnershipInv
<1> QED
  BY <1>1, <1>2, <1>3, PTL DEF Spec

=============================================================================
