--------------------------- MODULE PlanRegistryProofs ---------------------------
(* Proofs about PlanRegistry.                                               *)
EXTENDS PlanRegistry, AuthorityLedgerProofs, FiniteSetTheorems, TLAPS

(* The lane holds a call exactly while it is busy, an unanswered one; a     *)
(* call past authentication holds its plan.                                 *)
LaneOK ==
    /\ lane.phase = "idle" => lane = Idle
    /\ lane.phase # "idle" => lane.call \in Applies /\ answer[lane.call] = "none"
    /\ lane.phase \in {"revalidate", "execute", "promote"} => lane.plan # None

(* A token is in the records or ended, not both, exactly when it was issued;*)
(* a plan in use has had its token spent.                                   *)
TokensOK ==
    /\ records \cap ended = {}
    /\ Using \subseteq ended
    /\ \A p \in Plans : request[p] = "retained" <=> p \in records \cup ended

(* Only a plan whose token is gone has been executed, once.                 *)
UsesOK == \A p \in Plans : uses[p] \in {0, 1} /\ (uses[p] = 1 => p \in ended)

(* A call that started to rename and is not answered yet is answered by     *)
(* what its executor did.                                                   *)
PromotedOK ==
    \A a \in promoted :
        answer[a] = "none" =>
            /\ lane.call = a
            /\ \/ lane.phase = "promote"
               \/ lane.phase = "settle" /\ lane.outcome \in {"ok", "stale", "failed"}

(* Only a call whose signal has fired ends as cancelled.                    *)
CancelOK == lane.outcome = "cancelled" => lane.call \in aborted

(* The inductive invariant.                                                 *)
IndInv == /\ TypeOK /\ LaneOK /\ TokensOK /\ UsesOK /\ PromotedOK
          /\ Accounted /\ DisposedOnce /\ CancelledUntouched /\ CancelOK

-----------------------------------------------------------------------------
(* Every set of plans is finite.                                            *)
LEMMA PlansFinite == \A S \in SUBSET Plans : IsFiniteSet(S) /\ Cardinality(S) \in Nat
<1> SUFFICES ASSUME NEW S \in SUBSET Plans PROVE IsFiniteSet(S) /\ Cardinality(S) \in Nat
    OBVIOUS
<1>1. IsFiniteSet(Owners) /\ S \in SUBSET Owners BY LedgerAssumption, RegistryAssumption
<1>2. IsFiniteSet(S) BY <1>1, FS_Subset
<1> QED BY <1>2, FS_CardinalityType

(* Removing a subset removes its cardinality.                               *)
LEMMA CardinalityMinus ==
    ASSUME NEW A \in SUBSET Plans, NEW S \in SUBSET A
    PROVE  Cardinality(A \ S) = Cardinality(A) - Cardinality(S)
<1>1. IsFiniteSet(A) /\ IsFiniteSet(S) /\ IsFiniteSet(A \ S) BY PlansFinite
<1>2. S \cap A = S /\ A \cap S = S OBVIOUS
<1>3. Cardinality(A \ S) = Cardinality(A) - Cardinality(A \cap S) BY <1>1, FS_Difference
<1> QED BY <1>2, <1>3

(* The sets the counters speak of are sets of plans.                        *)
LEMMA LiveArePlans ==
    ASSUME TypeOK
    PROVE  /\ records \cup Using \in SUBSET Plans
           /\ Expired \in SUBSET records
BY DEF TypeOK, Using, Expired

(* What disposeOnce does to the ledger, the counter and the disposers.      *)
LEMMA DisposeLaw ==
    ASSUME TypeOK, Accounted, NEW S \in SUBSET (records \cup Using), Dispose(S)
    PROVE  /\ leases' \in SUBSET Owners /\ retainedNative' \in Int
           /\ leases' \cap Plans = (records \cup Using) \ S
           /\ retainedCount' = Cardinality((records \cup Using) \ S)
           /\ retainedCount' \in Nat /\ retainedCount' <= MaxActive
           /\ pending' \in SUBSET Plans
           /\ disposals' \in [Plans -> Int]
           /\ \A p \in Plans : disposals'[p] = disposals[p] + (IF p \in S THEN 1 ELSE 0)
<1> DEFINE live == records \cup Using
<1>1. live \in SUBSET Plans /\ S \in SUBSET Plans BY LiveArePlans
<1>2. leases' = (leases \ S) \cup {} BY DEF Dispose, Release, Relet
<1>3. leases' \in SUBSET Owners BY <1>2 DEF TypeOK, LedgerTypeOK
<1>4. leases' \cap Plans = live \ S BY <1>2 DEF Accounted
<1>5. retainedNative' \in Int
  <2>1. IsFiniteSet(S \cap leases \cap NativeOwners) /\ IsFiniteSet({} \cap NativeOwners)
        BY <1>1, PlansFinite
  <2>2. Cardinality(S \cap leases \cap NativeOwners) \in Nat /\ Cardinality({} \cap NativeOwners) \in Nat
        BY <2>1, FS_CardinalityType
  <2> QED BY <2>2 DEF Dispose, Release, Relet, TypeOK, LedgerTypeOK
<1>6. retainedCount' = Cardinality(live) - Cardinality(S) BY DEF Dispose, Accounted
<1>7. Cardinality(live \ S) = Cardinality(live) - Cardinality(S) BY <1>1, CardinalityMinus
<1>8. Cardinality(live \ S) \in Nat /\ Cardinality(S) \in Nat /\ Cardinality(live) \in Nat
      BY <1>1, PlansFinite
<1>9. retainedCount' <= MaxActive BY <1>6, <1>8, RegistryAssumption DEF Accounted
<1>10. pending' \in SUBSET Plans BY <1>1 DEF Dispose, TypeOK
<1>11. disposals' = [p \in Plans |-> disposals[p] + (IF p \in S THEN 1 ELSE 0)] BY DEF Dispose
<1>12. disposals' \in [Plans -> Int] BY <1>11 DEF TypeOK
<1> QED BY <1>3, <1>4, <1>5, <1>6, <1>7, <1>8, <1>9, <1>10, <1>11, <1>12

(* Dropping records keeps the books, whoever does it.                       *)
LEMMA DropLaw ==
    ASSUME IndInv, NEW S \in SUBSET records, Drop(S), Using' = Using,
           UNCHANGED <<request, uses>>
    PROVE  /\ records' \in SUBSET Plans /\ ended' \in SUBSET Plans /\ pending' \in SUBSET Plans
           /\ leases' \in SUBSET Owners /\ retainedNative' \in Int /\ retainedCount' \in Nat
           /\ disposals' \in [Plans -> Int]
           /\ TokensOK' /\ UsesOK' /\ Accounted' /\ DisposedOnce'
<1>1. TypeOK /\ Accounted /\ TokensOK /\ UsesOK /\ DisposedOnce BY DEF IndInv
<1>2. records' = records \ S /\ ended' = ended \cup S /\ Dispose(S) BY DEF Drop
<1>3. S \in SUBSET (records \cup Using) OBVIOUS
<1>4. /\ leases' \in SUBSET Owners /\ retainedNative' \in Int
      /\ leases' \cap Plans = (records \cup Using) \ S
      /\ retainedCount' = Cardinality((records \cup Using) \ S)
      /\ retainedCount' \in Nat /\ retainedCount' <= MaxActive
      /\ pending' \in SUBSET Plans
      /\ disposals' \in [Plans -> Int]
      /\ \A p \in Plans : disposals'[p] = disposals[p] + (IF p \in S THEN 1 ELSE 0)
      BY <1>1, <1>2, <1>3, DisposeLaw
<1>5. Using \cap records = {} BY <1>1 DEF TokensOK
<1>6. records' \cup Using' = (records \cup Using) \ S BY <1>2, <1>5
<1>7. records \subseteq Plans /\ ended \subseteq Plans BY <1>1 DEF TypeOK
<1>8. records' \in SUBSET Plans /\ ended' \in SUBSET Plans BY <1>2, <1>7
<1>9. TokensOK' BY <1>1, <1>2 DEF TokensOK
<1>10. UsesOK' BY <1>1, <1>2 DEF UsesOK
<1>11. Accounted' BY <1>4, <1>6 DEF Accounted
<1>12. DisposedOnce'
  <2> SUFFICES ASSUME NEW p \in Plans
               PROVE  disposals'[p] = IF request[p] = "refused" \/ p \in ended' \ Using THEN 1 ELSE 0
      BY DEF DisposedOnce
  <2>1. disposals[p] = IF request[p] = "refused" \/ p \in ended \ Using THEN 1 ELSE 0
        BY <1>1 DEF DisposedOnce
  <2>2. CASE p \in S
    <3>1. p \in records /\ p \notin ended /\ p \notin Using /\ request[p] = "retained"
          BY <2>2, <1>1, <1>5 DEF TokensOK
    <3>2. disposals[p] = 0 BY <3>1, <2>1
    <3>3. disposals'[p] = 1 BY <3>2, <2>2, <1>4
    <3> QED BY <3>1, <3>3, <2>2, <1>2
  <2>3. CASE p \notin S
    <3>1. disposals'[p] = disposals[p] BY <2>3, <1>1, <1>4 DEF TypeOK
    <3> QED BY <3>1, <2>1, <2>3, <1>2
  <2> QED BY <2>2, <2>3
<1> QED BY <1>4, <1>8, <1>9, <1>10, <1>11, <1>12

-----------------------------------------------------------------------------
LEMMA InitIndInv == Init => IndInv
<1> SUFFICES ASSUME Init PROVE IndInv OBVIOUS
<1> USE DEF Init, LedgerInit
<1>0. Using = {} BY DEF Using, Idle
<1>1. TypeOK
  <2>1. lane \in [phase : Phases, call : Applies \cup {None}, plan : Plans \cup {None}, outcome : Outcomes]
        BY DEF Idle, Phases, Outcomes
  <2>2. answer \in [Applies -> Outcomes] BY DEF Outcomes
  <2>3. LedgerTypeOK BY DEF LedgerTypeOK
  <2>4. request \in [Plans -> {"none", "planning", "failed", "dropped", "refused", "retained"}]
        OBVIOUS
  <2>5. disposals \in [Plans -> Int] /\ uses \in [Plans -> Int] /\ createdAt \in [Plans -> Nat]
        OBVIOUS
  <2>6. /\ records = {} /\ pending = {} /\ ended = {} /\ aborted = {} /\ promoted = {}
        /\ now = 0 /\ retainedCount = 0 /\ closed = FALSE /\ stage = "open"
        OBVIOUS
  <2> HIDE DEF Init, LedgerInit
  <2> QED BY <2>1, <2>2, <2>3, <2>4, <2>5, <2>6 DEF TypeOK
<1>2. LaneOK /\ PromotedOK /\ CancelledUntouched /\ CancelOK BY DEF LaneOK, PromotedOK, CancelledUntouched, CancelOK, Idle
<1>3. TokensOK /\ UsesOK /\ DisposedOnce BY <1>0 DEF TokensOK, UsesOK, DisposedOnce
<1>4. Accounted
  <2>1. records \cup Using = {} BY <1>0
  <2>2. Cardinality({}) = 0 BY FS_EmptySet
  <2> QED BY <2>1, <2>2, RegistryAssumption DEF Accounted
<1> QED BY <1>1, <1>2, <1>3, <1>4 DEF IndInv

(* Steps that leave the books and the lane alone.                           *)
BooksUnchanged == UNCHANGED <<leases, records, retainedCount, disposals, uses, ended>>

(* A request that gives nothing to the registry.                            *)
LEMMA RequestStep ==
    ASSUME IndInv, NEW p \in Plans, PlanRequested(p) \/ PlanningFails(p) \/ PlanDropped(p) \/ RegisterClosed(p)
    PROVE  IndInv'
<1>1. PICK r \in {"planning", "failed", "dropped"} : request' = [request EXCEPT ![p] = r]
      BY DEF PlanRequested, PlanningFails, PlanDropped, RegisterClosed
<1>2. request[p] \in {"none", "planning"}
      BY DEF PlanRequested, PlanningFails, PlanDropped, RegisterClosed, Returned
<1>3. UNCHANGED <<ledger, registry, lane, aborted, answer, stage, now, history>>
      BY DEF PlanRequested, PlanningFails, PlanDropped, RegisterClosed
<1>4. Using' = Using BY <1>3 DEF Using
<1> USE <1>1, <1>2, <1>3, <1>4 DEF ledger, registry, history
<1>5. TypeOK' BY DEF IndInv, TypeOK, LedgerTypeOK
<1>6. LaneOK' /\ PromotedOK' /\ (CancelledUntouched /\ CancelOK)' BY DEF IndInv, LaneOK, PromotedOK, CancelledUntouched, CancelOK
<1>7. Accounted' BY DEF IndInv, Accounted
<1>8. TokensOK' BY DEF IndInv, TokensOK, TypeOK
<1>9. UsesOK' BY DEF IndInv, UsesOK
<1>10. DisposedOnce'
  <2>1. p \notin ended /\ disposals[p] = 0 BY DEF IndInv, TokensOK, DisposedOnce
  <2> QED BY <2>1 DEF IndInv, DisposedOnce, TypeOK
<1> QED BY <1>5, <1>6, <1>7, <1>8, <1>9, <1>10 DEF IndInv

LEMMA RegisterRefusedStep ==
    ASSUME IndInv, NEW p \in Plans, RegisterRefused(p)
    PROVE  IndInv'
<1> DEFINE E == Expired
<1>0. TypeOK /\ Accounted /\ TokensOK /\ UsesOK /\ DisposedOnce BY DEF IndInv
<1>1. E \in SUBSET records /\ E \in SUBSET (records \cup Using) /\ E \in SUBSET Plans
      BY <1>0, LiveArePlans
<1>2. /\ records' = records \ E /\ ended' = ended \cup E
      /\ request' = [request EXCEPT ![p] = "refused"] /\ request[p] = "planning"
      /\ disposals' = [q \in Plans |-> disposals[q] + (IF q \in E \cup {p} THEN 1 ELSE 0)]
      /\ pending' = pending \cup E
      /\ UNCHANGED <<createdAt, closed, lane, aborted, answer, stage, now, uses, promoted>>
      BY DEF RegisterRefused, Returned
<1>3. Using' = Using BY <1>2 DEF Using
<1>4. p \notin records /\ p \notin ended /\ p \notin Using BY <1>0, <1>2 DEF TokensOK
<1>5. leases' = leases \ E BY DEF RegisterRefused, Release, Relet
<1>6. retainedCount' = Cardinality(records \cup Using) - Cardinality(E)
      BY <1>0 DEF RegisterRefused, Accounted
<1>7. records' \cup Using' = (records \cup Using) \ E BY <1>0, <1>2, <1>3, <1>1 DEF TokensOK
<1>8. Accounted' /\ retainedCount' \in Nat
  <2>1. Cardinality((records \cup Using) \ E) = retainedCount' BY <1>0, <1>1, <1>6, LiveArePlans, CardinalityMinus
  <2>2. records \cup Using \in SUBSET Plans BY <1>0, LiveArePlans
  <2>3. Cardinality((records \cup Using) \ E) \in Nat /\ Cardinality(E) \in Nat /\ Cardinality(records \cup Using) \in Nat
        BY <2>2, <1>1, PlansFinite
  <2>4. retainedCount' <= MaxActive
        BY <2>3, <1>6, <1>0, RegistryAssumption DEF Accounted
  <2>5. leases' \cap Plans = (records \cup Using) \ E BY <1>5, <1>0 DEF Accounted
  <2> QED BY <2>1, <2>3, <2>4, <2>5, <1>7 DEF Accounted
<1>9. retainedNative' \in Int
  <2>1. IsFiniteSet(E \cap leases \cap NativeOwners) /\ IsFiniteSet({} \cap NativeOwners)
        BY <1>1, PlansFinite
  <2>2. Cardinality(E \cap leases \cap NativeOwners) \in Nat /\ Cardinality({} \cap NativeOwners) \in Nat
        BY <2>1, FS_CardinalityType
  <2> QED BY <2>2, <1>0 DEF RegisterRefused, Release, Relet, TypeOK, LedgerTypeOK
<1>10. disposals' \in [Plans -> Int] BY <1>0, <1>2 DEF TypeOK
<1>11. TypeOK'
  <2>1. request' \in [Plans -> {"none", "planning", "failed", "dropped", "refused", "retained"}]
        BY <1>0, <1>2 DEF TypeOK
  <2> QED BY <2>1, <1>0, <1>1, <1>2, <1>5, <1>8, <1>9, <1>10 DEF TypeOK, LedgerTypeOK
<1>12. LaneOK' /\ PromotedOK' /\ (CancelledUntouched /\ CancelOK)'
       BY <1>2 DEF IndInv, LaneOK, PromotedOK, CancelledUntouched, CancelOK
<1>13. TokensOK'
  <2>1. request'[p] = "refused" /\ \A q \in Plans \ {p} : request'[q] = request[q]
        BY <1>2, <1>0 DEF TypeOK
  <2> QED BY <2>1, <1>0, <1>1, <1>2, <1>3, <1>4 DEF TokensOK
<1>14. UsesOK' BY <1>0, <1>2 DEF UsesOK
<1>15. DisposedOnce'
  <2> SUFFICES ASSUME NEW q \in Plans
               PROVE  disposals'[q] = IF request'[q] = "refused" \/ q \in ended' \ Using THEN 1 ELSE 0
      BY <1>3 DEF DisposedOnce
  <2>1. disposals[q] = IF request[q] = "refused" \/ q \in ended \ Using THEN 1 ELSE 0
        BY <1>0 DEF DisposedOnce
  <2>2. disposals'[q] = disposals[q] + (IF q \in E \cup {p} THEN 1 ELSE 0) BY <1>2
  <2>3. CASE q = p
    <3>1. disposals[q] = 0 BY <2>3, <2>1, <1>2, <1>4
    <3>2. request'[q] = "refused" BY <2>3, <1>2, <1>0 DEF TypeOK
    <3> QED BY <3>1, <3>2, <2>2, <2>3
  <2>4. CASE q # p /\ q \in E
    <3>1. q \notin ended /\ q \notin Using /\ request[q] = "retained"
          BY <2>4, <1>0, <1>1 DEF TokensOK
    <3>2. disposals[q] = 0 BY <3>1, <2>1
    <3>3. q \in ended' \ Using BY <2>4, <3>1, <1>2
    <3> QED BY <3>2, <3>3, <2>2, <2>4
  <2>5. CASE q # p /\ q \notin E
    <3>1. disposals'[q] = disposals[q] BY <2>5, <2>2, <1>0 DEF TypeOK
    <3>2. request'[q] = request[q] BY <2>5, <1>2, <1>0 DEF TypeOK
    <3> QED BY <3>1, <3>2, <2>1, <2>5, <1>2
  <2> QED BY <2>3, <2>4, <2>5
<1> QED BY <1>8, <1>11, <1>12, <1>13, <1>14, <1>15 DEF IndInv

LEMMA RegisterStep ==
    ASSUME IndInv, NEW p \in Plans, Register(p)
    PROVE  IndInv'
<1> DEFINE E == Expired
<1>0. TypeOK /\ Accounted /\ TokensOK /\ UsesOK /\ DisposedOnce BY DEF IndInv
<1>1. E \in SUBSET records /\ E \in SUBSET (records \cup Using) /\ E \in SUBSET Plans
      BY <1>0, LiveArePlans
<1>2. /\ records' = (records \ E) \cup {p} /\ ended' = ended \cup E
      /\ request' = [request EXCEPT ![p] = "retained"] /\ request[p] = "planning"
      /\ disposals' = [q \in Plans |-> disposals[q] + (IF q \in E THEN 1 ELSE 0)]
      /\ pending' = pending \cup E /\ createdAt' = [createdAt EXCEPT ![p] = now]
      /\ UNCHANGED <<closed, lane, aborted, answer, stage, now, uses, promoted>>
      BY DEF Register, Returned
<1>3. Using' = Using BY <1>2 DEF Using
<1>4. p \notin records /\ p \notin ended /\ p \notin Using BY <1>0, <1>2 DEF TokensOK
<1>5. leases' = (leases \ E) \cup {p} BY DEF Register, Relet
<1>6. /\ retainedCount' = Cardinality(records \cup Using) - Cardinality(E) + 1
      /\ Cardinality(records \cup Using) - Cardinality(E) < MaxActive
      BY <1>0 DEF Register, Fits, Accounted
<1>7. records' \cup Using' = ((records \cup Using) \ E) \cup {p} BY <1>0, <1>2, <1>3, <1>1 DEF TokensOK
<1>8. Accounted' /\ retainedCount' \in Nat
  <2> DEFINE rest == (records \cup Using) \ E
  <2>1. rest \in SUBSET Plans /\ records \cup Using \in SUBSET Plans BY <1>0, LiveArePlans
  <2>2. Cardinality(rest) = Cardinality(records \cup Using) - Cardinality(E)
        BY <1>1, <2>1, CardinalityMinus
  <2>3. IsFiniteSet(rest) /\ Cardinality(rest) \in Nat BY <2>1, PlansFinite
  <2>4. p \notin rest BY <1>4
  <2>5. Cardinality(rest \cup {p}) = Cardinality(rest) + 1 BY <2>3, <2>4, FS_AddElement
  <2>6. retainedCount' = Cardinality(rest \cup {p}) /\ retainedCount' \in Nat /\ retainedCount' <= MaxActive
        BY <2>2, <2>3, <2>5, <1>6, RegistryAssumption
  <2>7. leases' \cap Plans = rest \cup {p} BY <1>5, <1>0 DEF Accounted
  <2> QED BY <2>6, <2>7, <1>7 DEF Accounted
<1>9. retainedNative' \in Int
  <2>1. IsFiniteSet(E \cap leases \cap NativeOwners) /\ IsFiniteSet({p} \cap NativeOwners)
        BY <1>1, PlansFinite
  <2>2. Cardinality(E \cap leases \cap NativeOwners) \in Nat /\ Cardinality({p} \cap NativeOwners) \in Nat
        BY <2>1, FS_CardinalityType
  <2> QED BY <2>2, <1>0 DEF Register, Relet, TypeOK, LedgerTypeOK
<1>10. disposals' \in [Plans -> Int] BY <1>0, <1>2 DEF TypeOK
<1>11. TypeOK'
  <2>1. request' \in [Plans -> {"none", "planning", "failed", "dropped", "refused", "retained"}]
        BY <1>0, <1>2 DEF TypeOK
  <2>2. leases' \subseteq Owners BY <1>0, <1>5, RegistryAssumption DEF TypeOK, LedgerTypeOK
  <2>3. createdAt' \in [Plans -> Nat] BY <1>0, <1>2 DEF TypeOK
  <2> QED BY <2>1, <2>2, <2>3, <1>0, <1>1, <1>2, <1>8, <1>9, <1>10 DEF TypeOK, LedgerTypeOK
<1>12. LaneOK' /\ PromotedOK' /\ (CancelledUntouched /\ CancelOK)'
       BY <1>2 DEF IndInv, LaneOK, PromotedOK, CancelledUntouched, CancelOK
<1>13. TokensOK'
  <2>1. request'[p] = "retained" /\ \A q \in Plans \ {p} : request'[q] = request[q]
        BY <1>2, <1>0 DEF TypeOK
  <2> QED BY <2>1, <1>0, <1>1, <1>2, <1>3, <1>4 DEF TokensOK
<1>14. UsesOK' BY <1>0, <1>2 DEF UsesOK
<1>15. DisposedOnce'
  <2> SUFFICES ASSUME NEW q \in Plans
               PROVE  disposals'[q] = IF request'[q] = "refused" \/ q \in ended' \ Using THEN 1 ELSE 0
      BY <1>3 DEF DisposedOnce
  <2>1. disposals[q] = IF request[q] = "refused" \/ q \in ended \ Using THEN 1 ELSE 0
        BY <1>0 DEF DisposedOnce
  <2>2. disposals'[q] = disposals[q] + (IF q \in E THEN 1 ELSE 0) BY <1>2
  <2>3. request'[q] = "refused" <=> request[q] = "refused" BY <1>2, <1>0 DEF TypeOK
  <2>4. CASE q \in E
    <3>1. q \notin ended /\ q \notin Using /\ request[q] = "retained"
          BY <2>4, <1>0, <1>1 DEF TokensOK
    <3>2. disposals[q] = 0 BY <3>1, <2>1
    <3>3. q \in ended' \ Using BY <2>4, <3>1, <1>2
    <3> QED BY <3>2, <3>3, <2>2, <2>4
  <2>5. CASE q \notin E
    <3>1. disposals'[q] = disposals[q] BY <2>5, <2>2, <1>0 DEF TypeOK
    <3> QED BY <3>1, <2>3, <2>1, <2>5, <1>2
  <2> QED BY <2>4, <2>5
<1> QED BY <1>8, <1>11, <1>12, <1>13, <1>14, <1>15 DEF IndInv

LEMMA DiscardStep ==
    ASSUME IndInv, NEW p \in Plans, Discard(p)
    PROVE  IndInv'
<1> DEFINE S == Expired \cup (records \cap {p})
<1>0. TypeOK BY DEF IndInv
<1>1. S \in SUBSET records BY <1>0, LiveArePlans
<1>2. Drop(S) /\ UNCHANGED <<createdAt, closed, requests, stage, now, uses, promoted>> BY DEF Discard
<1>3. Using' = Using BY <1>2 DEF Using, requests
<1>4. UNCHANGED <<request, uses>> BY <1>2 DEF requests
<1>5. /\ records' \in SUBSET Plans /\ ended' \in SUBSET Plans /\ pending' \in SUBSET Plans
      /\ leases' \in SUBSET Owners /\ retainedNative' \in Int /\ retainedCount' \in Nat
      /\ disposals' \in [Plans -> Int]
      /\ TokensOK' /\ UsesOK' /\ Accounted' /\ DisposedOnce'
      BY <1>1, <1>2, <1>3, <1>4, DropLaw
<1>6. TypeOK' BY <1>0, <1>2, <1>5 DEF TypeOK, LedgerTypeOK, requests
<1>7. LaneOK' /\ PromotedOK' /\ (CancelledUntouched /\ CancelOK)'
      BY <1>2 DEF IndInv, LaneOK, PromotedOK, CancelledUntouched, CancelOK, requests
<1> QED BY <1>5, <1>6, <1>7 DEF IndInv

LEMMA BusyStep ==
    ASSUME IndInv, NEW a \in Applies, NEW p \in Plans, ApplyBusy(a, p)
    PROVE  IndInv'
<1>1. /\ answer' = [answer EXCEPT ![a] = "busy"] /\ answer[a] = "none" /\ lane.call # a
      /\ UNCHANGED <<ledger, registry, lane, request, aborted, stage, now, history>>
      BY DEF ApplyBusy
<1>2. Using' = Using BY <1>1 DEF Using
<1> USE <1>1, <1>2 DEF ledger, registry, history
<1>3. TypeOK' BY DEF IndInv, TypeOK, LedgerTypeOK, Outcomes
<1>4. a \notin promoted BY DEF IndInv, PromotedOK
<1>5. LaneOK' BY DEF IndInv, LaneOK, TypeOK
<1>6. PromotedOK' BY DEF IndInv, PromotedOK, TypeOK
<1>7. (CancelledUntouched /\ CancelOK)' BY <1>4 DEF IndInv, CancelledUntouched, CancelOK, TypeOK
<1>8. Accounted' /\ TokensOK' /\ UsesOK' /\ DisposedOnce'
      BY DEF IndInv, Accounted, TokensOK, UsesOK, DisposedOnce
<1> QED BY <1>3, <1>5, <1>6, <1>7, <1>8 DEF IndInv

LEMMA FailStep ==
    ASSUME IndInv, NEW a \in Applies, NEW p \in Plans, ApplyInvalid(a, p) \/ ApplyMismatch(a, p)
    PROVE  IndInv'
<1>0. TypeOK BY DEF IndInv
<1>1. PICK o \in {"token", "digest"} : lane' = [phase |-> "settle", call |-> a, plan |-> None, outcome |-> o]
      BY DEF ApplyInvalid, ApplyMismatch, Fail
<1>2. /\ Drop(Expired) /\ answer[a] = "none" /\ lane.phase = "idle"
      /\ UNCHANGED <<createdAt, closed, request, aborted, answer, stage, now, uses, promoted>>
      BY DEF ApplyInvalid, ApplyMismatch, MayApply
<1>3. lane = Idle BY <1>2 DEF IndInv, LaneOK
<1>4. Using' = Using BY <1>1, <1>3 DEF Using, Idle
<1>5. /\ records' \in SUBSET Plans /\ ended' \in SUBSET Plans /\ pending' \in SUBSET Plans
      /\ leases' \in SUBSET Owners /\ retainedNative' \in Int /\ retainedCount' \in Nat
      /\ disposals' \in [Plans -> Int]
      /\ TokensOK' /\ UsesOK' /\ Accounted' /\ DisposedOnce'
      BY <1>0, <1>2, <1>4, LiveArePlans, DropLaw
<1>6. TypeOK' BY <1>0, <1>1, <1>2, <1>5 DEF TypeOK, LedgerTypeOK, Phases, Outcomes
<1>7. LaneOK' BY <1>1, <1>2 DEF LaneOK
<1>8. PromotedOK'
  <2>1. None \notin Applies BY RegistryAssumption
  <2>2. \A b \in promoted : answer[b] # "none"
        BY <1>3, <2>1, <1>0 DEF IndInv, PromotedOK, Idle, TypeOK
  <2> QED BY <2>2, <1>2 DEF PromotedOK
<1>9. (CancelledUntouched /\ CancelOK)'
      BY <1>1, <1>2 DEF IndInv, CancelledUntouched, CancelOK
<1> QED BY <1>5, <1>6, <1>7, <1>8, <1>9 DEF IndInv

LEMMA AuthenticateStep ==
    ASSUME IndInv, NEW a \in Applies, NEW p \in Plans, Authenticate(a, p)
    PROVE  IndInv'
<1> DEFINE E == Expired
<1>0. TypeOK /\ Accounted /\ TokensOK /\ UsesOK /\ DisposedOnce BY DEF IndInv
<1>1. E \in SUBSET records /\ E \in SUBSET (records \cup Using) /\ E \in SUBSET Plans
      BY <1>0, LiveArePlans
<1>2. /\ records' = (records \ E) \ {p} /\ ended' = ended \cup E \cup {p} /\ Dispose(E)
      /\ p \in records /\ p \notin E /\ answer[a] = "none" /\ lane.phase = "idle"
      /\ uses' = [uses EXCEPT ![p] = @ + 1]
      /\ lane' = [phase |-> "revalidate", call |-> a, plan |-> p, outcome |-> "none"]
      /\ UNCHANGED <<createdAt, closed, request, aborted, answer, stage, now, promoted>>
      BY DEF Authenticate, MayApply
<1>3. lane = Idle BY <1>2 DEF IndInv, LaneOK
<1>4. Using = {} BY <1>3 DEF Using, Idle
<1>5. Using' = {p} BY <1>2, RegistryAssumption DEF Using
<1>6. /\ leases' \in SUBSET Owners /\ retainedNative' \in Int
      /\ leases' \cap Plans = (records \cup Using) \ E
      /\ retainedCount' = Cardinality((records \cup Using) \ E)
      /\ retainedCount' \in Nat /\ retainedCount' <= MaxActive
      /\ pending' \in SUBSET Plans
      /\ disposals' \in [Plans -> Int]
      /\ \A q \in Plans : disposals'[q] = disposals[q] + (IF q \in E THEN 1 ELSE 0)
      BY <1>0, <1>1, <1>2, DisposeLaw
<1>7. records' \cup Using' = (records \cup Using) \ E BY <1>2, <1>4, <1>5
<1>8. Accounted' BY <1>6, <1>7 DEF Accounted
<1>9. TypeOK'
  <2>1. lane' \in [phase : Phases, call : Applies \cup {None}, plan : Plans \cup {None}, outcome : Outcomes]
        BY <1>2 DEF Phases, Outcomes
  <2>2. uses' \in [Plans -> Int] BY <1>0, <1>2 DEF TypeOK
  <2>3. records' \subseteq Plans /\ ended' \subseteq Plans BY <1>0, <1>1, <1>2 DEF TypeOK
  <2> QED BY <2>1, <2>2, <2>3, <1>0, <1>2, <1>6 DEF TypeOK, LedgerTypeOK
<1>10. LaneOK' BY <1>2, RegistryAssumption DEF LaneOK
<1>11. PromotedOK'
  <2>1. None \notin Applies BY RegistryAssumption
  <2>2. \A b \in promoted : answer[b] # "none"
        BY <1>3, <2>1, <1>0 DEF IndInv, PromotedOK, Idle, TypeOK
  <2> QED BY <2>2, <1>2 DEF PromotedOK
<1>12. (CancelledUntouched /\ CancelOK)' BY <1>2 DEF IndInv, CancelledUntouched, CancelOK
<1>13. TokensOK' BY <1>0, <1>1, <1>2, <1>5 DEF TokensOK
<1>14. UsesOK'
  <2>1. p \notin ended BY <1>0, <1>2 DEF TokensOK
  <2>2. uses[p] = 0 BY <2>1, <1>0 DEF UsesOK
  <2>3. uses'[p] = 1 /\ \A q \in Plans \ {p} : uses'[q] = uses[q] BY <2>2, <1>0, <1>2 DEF TypeOK
  <2> QED BY <2>3, <1>0, <1>2 DEF UsesOK
<1>15. DisposedOnce'
  <2> SUFFICES ASSUME NEW q \in Plans
               PROVE  disposals'[q] = IF request[q] = "refused" \/ q \in ended' \ {p} THEN 1 ELSE 0
      BY <1>2, <1>5 DEF DisposedOnce
  <2>1. disposals[q] = IF request[q] = "refused" \/ q \in ended THEN 1 ELSE 0
        BY <1>0, <1>4 DEF DisposedOnce
  <2>2. disposals'[q] = disposals[q] + (IF q \in E THEN 1 ELSE 0) BY <1>6
  <2>3. CASE q \in E
    <3>1. q \notin ended /\ request[q] = "retained" BY <2>3, <1>0, <1>1 DEF TokensOK
    <3>2. q \in ended' \ {p} BY <2>3, <1>2
    <3> QED BY <3>1, <3>2, <2>1, <2>2, <2>3
  <2>4. CASE q \notin E
    <3>1. disposals'[q] = disposals[q] BY <2>4, <2>2, <1>0 DEF TypeOK
    <3>2. q = p => q \notin ended BY <1>0, <1>2 DEF TokensOK
    <3>3. q \in ended' \ {p} <=> q \in ended BY <3>2, <2>4, <1>2
    <3> QED BY <3>1, <3>3, <2>1
  <2> QED BY <2>3, <2>4
<1> QED BY <1>8, <1>9, <1>10, <1>11, <1>12, <1>13, <1>14, <1>15 DEF IndInv

(* The steps of an executor before its promise settles.                     *)
LEMMA ExecutorStep ==
    ASSUME IndInv,
           Revalidated \/ Stale \/ Promote \/ ApplyCancelled \/ ApplyFails \/ NothingToDo \/ Applied
    PROVE  IndInv'
<1> USE DEF IndInv
<1>0. TypeOK /\ LaneOK /\ PromotedOK /\ CancelledUntouched /\ CancelOK OBVIOUS
<1>1. UNCHANGED <<ledger, registry, request, aborted, answer, stage, now, disposals, uses, ended>>
      BY DEF Revalidated, Stale, Promote, ApplyCancelled, ApplyFails, NothingToDo, Applied,
             UnchangedByExecutor
<1>2. /\ lane'.plan = lane.plan /\ lane'.call = lane.call /\ lane.phase # "idle"
      /\ lane.phase \in {"revalidate", "execute", "promote"}
      /\ lane' \in [phase : Phases, call : Applies \cup {None}, plan : Plans \cup {None}, outcome : Outcomes]
      /\ lane'.phase # "idle"
  <2> USE <1>0 DEF Advance, Settle, TypeOK, Phases, Outcomes
  <2>1. CASE Revalidated BY <2>1 DEF Revalidated
  <2>2. CASE Promote BY <2>2 DEF Promote
  <2>3. CASE Stale BY <2>3 DEF Stale
  <2>4. CASE NothingToDo BY <2>4 DEF NothingToDo
  <2>5. CASE ApplyCancelled BY <2>5 DEF ApplyCancelled
  <2>6. CASE ApplyFails BY <2>6 DEF ApplyFails
  <2>7. CASE Applied BY <2>7 DEF Applied
  <2> QED BY <2>1, <2>2, <2>3, <2>4, <2>5, <2>6, <2>7
<1>3. Using' = Using BY <1>2 DEF Using
<1>4. lane.call \in Applies /\ answer[lane.call] = "none" /\ lane.plan # None BY <1>0, <1>2 DEF LaneOK
<1>5. promoted' \in SUBSET (promoted \cup {lane.call}) /\ promoted \in SUBSET promoted'
      BY DEF Revalidated, Stale, Promote, ApplyCancelled, ApplyFails, NothingToDo, Applied
<1>6. TypeOK' BY <1>0, <1>1, <1>2, <1>4, <1>5 DEF TypeOK, LedgerTypeOK, ledger, registry
<1>7. LaneOK' BY <1>0, <1>1, <1>2, <1>4 DEF LaneOK
<1>8. PromotedOK'
  <2> SUFFICES ASSUME NEW b \in promoted', answer[b] = "none"
               PROVE  /\ lane'.call = b
                      /\ \/ lane'.phase = "promote"
                         \/ lane'.phase = "settle" /\ lane'.outcome \in {"ok", "stale", "failed"}
      BY <1>1 DEF PromotedOK
  <2>1. b = lane.call BY <1>0, <1>5 DEF PromotedOK
  <2>2. CASE b \in promoted
    <3>1. lane.phase = "promote" BY <2>2, <1>0, <1>2 DEF PromotedOK
    <3> QED BY <3>1, <2>1, <1>0, <1>2 DEF Revalidated, Stale, Promote, ApplyCancelled, ApplyFails,
               NothingToDo, Applied, Advance, Settle, TypeOK
  <2>3. CASE b \notin promoted
    <3>1. Promote BY <2>3 DEF Revalidated, Stale, ApplyCancelled, ApplyFails, NothingToDo, Applied
    <3> QED BY <3>1, <2>1, <1>0, <1>2 DEF Promote, Advance, TypeOK
  <2> QED BY <2>2, <2>3
<1>9. CancelledUntouched' BY <1>0, <1>1, <1>4, <1>5 DEF CancelledUntouched
<1>10. CancelOK'
  <2>1. \/ ApplyCancelled /\ lane.call \in aborted
        \/ lane'.outcome \in {lane.outcome, "ok", "stale", "failed"}
    BY <1>0 DEF Revalidated, Stale, Promote, ApplyCancelled, ApplyFails, NothingToDo, Applied,
       Advance, Settle, TypeOK
  <2> QED BY <2>1, <1>0, <1>1, <1>2 DEF CancelOK
<1>11. Accounted' /\ TokensOK' /\ UsesOK' /\ DisposedOnce'
       BY <1>1, <1>3 DEF Accounted, TokensOK, UsesOK, DisposedOnce, ledger, registry
<1> QED BY <1>6, <1>7, <1>8, <1>9, <1>10, <1>11

LEMMA SettlesStep ==
    ASSUME IndInv, ApplySettles
    PROVE  IndInv'
<1>0. TypeOK /\ Accounted /\ TokensOK /\ UsesOK /\ DisposedOnce /\ LaneOK /\ PromotedOK BY DEF IndInv
<1>1. Using \in SUBSET (records \cup Using) OBVIOUS
<1>2. /\ Dispose(Using) /\ lane.phase = "settle" /\ lane' = Idle
      /\ answer' = [answer EXCEPT ![lane.call] = lane.outcome]
      /\ UNCHANGED <<records, createdAt, closed, request, aborted, stage, now, uses, ended, promoted>>
      BY DEF ApplySettles
<1>3. Using' = {} BY <1>2 DEF Using, Idle
<1>4. /\ leases' \in SUBSET Owners /\ retainedNative' \in Int
      /\ leases' \cap Plans = (records \cup Using) \ Using
      /\ retainedCount' = Cardinality((records \cup Using) \ Using)
      /\ retainedCount' \in Nat /\ retainedCount' <= MaxActive
      /\ pending' \in SUBSET Plans
      /\ disposals' \in [Plans -> Int]
      /\ \A q \in Plans : disposals'[q] = disposals[q] + (IF q \in Using THEN 1 ELSE 0)
      BY <1>0, <1>1, <1>2, DisposeLaw
<1>5. records' \cup Using' = (records \cup Using) \ Using BY <1>0, <1>2, <1>3 DEF TokensOK
<1>6. Accounted' BY <1>4, <1>5 DEF Accounted
<1>7. lane.call \in Applies /\ answer[lane.call] = "none" BY <1>0, <1>2 DEF LaneOK
<1>8. TypeOK'
  <2>1. lane' \in [phase : Phases, call : Applies \cup {None}, plan : Plans \cup {None}, outcome : Outcomes]
        BY <1>2 DEF Idle, Phases, Outcomes
  <2>2. answer' \in [Applies -> Outcomes] BY <1>0, <1>2 DEF TypeOK
  <2> QED BY <2>1, <2>2, <1>0, <1>2, <1>4 DEF TypeOK, LedgerTypeOK
<1>9. LaneOK' BY <1>2 DEF LaneOK, Idle
<1>10. /\ answer'[lane.call] = lane.outcome
       /\ \A b \in Applies \ {lane.call} : answer'[b] = answer[b]
       BY <1>0, <1>2, <1>7 DEF TypeOK
<1>11. \A b \in promoted : b \in Applies BY <1>0 DEF TypeOK
<1>12. lane.call \in promoted => lane.outcome \in {"ok", "stale", "failed"}
       BY <1>0, <1>2, <1>7 DEF PromotedOK
<1>13. PromotedOK'
  <2>1. \A b \in promoted \ {lane.call} : answer[b] # "none" BY <1>0 DEF PromotedOK
  <2> QED BY <2>1, <1>2, <1>10, <1>11, <1>12 DEF PromotedOK
<1>14. (CancelledUntouched /\ CancelOK)'
  <2>1. CancelOK /\ CancelledUntouched BY DEF IndInv
  <2>2. CancelOK' BY <1>2 DEF CancelOK, Idle
  <2>3. CancelledUntouched' BY <2>1, <1>2, <1>10, <1>12 DEF CancelledUntouched, CancelOK
  <2> QED BY <2>2, <2>3
<1>15. TokensOK' BY <1>0, <1>2, <1>3 DEF TokensOK
<1>16. UsesOK' BY <1>0, <1>2 DEF UsesOK
<1>17. DisposedOnce'
  <2> SUFFICES ASSUME NEW q \in Plans
               PROVE  disposals'[q] = IF request[q] = "refused" \/ q \in ended THEN 1 ELSE 0
      BY <1>2, <1>3 DEF DisposedOnce
  <2>1. disposals[q] = IF request[q] = "refused" \/ q \in ended \ Using THEN 1 ELSE 0
        BY <1>0 DEF DisposedOnce
  <2>2. disposals'[q] = disposals[q] + (IF q \in Using THEN 1 ELSE 0) BY <1>4
  <2>3. q \in Using => q \in ended /\ request[q] # "refused" BY <1>0 DEF TokensOK
  <2> QED BY <2>1, <2>2, <2>3
<1> QED BY <1>6, <1>8, <1>9, <1>13, <1>14, <1>15, <1>16, <1>17 DEF IndInv

(* The steps around the registry: disposers, handles, the client, the clock *)
(* and the last two steps of the shutdown.                                  *)
LEMMA SurroundingStep ==
    ASSUME IndInv,
           \/ \E p \in Plans : DisposalSettles(p)
           \/ \E c \in Plans \cup Applies : Cancel(c)
           \/ Tick \/ PlansClosed
    PROVE  IndInv'
<1>1. /\ UNCHANGED <<ledger, records, createdAt, retainedCount, closed, lane, request, answer, history>>
      /\ pending' \in SUBSET pending
      /\ aborted' \in SUBSET (aborted \cup Plans \cup Applies) /\ aborted \in SUBSET aborted'
      /\ now' \in {now, now + 1} /\ stage' \in {stage, "idle"}
      BY DEF DisposalSettles, Cancel, Tick, PlansClosed, registry, requests
<1>2. Using' = Using BY <1>1 DEF Using
<1> USE <1>1, <1>2 DEF ledger, history
<1>3. TypeOK' BY DEF IndInv, TypeOK, LedgerTypeOK
<1>4. LaneOK' /\ PromotedOK' /\ (CancelledUntouched /\ CancelOK)'
      BY DEF IndInv, LaneOK, PromotedOK, CancelledUntouched, CancelOK
<1>5. Accounted' /\ TokensOK' /\ UsesOK' /\ DisposedOnce'
      BY DEF IndInv, Accounted, TokensOK, UsesOK, DisposedOnce
<1> QED BY <1>3, <1>4, <1>5 DEF IndInv

(* Leases of handles come and go beside those of the plans.                 *)
LEMMA HandleStep ==
    ASSUME IndInv, SessionIdle \/ \E h \in Handles : HandleOpened(h)
    PROVE  IndInv'
<1>1. PICK out \in SUBSET Handles, in \in SUBSET Handles : Relet(out, in) /\ IsFiniteSet(in)
  <2>1. CASE SessionIdle
    <3>1. Relet(Handles, {}) /\ IsFiniteSet({}) BY <2>1, FS_EmptySet DEF SessionIdle, Release
    <3> QED BY <3>1
  <2>2. CASE \E h \in Handles : HandleOpened(h)
    <3>1. PICK h \in Handles : Relet({}, {h}) BY <2>2 DEF HandleOpened
    <3>2. IsFiniteSet({h}) BY FS_Singleton
    <3> QED BY <3>1, <3>2
  <2> QED BY <2>1, <2>2
<1>2. UNCHANGED <<registry, requests, now, history>> /\ stage' \in {stage, "complete"}
      BY DEF SessionIdle, HandleOpened
<1>3. Using' = Using BY <1>2 DEF Using, requests
<1>4. leases' = (leases \ out) \cup in BY <1>1 DEF Relet
<1>5. leases' \cap Plans = leases \cap Plans /\ (leases \subseteq Owners => leases' \subseteq Owners)
      BY <1>4, RegistryAssumption
<1>6. TypeOK BY DEF IndInv
<1>7. retainedNative' \in Int
  <2>1. IsFiniteSet(Owners) BY LedgerAssumption
  <2>2. out \cap leases \cap NativeOwners \in SUBSET Owners /\ in \cap NativeOwners \in SUBSET Owners
        BY RegistryAssumption
  <2>3. IsFiniteSet(out \cap leases \cap NativeOwners) /\ IsFiniteSet(in \cap NativeOwners)
        BY <2>1, <2>2, FS_Subset
  <2>4. Cardinality(out \cap leases \cap NativeOwners) \in Nat /\ Cardinality(in \cap NativeOwners) \in Nat
        BY <2>3, FS_CardinalityType
  <2> QED BY <2>4, <1>1, <1>6 DEF Relet, TypeOK, LedgerTypeOK
<1>8. TypeOK' BY <1>2, <1>5, <1>6, <1>7 DEF TypeOK, LedgerTypeOK, registry, requests, history
<1>9. LaneOK' /\ PromotedOK' /\ (CancelledUntouched /\ CancelOK)'
      BY <1>2 DEF IndInv, LaneOK, PromotedOK, CancelledUntouched, CancelOK, requests, history
<1>10. Accounted' BY <1>2, <1>3, <1>5 DEF IndInv, Accounted, registry
<1>11. TokensOK' /\ UsesOK' /\ DisposedOnce'
       BY <1>2, <1>3 DEF IndInv, TokensOK, UsesOK, DisposedOnce, registry, requests, history
<1> QED BY <1>8, <1>9, <1>10, <1>11 DEF IndInv

LEMMA ShutdownStep ==
    ASSUME IndInv, Shutdown
    PROVE  IndInv'
<1>0. TypeOK BY DEF IndInv
<1>1. /\ Drop(records) /\ closed' = TRUE /\ stage' = "plans" /\ aborted' = aborted \cup InProgress
      /\ UNCHANGED <<createdAt, lane, request, answer, now, uses, promoted>>
      BY DEF Shutdown
<1>2. Using' = Using BY <1>1 DEF Using
<1>3. /\ records' \in SUBSET Plans /\ ended' \in SUBSET Plans /\ pending' \in SUBSET Plans
      /\ leases' \in SUBSET Owners /\ retainedNative' \in Int /\ retainedCount' \in Nat
      /\ disposals' \in [Plans -> Int]
      /\ TokensOK' /\ UsesOK' /\ Accounted' /\ DisposedOnce'
  <2>1. records \in SUBSET records OBVIOUS
  <2> QED BY <2>1, <1>1, <1>2, DropLaw
<1>4. InProgress \subseteq Plans \cup Applies BY <1>0 DEF InProgress, TypeOK
<1>5. TypeOK' BY <1>0, <1>1, <1>3, <1>4 DEF TypeOK, LedgerTypeOK
<1>6. LaneOK' /\ PromotedOK' /\ (CancelledUntouched /\ CancelOK)'
      BY <1>1 DEF IndInv, LaneOK, PromotedOK, CancelledUntouched, CancelOK
<1> QED BY <1>3, <1>5, <1>6 DEF IndInv

LEMMA StutterStep == IndInv /\ UNCHANGED vars => IndInv'
<1> SUFFICES ASSUME IndInv, UNCHANGED vars PROVE IndInv' OBVIOUS
<1> USE DEF vars, ledger, registry, requests, history
<1>1. Using' = Using BY DEF Using
<1>2. TypeOK' BY DEF IndInv, TypeOK, LedgerTypeOK
<1>3. LaneOK' /\ PromotedOK' /\ (CancelledUntouched /\ CancelOK)'
      BY DEF IndInv, LaneOK, PromotedOK, CancelledUntouched, CancelOK
<1>4. Accounted' /\ TokensOK' /\ UsesOK' /\ DisposedOnce'
      BY <1>1 DEF IndInv, Accounted, TokensOK, UsesOK, DisposedOnce
<1> QED BY <1>2, <1>3, <1>4 DEF IndInv

-----------------------------------------------------------------------------
(* Every step of the registry, its callers and its session preserves it.    *)
THEOREM RegistryInvariance == Spec => []IndInv
<1>1. IndInv /\ [Next]_vars => IndInv'
  <2> SUFFICES ASSUME IndInv, [Next]_vars PROVE IndInv' OBVIOUS
  <2>1. CASE \E p \in Plans : PlanRequested(p) \/ PlanStep(p) \/ Discard(p)
    <3>1. PICK p \in Plans : PlanRequested(p) \/ PlanStep(p) \/ Discard(p) BY <2>1
    <3> QED BY <3>1, RequestStep, RegisterRefusedStep, RegisterStep, DiscardStep DEF PlanStep
  <2>2. CASE \E a \in Applies, p \in Plans :
               ApplyBusy(a, p) \/ ApplyInvalid(a, p) \/ ApplyMismatch(a, p) \/ Authenticate(a, p)
    BY <2>2, BusyStep, FailStep, AuthenticateStep
  <2>3. CASE ApplyStep BY <2>3, ExecutorStep, SettlesStep DEF ApplyStep
  <2>4. CASE \/ \E p \in Plans : DisposalSettles(p)
             \/ \E c \in Plans \cup Applies : Cancel(c)
             \/ Tick \/ PlansClosed
    BY <2>4, SurroundingStep
  <2>5. CASE SessionIdle \/ \E h \in Handles : HandleOpened(h) BY <2>5, HandleStep
  <2>6. CASE Shutdown BY <2>6, ShutdownStep
  <2>7. CASE UNCHANGED vars BY <2>7, StutterStep
  <2> QED BY <2>1, <2>2, <2>3, <2>4, <2>5, <2>6, <2>7 DEF Next
<1> QED BY <1>1, InitIndInv, PTL DEF Spec

(* The registry's state keeps its shape; no counter goes negative.          *)
THEOREM RegistryTyped == Spec => []TypeOK
<1>1. IndInv => TypeOK BY DEF IndInv
<1> QED BY <1>1, RegistryInvariance, PTL

(* Leases and the plan count always equal the plans retained or in use, and *)
(* stay within the limit, whatever the interleaving.                        *)
THEOREM SlotsAccounted == Spec => []Accounted
<1>1. IndInv => Accounted BY DEF IndInv
<1> QED BY <1>1, RegistryInvariance, PTL

(* Every plan the open registry took over is disposed exactly once.         *)
THEOREM DisposalExactlyOnce == Spec => []DisposedOnce
<1>1. IndInv => DisposedOnce BY DEF IndInv
<1> QED BY <1>1, RegistryInvariance, PTL

(* A token is executed at most once, and failing requests never spend it.   *)
THEOREM TokensGoodOnce == Spec => []TokenGoodOnce
<1>1. IndInv => TokenGoodOnce BY DEF IndInv, UsesOK, TokensOK, TokenGoodOnce
<1> QED BY <1>1, RegistryInvariance, PTL

(* Only an aborted request that never started to rename is answered as      *)
(* cancelled; one that did is answered by what its executor did.            *)
THEOREM CancellationTruthful == Spec => []CancelledUntouched
<1>1. IndInv => CancelledUntouched BY DEF IndInv
<1> QED BY <1>1, RegistryInvariance, PTL

-----------------------------------------------------------------------------
(* The books to the byte.  Ending: how far the shutdown has come is what    *)
(* the registry, the lane and the requests show.                            *)
Books == LedgerBalanced /\ planBytes = BytesOf(records \cup Using)

Ending ==
    /\ closed <=> stage # "open"
    /\ closed => records = {}
    /\ stage \in {"idle", "complete"} => pending = {} /\ lane.phase = "idle"
    /\ stage = "complete" => leases \cap Handles = {} /\ InProgress = {}

(* Plans that come and go in the ledger do so in the registry's own sum.    *)
LEMMA PlansMove ==
    ASSUME IndInv, Books, NEW out \in SUBSET (records \cup Using), NEW in \in SUBSET Plans,
           in \cap (records \cup Using) = {},
           in = {} \/ \E o \in Owners : in = {o} /\ Admits(o, out),
           Relet(out, in),
           planBytes' = planBytes - BytesOf(out) + BytesOf(in),
           (records \cup Using)' = ((records \cup Using) \ out) \cup in
    PROVE  Books'
<1> DEFINE live == records \cup Using
<1>1. TypeOK /\ Accounted /\ LedgerTypeOK /\ LedgerBalanced BY DEF IndInv, TypeOK, Books
<1>2. /\ leases \cap Plans = live /\ out \in SUBSET leases
      /\ in \in SUBSET Owners /\ live \in SUBSET Owners /\ in \cap (leases \ out) = {}
  BY <1>1, RegistryAssumption DEF Accounted
<1>3. LedgerBalanced' BY <1>1, <1>2, ReletBalanced
<1>4. /\ BytesOf(live \ out) = BytesOf(live) - BytesOf(out)
      /\ BytesOf(live) \in Nat /\ BytesOf(out) \in Nat /\ BytesOf(live \ out) \in Nat
  BY <1>2, BytesOfMinus
<1>5. live \ out \in SUBSET Owners /\ in \cap (live \ out) = {} BY <1>2
<1>6. BytesOf((live \ out) \cup in) = BytesOf(live \ out) + BytesOf(in) /\ BytesOf(in) \in Nat
  <2>1. in \in SUBSET Owners /\ (live \ out) \cap in = {} BY <1>2, <1>5
  <2> HIDE DEF live
  <2>2. BytesOf((live \ out) \cup in) = BytesOf(live \ out) + BytesOf(in) BY <1>5, <2>1, BytesOfUnion
  <2>3. BytesOf(in) \in Nat BY <2>1, BytesOfStep
  <2> QED BY <2>2, <2>3
<1>7. planBytes = BytesOf(live) BY DEF Books
<1>8. planBytes' = BytesOf((live \ out) \cup in) BY <1>4, <1>6, <1>7
<1> QED BY <1>3, <1>8 DEF Books

LEMMA DisposeBooks ==
    ASSUME IndInv, Books, NEW S \in SUBSET (records \cup Using), Dispose(S),
           (records \cup Using)' = (records \cup Using) \ S
    PROVE  Books'
<1>1. Relet(S, {}) /\ planBytes' = planBytes - BytesOf(S) BY DEF Dispose, Release
<1>2. records \cup Using \in SUBSET Owners
  BY LiveArePlans, RegistryAssumption DEF IndInv
<1>3. BytesOf({}) = 0 /\ BytesOf(S) \in Nat /\ BytesOf(records \cup Using) \in Nat
  BY <1>2, BytesOfStep
<1>4. planBytes' = planBytes - BytesOf(S) + BytesOf({}) BY <1>1, <1>3 DEF Books
<1>5. {} \in SUBSET Plans /\ {} \cap (records \cup Using) = {}
      /\ (records \cup Using)' = ((records \cup Using) \ S) \cup {}
  OBVIOUS
<1> QED BY <1>1, <1>4, <1>5, PlansMove

LEMMA DropBooks ==
    ASSUME IndInv, Books, NEW S \in SUBSET records, Drop(S), Using' = Using
    PROVE  Books'
<1>1. records' = records \ S /\ Dispose(S) /\ S \in SUBSET (records \cup Using) BY DEF Drop
<1>2. Using \cap records = {} BY DEF IndInv, TokensOK
<1>3. (records \cup Using)' = (records \cup Using) \ S BY <1>1, <1>2
<1> QED BY <1>1, <1>3, DisposeBooks

(* A step that moves no lease and no record.                                *)
LEMMA StillBooks ==
    ASSUME Books, UNCHANGED <<ledger, records, planBytes>>, Using' = Using
    PROVE  Books'
BY DEF Books, LedgerBalanced, ledger

LEMMA RegisterBooks ==
    ASSUME IndInv, Books, NEW p \in Plans, Register(p) \/ RegisterRefused(p)
    PROVE  Books'
<1>1. TypeOK /\ TokensOK BY DEF IndInv
<1>2. Expired \in SUBSET records /\ Expired \in SUBSET (records \cup Using) BY <1>1, LiveArePlans
<1>3. lane' = lane /\ Using' = Using BY DEF Register, RegisterRefused, Using
<1>4. Using \cap records = {} BY <1>1 DEF TokensOK
<1>5. p \notin records \cup Using BY <1>1 DEF TokensOK, Register, RegisterRefused, Returned
<1>6. records \cup Using \in SUBSET Owners /\ p \in Owners
  BY <1>1, LiveArePlans, RegistryAssumption
<1>7. BytesOf({}) = 0 /\ BytesOf(Expired) \in Nat /\ BytesOf(records \cup Using) \in Nat
  BY <1>2, <1>6, BytesOfStep
<1>8. Bytes[p] \in Nat /\ BytesOf({p}) = Bytes[p] BY <1>6, BytesOfOne
<1>9. CASE Register(p)
  <2>1. /\ records' = (records \ Expired) \cup {p} /\ Relet(Expired, {p})
        /\ planBytes' = planBytes - BytesOf(Expired) + Bytes[p] /\ Admits(p, Expired)
    BY <1>9 DEF Register, Fits
  <2>2. (records \cup Using)' = ((records \cup Using) \ Expired) \cup {p}
    BY <1>2, <1>3, <1>4, <2>1
  <2>3. {p} \in SUBSET Plans /\ {p} \cap (records \cup Using) = {} BY <1>5
  <2>4. planBytes' = planBytes - BytesOf(Expired) + BytesOf({p}) BY <1>8, <2>1
  <2> QED BY <1>2, <1>6, <2>1, <2>2, <2>3, <2>4, PlansMove
<1>10. CASE RegisterRefused(p)
  <2>1. /\ records' = records \ Expired /\ Relet(Expired, {})
        /\ planBytes' = planBytes - BytesOf(Expired)
    BY <1>10 DEF RegisterRefused, Release
  <2>2. (records \cup Using)' = ((records \cup Using) \ Expired) \cup {}
    BY <1>2, <1>3, <1>4, <2>1
  <2>3. {} \in SUBSET Plans /\ {} \cap (records \cup Using) = {} OBVIOUS
  <2>4. planBytes' = planBytes - BytesOf(Expired) + BytesOf({}) BY <1>7, <2>1 DEF Books
  <2> QED BY <1>2, <2>1, <2>2, <2>3, <2>4, PlansMove
<1> QED BY <1>9, <1>10

LEMMA ApplyBooks ==
    ASSUME IndInv, Books, NEW a \in Applies, NEW p \in Plans,
           ApplyBusy(a, p) \/ ApplyInvalid(a, p) \/ ApplyMismatch(a, p) \/ Authenticate(a, p)
    PROVE  Books'
<1>1. TypeOK /\ TokensOK /\ LaneOK BY DEF IndInv
<1>2. Expired \in SUBSET records /\ Expired \in SUBSET (records \cup Using) BY <1>1, LiveArePlans
<1>3. CASE ApplyBusy(a, p)
  BY <1>3, StillBooks DEF ApplyBusy, registry, Using
<1>4. CASE ApplyInvalid(a, p) \/ ApplyMismatch(a, p)
  <2>1. Drop(Expired) /\ lane'.plan = None /\ lane.phase = "idle"
    BY <1>4 DEF ApplyInvalid, ApplyMismatch, Fail, MayApply
  <2>2. lane.plan = None BY <1>1, <2>1 DEF LaneOK, Idle
  <2>3. Using' = Using BY <2>1, <2>2 DEF Using
  <2> QED BY <1>2, <2>1, <2>3, DropBooks
<1>5. CASE Authenticate(a, p)
  <2>1. /\ records' = (records \ Expired) \ {p} /\ Dispose(Expired) /\ lane'.plan = p
        /\ lane.phase = "idle" /\ p \in records \ Expired
    BY <1>5 DEF Authenticate, MayApply
  <2>2. Using = {} BY <1>1, <2>1 DEF LaneOK, Idle, Using
  <2>3. Using' = {p} BY <2>1, RegistryAssumption DEF Using
  <2>4. (records \cup Using)' = (records \cup Using) \ Expired BY <2>1, <2>2, <2>3
  <2> QED BY <1>2, <2>1, <2>4, DisposeBooks
<1> QED BY <1>3, <1>4, <1>5

LEMMA LaneBooks ==
    ASSUME IndInv, Books, ApplyStep
    PROVE  Books'
<1>1. CASE ApplySettles
  <2>1. Dispose(Using) /\ records' = records /\ lane' = Idle BY <1>1 DEF ApplySettles
  <2>2. Using' = {} BY <2>1 DEF Using, Idle
  <2>3. Using \cap records = {} BY DEF IndInv, TokensOK
  <2>4. (records \cup Using)' = (records \cup Using) \ Using BY <2>1, <2>2, <2>3
  <2>5. Using \in SUBSET (records \cup Using) OBVIOUS
  <2> QED BY <2>1, <2>4, <2>5, DisposeBooks
<1>2. CASE Revalidated \/ Stale \/ Promote \/ ApplyCancelled \/ ApplyFails \/ NothingToDo \/ Applied
  <2>1. UNCHANGED <<ledger, registry>>
    BY <1>2 DEF Revalidated, Stale, Promote, ApplyCancelled, ApplyFails, NothingToDo, Applied,
                UnchangedByExecutor
  <2>2. lane'.plan = lane.plan
    BY <1>2 DEF Revalidated, Stale, Promote, ApplyCancelled, ApplyFails, NothingToDo, Applied,
                Advance, Settle, IndInv, TypeOK
  <2> QED BY <2>1, <2>2, StillBooks DEF Using, registry
<1> QED BY <1>1, <1>2 DEF ApplyStep

LEMMA HandleBooks ==
    ASSUME IndInv, Books, SessionIdle \/ \E h \in Handles : HandleOpened(h)
    PROVE  Books'
<1>1. TypeOK /\ LedgerTypeOK /\ LedgerBalanced BY DEF IndInv, TypeOK, Books
<1>2. UNCHANGED <<records, planBytes, lane>> BY DEF SessionIdle, HandleOpened, registry, requests
<1>3. LedgerBalanced'
  <2>1. CASE SessionIdle
    <3>1. Relet(Handles \cap leases, {}) BY <2>1, ReletLive DEF SessionIdle, Release
    <3>2. /\ Handles \cap leases \in SUBSET leases /\ {} \in SUBSET Owners
          /\ {} \cap (leases \ (Handles \cap leases)) = {}
      OBVIOUS
    <3> QED BY <1>1, <3>1, <3>2, ReletBalanced
  <2>2. CASE \E h \in Handles : HandleOpened(h)
    <3>1. PICK h \in Handles : h \notin leases /\ Admits(h, {}) /\ Relet({}, {h})
      BY <2>2 DEF HandleOpened
    <3>2. h \in Owners /\ {h} \in SUBSET Owners /\ {} \in SUBSET leases
          /\ {h} \cap (leases \ {}) = {}
      BY <3>1, RegistryAssumption
    <3> QED BY <1>1, <3>1, <3>2, ReletBalanced
  <2> QED BY <2>1, <2>2
<1> QED BY <1>2, <1>3 DEF Books, Using

LEMMA NextBooks == IndInv /\ Books /\ [Next]_vars => Books'
<1> SUFFICES ASSUME IndInv, Books, [Next]_vars PROVE Books' OBVIOUS
<1>1. CASE \E p \in Plans : PlanRequested(p) \/ PlanStep(p) \/ Discard(p) \/ DisposalSettles(p)
  <2>1. PICK p \in Plans : PlanRequested(p) \/ PlanStep(p) \/ Discard(p) \/ DisposalSettles(p)
    BY <1>1
  <2>2. CASE \/ PlanRequested(p) \/ PlanningFails(p) \/ PlanDropped(p) \/ RegisterClosed(p)
             \/ DisposalSettles(p)
    <3>1. UNCHANGED <<ledger, records, planBytes, lane>>
      BY <2>2 DEF PlanRequested, PlanningFails, PlanDropped, RegisterClosed, DisposalSettles,
                  registry, requests
    <3> QED BY <3>1, StillBooks DEF Using
  <2>3. CASE Register(p) \/ RegisterRefused(p) BY <2>3, RegisterBooks
  <2>4. CASE Discard(p)
    <3>1. /\ Drop(Expired \cup (records \cap {p})) /\ UNCHANGED lane
          /\ Expired \cup (records \cap {p}) \in SUBSET records
      BY <2>4, LiveArePlans DEF Discard, requests, IndInv
    <3> QED BY <3>1, DropBooks DEF Using
  <2> QED BY <2>1, <2>2, <2>3, <2>4 DEF PlanStep
<1>2. CASE \E a \in Applies, p \in Plans :
             ApplyBusy(a, p) \/ ApplyInvalid(a, p) \/ ApplyMismatch(a, p) \/ Authenticate(a, p)
  BY <1>2, ApplyBooks
<1>3. CASE ApplyStep BY <1>3, LaneBooks
<1>4. CASE SessionIdle \/ \E h \in Handles : HandleOpened(h) BY <1>4, HandleBooks
<1>5. CASE Tick \/ PlansClosed \/ UNCHANGED vars \/ \E c \in Plans \cup Applies : Cancel(c)
  <2>1. UNCHANGED <<ledger, records, planBytes, lane>>
    BY <1>5 DEF Tick, PlansClosed, Cancel, registry, requests, vars
  <2> QED BY <2>1, StillBooks DEF Using
<1>6. CASE Shutdown
  <2>1. Drop(records) /\ UNCHANGED lane /\ records \in SUBSET records BY <1>6 DEF Shutdown
  <2> QED BY <2>1, DropBooks DEF Using
<1> QED BY <1>1, <1>2, <1>3, <1>4, <1>5, <1>6 DEF Next

(* The shutdown: before it anything may happen, after it nothing new.       *)
LEMMA NextEnding == IndInv /\ Ending /\ [Next]_vars => Ending'
<1> SUFFICES ASSUME IndInv, Ending, [Next]_vars PROVE Ending' OBVIOUS
<1>0. TypeOK /\ LaneOK BY DEF IndInv
<1>1. ASSUME ~closed, UNCHANGED <<closed, stage>> PROVE Ending' BY <1>1 DEF Ending
<1>2. CASE \E p \in Plans : \/ PlanRequested(p) \/ PlanningFails(p) \/ PlanDropped(p)
                            \/ RegisterClosed(p)
  <2>1. PICK p \in Plans, r \in {"planning", "failed", "dropped"} :
            /\ request' = [request EXCEPT ![p] = r]
            /\ r = "planning" => stage = "open"
    BY <1>2 DEF PlanRequested, PlanningFails, PlanDropped, RegisterClosed
  <2>2. UNCHANGED <<ledger, registry, lane, stage>>
    BY <1>2 DEF PlanRequested, PlanningFails, PlanDropped, RegisterClosed
  <2>3. stage = "complete" => InProgress' \subseteq InProgress
    BY <2>1, <2>2, <1>0 DEF InProgress, TypeOK
  <2> QED BY <2>2, <2>3 DEF Ending, ledger, registry
<1>3. CASE \E p \in Plans : Register(p) \/ RegisterRefused(p) \/ Discard(p)
  <2>1. ~closed /\ UNCHANGED <<closed, stage>> BY <1>3 DEF Register, RegisterRefused, Discard
  <2> QED BY <1>1, <2>1
<1>4. CASE \E p \in Plans : DisposalSettles(p)
  <2>1. /\ UNCHANGED <<ledger, records, closed, requests, stage>>
        /\ pending' \subseteq pending
    BY <1>4 DEF DisposalSettles
  <2> QED BY <2>1 DEF Ending, InProgress, ledger, requests
<1>5. CASE \E a \in Applies, p \in Plans :
             ApplyBusy(a, p) \/ ApplyInvalid(a, p) \/ ApplyMismatch(a, p) \/ Authenticate(a, p)
  <2>1. ~closed /\ UNCHANGED <<closed, stage>>
    BY <1>5 DEF ApplyBusy, ApplyInvalid, ApplyMismatch, Authenticate, MayApply, registry
  <2> QED BY <1>1, <2>1
<1>6. CASE ApplyStep
  <2>1. lane.phase # "idle" /\ UNCHANGED <<closed, stage, records>>
    BY <1>6, <1>0 DEF ApplyStep, Revalidated, Stale, Promote, ApplyCancelled, ApplyFails, NothingToDo,
                Applied, ApplySettles, Advance, Settle, UnchangedByExecutor, registry
  <2> QED BY <2>1 DEF Ending
<1>7. CASE \/ \E h \in Handles : HandleOpened(h)
           \/ \E c \in Plans \cup Applies : Cancel(c)
  <2>1. stage = "open" /\ UNCHANGED <<closed, stage>> BY <1>7 DEF HandleOpened, Cancel, registry
  <2> QED BY <2>1, <1>1 DEF Ending
<1>8. CASE Tick \/ UNCHANGED vars
  <2>1. UNCHANGED <<ledger, registry, requests, stage>> BY <1>8 DEF Tick, vars
  <2> QED BY <2>1 DEF Ending, InProgress, ledger, registry, requests
<1>9. CASE Shutdown
  <2>1. closed' = TRUE /\ stage' = "plans" /\ records' = records \ records
    BY <1>9 DEF Shutdown, Drop
  <2> QED BY <2>1 DEF Ending
<1>10. CASE PlansClosed
  <2>1. /\ stage = "plans" /\ stage' = "idle" /\ lane.phase = "idle" /\ pending = {}
        /\ UNCHANGED <<registry, lane>>
    BY <1>10 DEF PlansClosed, requests
  <2> QED BY <2>1 DEF Ending, registry
<1>11. CASE SessionIdle
  <2>1. /\ stage = "idle" /\ stage' = "complete" /\ InProgress = {}
        /\ UNCHANGED <<registry, requests>> /\ leases' = (leases \ Handles) \cup {}
    BY <1>11 DEF SessionIdle, Release, Relet
  <2>2. leases' \cap Handles = {} /\ InProgress' = {}
    BY <2>1 DEF InProgress, requests
  <2> QED BY <2>1, <2>2 DEF Ending, registry, requests
<1> QED BY <1>2, <1>3, <1>4, <1>5, <1>6, <1>7, <1>8, <1>9, <1>10, <1>11 DEF Next, PlanStep

(* Every lease, slot and byte comes back: the ledger and the registry agree *)
(* with the live leases in every state, and a shutdown that has come to its *)
(* end has left no plan, no disposer and no lease behind.                   *)
THEOREM BooksAlwaysBalance == Spec => []BooksBalanced
<1>1. Init => Books /\ Ending
  <2> SUFFICES ASSUME Init PROVE Books /\ Ending OBVIOUS
  <2>1. LedgerBalanced /\ Using = {} /\ records = {} /\ planBytes = 0
    BY EmptyBalanced DEF Init, Using, Idle
  <2>2. BytesOf({}) = 0 /\ records \cup Using = {} BY <2>1, BytesOfStep
  <2>3. stage = "open" /\ closed = FALSE BY DEF Init
  <2> QED BY <2>1, <2>2, <2>3 DEF Books, Ending
<1>2. IndInv /\ Books /\ Ending => BooksBalanced
  <2> SUFFICES ASSUME IndInv, Books, Ending PROVE BooksBalanced OBVIOUS
  <2>1. /\ leases \cap Plans = records \cup Using /\ leases \subseteq Plans \cup Handles
        /\ lane.phase = "idle" => lane = Idle
    BY RegistryAssumption DEF IndInv, TypeOK, LedgerTypeOK, Accounted, LaneOK
  <2>2. ASSUME stage \in {"idle", "complete"}
        PROVE  records = {} /\ pending = {} /\ lane = Idle /\ leases \cap Plans = {}
    <3>1. records = {} /\ pending = {} /\ lane = Idle BY <2>1, <2>2 DEF Ending
    <3>2. Using = {} BY <3>1 DEF Using, Idle
    <3> QED BY <3>1, <3>2, <2>1
  <2>3. ASSUME stage = "complete" PROVE leases = {} /\ retainedBytes = 0 /\ InProgress = {}
    <3>1. leases = {} /\ InProgress = {} BY <2>1, <2>2, <2>3 DEF Ending
    <3> QED BY <3>1, EmptyBalanced DEF Books
  <2> QED BY <2>2, <2>3 DEF BooksBalanced, Books
<1> QED BY <1>1, <1>2, NextBooks, NextEnding, RegistryInvariance, PTL DEF Spec
=============================================================================
