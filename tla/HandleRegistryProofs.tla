------------------------- MODULE HandleRegistryProofs -------------------------
(* Proofs about HandleRegistry for any number of sources, requests, plans   *)
(* and disposals: a carrier's files stay open as long as one authority      *)
(* holds them, and the ledger is charged exactly for the live handles.      *)
EXTENDS HandleRegistry, AuthorityLedgerProofs, FiniteSetTheorems, TLAPS

Holding == \A s \in Sources : references[s] = Cardinality(HoldersOf(s))
HeldOpen == \A s \in Sources : HoldersOf(s) # {} => carrier[s] = "open"

\* A source is nowhere before it is opened, and its handle holds its own
\* carrier until the handle is released.
NotYet == \A o \in Opens : opening[o] # "opened" =>
             o \notin records /\ \A d \in DisposeCalls : o \notin left[d]
OwnCarrier == \A s \in Sources :
    /\ held[s] \subseteq {s}
    /\ opening[s] # "opened" => HoldersOf(s) = {}
    /\ opening[s] = "new" => carrier[s] = "none"
    /\ opening[s] = "verifying" => carrier[s] = "open"
    /\ opening[s] = "opened" /\ s \notin released => held[s] = {s}

\* Each closing is waited for by one disposal.
Closings ==
    /\ \A h \in Holders : awaiting[h] # None => carrier[awaiting[h]] = "closing"
    /\ \A g, h \in Holders : awaiting[g] = awaiting[h] /\ awaiting[g] # None => g = h

Leased ==
    /\ \A h \in Leases \cup PlanLeases : step[h] # "using" => held[h] = {}
    /\ \A l \in Leases : step[l] = "checking" =>
          \A s \in HandlesOf[l] : opening[s] = "opened"

OneTurn == /\ \A d \in DisposeCalls : d \notin called => left[d] = {}
           /\ \A d \in DisposeCalls : records \cap left[d] = {}

IndInv == /\ TypeOK /\ Holding /\ HeldOpen /\ ChargeFollowsHandle
          /\ NotYet /\ OwnCarrier /\ Closings /\ Leased /\ OneTurn

-----------------------------------------------------------------------------
LEMMA HoldersFinite ==
    ASSUME NEW s
    PROVE  IsFiniteSet(HoldersOf(s))
<1>1. HoldersOf(s) \subseteq Holders BY DEF HoldersOf
<1>2. QED BY <1>1, HandlesAssumption, FS_Subset

\* Retaining adds the new authority to the holders of its carriers and leaves
\* the counts right.
LEMMA Retained ==
    ASSUME TypeOK, Holding, NEW h \in Holders, NEW S \in SUBSET Sources,
           held[h] = {}, Retain(h, S)
    PROVE  /\ Holding'
           /\ \A s \in Sources : HoldersOf(s)' = IF s \in S THEN HoldersOf(s) \cup {h}
                                                 ELSE HoldersOf(s)
           /\ references' \in [Sources -> Nat] /\ held' \in [Holders -> SUBSET Sources]
<1>1. /\ held \in [Holders -> SUBSET Sources]
      /\ references \in [Sources -> Nat]
  BY DEF TypeOK
<1>2. held' = [held EXCEPT ![h] = S] BY DEF Retain
<1>3. \A g \in Holders : held'[g] = IF g = h THEN S ELSE held[g] BY <1>1, <1>2
<1>4. ASSUME NEW s \in Sources
      PROVE  HoldersOf(s)' = IF s \in S THEN HoldersOf(s) \cup {h} ELSE HoldersOf(s)
  BY <1>3 DEF HoldersOf
<1>5. ASSUME NEW s \in Sources
      PROVE  references'[s] = Cardinality(HoldersOf(s)')
  <2>1. references'[s] = references[s] + (IF s \in S THEN 1 ELSE 0) BY DEF Retain
  <2>2. h \notin HoldersOf(s) BY DEF HoldersOf
  <2>3. references[s] = Cardinality(HoldersOf(s)) BY DEF Holding
  <2>4. CASE s \in S
    <3>1. Cardinality(HoldersOf(s) \cup {h}) = Cardinality(HoldersOf(s)) + 1
      BY <2>2, HoldersFinite, FS_AddElement
    <3>2. QED BY <3>1, <2>1, <2>3, <2>4, <1>4, <1>1
  <2>5. CASE s \notin S
    <3>1. references'[s] = references[s] BY <2>1, <2>5, <1>1
    <3>2. QED BY <3>1, <2>3, <2>5, <1>4
  <2>6. QED BY <2>4, <2>5
<1>6. references' \in [Sources -> Nat] BY <1>1 DEF Retain
<1>7. held' \in [Holders -> SUBSET Sources] BY <1>1, <1>2
<1>8. QED BY <1>4, <1>5, <1>6, <1>7 DEF Holding

\* A release takes one authority from the holders of one carrier, and closes
\* its files exactly when no holder is left.
LEMMA Given ==
    ASSUME TypeOK, Holding, HeldOpen, Closings, NEW h \in Holders, NEW s \in Sources,
           ReleaseShared(h, s)
    PROVE  /\ Holding' /\ HeldOpen' /\ Closings'
           /\ \A r \in Sources : HoldersOf(r)' \subseteq HoldersOf(r)
           /\ references' \in [Sources -> Nat] /\ held' \in [Holders -> SUBSET Sources]
           /\ \A r \in Sources : carrier'[r] # carrier[r] => r = s
           /\ carrier' \in [Sources -> {"none", "open", "closing", "closed", "leaked"}]
           /\ awaiting' \in [Holders -> Sources \cup {None}]
<1>1. /\ held \in [Holders -> SUBSET Sources]
      /\ references \in [Sources -> Nat]
      /\ carrier \in [Sources -> {"none", "open", "closing", "closed", "leaked"}]
      /\ awaiting \in [Holders -> Sources \cup {None}]
  BY DEF TypeOK
<1>2. /\ held' = [held EXCEPT ![h] = @ \ {s}]
      /\ references' = [references EXCEPT ![s] = @ - 1]
      /\ s \in held[h] /\ awaiting[h] = None
  BY DEF ReleaseShared
<1>3. \A g \in Holders : held'[g] = IF g = h THEN held[h] \ {s} ELSE held[g] BY <1>1, <1>2
<1>4. \A r \in Sources : HoldersOf(r)' = IF r = s THEN HoldersOf(s) \ {h} ELSE HoldersOf(r)
  BY <1>3 DEF HoldersOf
<1>5. h \in HoldersOf(s) BY <1>2 DEF HoldersOf
<1>6. Cardinality(HoldersOf(s) \ {h}) = Cardinality(HoldersOf(s)) - 1
  BY <1>5, HoldersFinite, FS_RemoveElement
<1>7. Cardinality(HoldersOf(s) \ {h}) \in Nat
  <2>1. IsFiniteSet(HoldersOf(s) \ {h}) BY HoldersFinite, FS_Subset
  <2>2. QED BY <2>1, FS_CardinalityType
<1>8. references[s] = Cardinality(HoldersOf(s)) BY DEF Holding
<1>9. references'[s] = Cardinality(HoldersOf(s) \ {h})
  BY <1>1, <1>2, <1>6, <1>8
<1>10. Holding'
  BY <1>1, <1>2, <1>4, <1>9 DEF Holding
<1>11. references' \in [Sources -> Nat] BY <1>1, <1>2, <1>7, <1>9
<1>12. held' \in [Holders -> SUBSET Sources] BY <1>1, <1>2
<1>13. carrier[s] = "open" BY <1>5 DEF HeldOpen
<1>14. \A g \in Holders : awaiting[g] # s \/ s = None BY <1>13 DEF Closings
<1>15. s # None BY HandlesAssumption
<1>16. CASE references[s] = 1
  <2>1. carrier' = [carrier EXCEPT ![s] = "closing"] /\ awaiting' = [awaiting EXCEPT ![h] = s]
    BY <1>16 DEF ReleaseShared
  <2>2. HoldersOf(s) \ {h} = {}
    <3>1. Cardinality(HoldersOf(s) \ {h}) = 0 BY <1>6, <1>8, <1>16
    <3>2. IsFiniteSet(HoldersOf(s) \ {h}) BY HoldersFinite, FS_Subset
    <3>3. QED BY <3>1, <3>2, FS_EmptySet
  <2>3. HeldOpen' BY <2>1, <2>2, <1>4, <1>1 DEF HeldOpen
  <2>4. Closings' BY <2>1, <1>1, <1>2, <1>14, <1>15 DEF Closings
  <2>5. QED BY <2>1, <2>3, <2>4, <1>1, <1>4, <1>10, <1>11, <1>12
<1>17. CASE references[s] # 1
  <2>1. carrier' = carrier /\ awaiting' = awaiting BY <1>17 DEF ReleaseShared
  <2>2. HeldOpen' BY <2>1, <1>4 DEF HeldOpen
  <2>3. Closings' BY <2>1 DEF Closings
  <2>4. QED BY <2>1, <2>2, <2>3, <1>1, <1>4, <1>10, <1>11, <1>12
<1>18. QED BY <1>16, <1>17

\* Giving back and taking leases keeps the ledger well-typed: handles hold no
\* native slot.
LEMMA LedgerMoves ==
    ASSUME LedgerTypeOK, NEW out, NEW in \in SUBSET Opens, Relet(out, in)
    PROVE  LedgerTypeOK' /\ leases' = (leases \ out) \cup in
<1>1. NativeOwners = {} /\ Owners = Opens BY HandlesAssumption
<1>2. out \cap leases \cap NativeOwners = {} /\ in \cap NativeOwners = {} BY <1>1
<1>3. Cardinality({}) = 0 BY FS_EmptySet
<1>4. retainedNative' = retainedNative - 0 + 0 BY <1>2, <1>3 DEF Relet
<1>5. QED BY <1>1, <1>4 DEF Relet, LedgerTypeOK

\* What a step that leaves the carriers' authorities alone cannot disturb.
LEMMA Quiescent ==
    ASSUME IndInv, UNCHANGED authority
    PROVE  /\ Holding' /\ HeldOpen' /\ Closings'
           /\ \A s \in Sources : HoldersOf(s)' = HoldersOf(s)
<1>1. UNCHANGED <<carrier, references, held, released, awaiting>> BY DEF authority
<1>2. \A s \in Sources : HoldersOf(s)' = HoldersOf(s) BY <1>1 DEF HoldersOf
<1>3. QED BY <1>1, <1>2 DEF IndInv, Holding, HeldOpen, Closings

-----------------------------------------------------------------------------
(* One lemma per group of operations.                                       *)

LEMMA InitStep == Init => IndInv
<1> SUFFICES ASSUME Init PROVE IndInv OBVIOUS
<1>1. Cardinality({}) = 0 BY FS_EmptySet
<1>2. \A s : HoldersOf(s) = {} BY DEF Init, HoldersOf
<1>3. TypeOK BY HandlesAssumption DEF Init, LedgerInit, TypeOK, LedgerTypeOK
<1>4. Holding BY <1>1, <1>2 DEF Init, Holding
<1>5. HeldOpen BY <1>2 DEF HeldOpen
<1>6. ChargeFollowsHandle BY DEF Init, LedgerInit, ChargeFollowsHandle
<1>7. NotYet /\ OneTurn BY DEF Init, NotYet, OneTurn
<1>8. OwnCarrier
  <2>1. Sources \subseteq Holders /\ Sources \subseteq Opens BY DEF Holders, Opens
  <2>2. QED BY <1>2, <2>1 DEF Init, OwnCarrier
<1>9. Closings BY DEF Init, Closings
<1>10. Leased
  <2>1. Leases \cup PlanLeases \subseteq Holders BY DEF Holders
  <2>2. QED BY <2>1 DEF Init, Leased
<1>11. QED BY <1>3, <1>4, <1>5, <1>6, <1>7, <1>8, <1>9, <1>10 DEF IndInv

LEMMA ClosingStep ==
    ASSUME IndInv, NEW h \in Holders, CarrierCloses(h)
    PROVE  IndInv'
<1>1. TypeOK /\ Holding /\ HeldOpen /\ Closings /\ OwnCarrier BY DEF IndInv
<1>2. awaiting[h] \in Sources /\ carrier[awaiting[h]] = "closing"
  BY <1>1 DEF CarrierCloses, TypeOK, Closings
<1>3. /\ carrier' = [carrier EXCEPT ![awaiting[h]] = "closed"]
      /\ awaiting' = [awaiting EXCEPT ![h] = None]
      /\ UNCHANGED <<ledger, opening, records, references, held, released, step, disposal>>
  BY DEF CarrierCloses
<1>4. \A s \in Sources : HoldersOf(s)' = HoldersOf(s) BY <1>3 DEF HoldersOf
<1>5. TypeOK' BY <1>1, <1>3 DEF TypeOK, LedgerTypeOK, ledger, disposal
<1>6. Holding' BY <1>1, <1>3, <1>4 DEF Holding
<1>7. HeldOpen'
  <2>1. HoldersOf(awaiting[h]) = {} BY <1>1, <1>2 DEF HeldOpen
  <2>2. QED BY <2>1, <1>1, <1>3, <1>4 DEF HeldOpen, TypeOK
<1>8. ChargeFollowsHandle' /\ NotYet' /\ Leased' /\ OneTurn'
  BY <1>3 DEF IndInv, ChargeFollowsHandle, NotYet, Leased, OneTurn, ledger, disposal
<1>9. OwnCarrier' BY <1>1, <1>2, <1>3, <1>4 DEF OwnCarrier, TypeOK
<1>10. Closings' BY <1>1, <1>2, <1>3 DEF Closings, TypeOK
<1>11. QED BY <1>5, <1>6, <1>7, <1>8, <1>9, <1>10 DEF IndInv

\* The carrier of a source whose verification starts, fails or is refused.
LEMMA OpeningStep ==
    ASSUME IndInv, NEW s \in Opens, OpenStarts(s) \/ OpenFails(s) \/ OpenRefused(s)
    PROVE  IndInv'
<1>1. TypeOK /\ Holding /\ HeldOpen /\ Closings /\ OwnCarrier BY DEF IndInv
<1>2. /\ UNCHANGED <<ledger, records, references, held, step, disposal>>
      /\ opening[s] \in {"new", "verifying"}
      /\ opening' \in {[opening EXCEPT ![s] = "verifying"], [opening EXCEPT ![s] = "refused"]}
  BY DEF OpenStarts, OpenFails, OpenRefused
<1>3. \A c \in Sources : HoldersOf(c)' = HoldersOf(c) BY <1>2 DEF HoldersOf
<1>4. Sources \subseteq Opens /\ Sources \subseteq Holders BY DEF Opens, Holders
<1>5. opening \in [Opens -> {"new", "verifying", "opened", "refused"}] BY <1>1 DEF TypeOK
<1>6. \A o \in Opens : /\ o # s => opening'[o] = opening[o]
                       /\ opening'[s] # "opened"
  BY <1>2, <1>5
<1>7. s \in Sources => HoldersOf(s) = {} BY <1>1, <1>2 DEF OwnCarrier
<1>8. carrier \in [Sources -> {"none", "open", "closing", "closed", "leaked"}]
      /\ awaiting \in [Holders -> Sources \cup {None}]
  BY <1>1 DEF TypeOK
<1>9. /\ carrier' \in [Sources -> {"none", "open", "closing", "closed", "leaked"}]
      /\ \A c \in Sources : c # s => carrier'[c] = carrier[c]
  BY <1>4, <1>8 DEF OpenStarts, OpenFails, OpenRefused
<1>10. TypeOK'
  <2>1. opening' \in [Opens -> {"new", "verifying", "opened", "refused"}] BY <1>2, <1>5
  <2>2. awaiting' \in [Holders -> Sources \cup {None}] /\ released' \subseteq Holders
    BY <1>1, <1>4, <1>8 DEF OpenStarts, OpenFails, OpenRefused, TypeOK
  <2>3. QED BY <1>1, <1>2, <1>9, <2>1, <2>2 DEF TypeOK, LedgerTypeOK, ledger, disposal
<1>11. Holding' BY <1>1, <1>2, <1>3 DEF Holding
<1>12. HeldOpen' BY <1>1, <1>3, <1>7, <1>9 DEF HeldOpen
<1>13. ChargeFollowsHandle' /\ OneTurn'
  BY <1>2 DEF IndInv, ChargeFollowsHandle, OneTurn, ledger, disposal
<1>14. NotYet'
  BY <1>2, <1>6 DEF IndInv, NotYet, disposal
<1>15. Leased'
  <2>1. \A c \in Sources : opening[c] = "opened" => opening'[c] = "opened"
    BY <1>2, <1>4, <1>6
  <2>2. \A l \in Leases : HandlesOf[l] \subseteq Sources BY HandlesAssumption
  <2>3. QED BY <1>2, <2>1, <2>2 DEF IndInv, Leased
<1>16. OwnCarrier'
  <2> SUFFICES ASSUME NEW c \in Sources
               PROVE  /\ held'[c] \subseteq {c}
                      /\ opening'[c] # "opened" => HoldersOf(c)' = {}
                      /\ opening'[c] = "new" => carrier'[c] = "none"
                      /\ opening'[c] = "verifying" => carrier'[c] = "open"
                      /\ opening'[c] = "opened" /\ c \notin released' => held'[c] = {c}
    BY DEF OwnCarrier
  <2>1. c # s => (c \notin released' <=> c \notin released)
    BY DEF OpenStarts, OpenFails, OpenRefused
  <2>2. CASE c # s BY <2>1, <2>2, <1>1, <1>2, <1>3, <1>4, <1>6, <1>9 DEF OwnCarrier
  <2>3. CASE c = s
    <3>1. /\ opening'[s] \in {"verifying", "refused"}
          /\ opening'[s] = "verifying" => carrier'[s] = "open"
      BY <2>3, <1>5 DEF OpenStarts, OpenFails, OpenRefused
    <3>2. QED BY <3>1, <2>3, <1>1, <1>2, <1>3, <1>7 DEF OwnCarrier
  <2>4. QED BY <2>2, <2>3
<1>17. Closings'
  <2>1. CASE awaiting' = awaiting
    <3>1. s \in Sources => carrier[s] \in {"none", "open"}
      BY <1>1, <1>2 DEF OwnCarrier
    <3>2. \A h \in Holders : awaiting[h] # None => awaiting[h] # s
      BY <3>1, <1>1, <1>8 DEF Closings
    <3>3. QED BY <2>1, <3>2, <1>1, <1>8, <1>9 DEF Closings
  <2>2. CASE awaiting' # awaiting
    <3>1. /\ OpenRefused(s) /\ s \in Sources
      BY <2>2 DEF OpenStarts, OpenFails, OpenRefused
    <3>2. /\ carrier' = [carrier EXCEPT ![s] = "closing"]
          /\ awaiting' = [awaiting EXCEPT ![s] = s]
          /\ carrier[s] = "open"
      BY <3>1, <1>1 DEF OpenRefused, OwnCarrier
    <3>3. \A h \in Holders : awaiting[h] # s BY <3>1, <3>2, <1>1, <1>8, HandlesAssumption DEF Closings
    <3>4. QED BY <3>1, <3>2, <3>3, <1>1, <1>4, <1>8 DEF Closings
  <2>3. QED BY <2>1, <2>2
<1>18. QED BY <1>10, <1>11, <1>12, <1>13, <1>14, <1>15, <1>16, <1>17 DEF IndInv

LEMMA OpenedStep ==
    ASSUME IndInv, NEW s \in Opens, OpenSucceeds(s)
    PROVE  IndInv'
<1>1. TypeOK /\ Holding /\ HeldOpen /\ Closings /\ OwnCarrier /\ NotYet BY DEF IndInv
<1>2. /\ opening[s] = "verifying" /\ opening' = [opening EXCEPT ![s] = "opened"]
      /\ records' = records \cup {s}
      /\ Relet({}, {s})
      /\ UNCHANGED <<carrier, released, awaiting, step, disposal>>
  BY DEF OpenSucceeds
<1>3. Sources \subseteq Opens /\ Sources \subseteq Holders BY DEF Opens, Holders
<1>4. LedgerTypeOK' /\ leases' = leases \cup {s}
  BY <1>1, <1>2, LedgerMoves DEF TypeOK
<1>5. opening \in [Opens -> {"new", "verifying", "opened", "refused"}] BY <1>1 DEF TypeOK
<1>6. \A o \in Opens : opening'[o] = IF o = s THEN "opened" ELSE opening[o] BY <1>2, <1>5
<1>7. s \in Sources => held[s] = {}
  <2>1. s \in Sources => HoldersOf(s) = {} /\ held[s] \subseteq {s} BY <1>1, <1>2 DEF OwnCarrier
  <2>2. s \in Sources => s \notin held[s] BY <2>1, <1>3 DEF HoldersOf
  <2>3. QED BY <2>1, <2>2
<1>8. /\ Holding'
      /\ \A c \in Sources : HoldersOf(c)' = IF c = s THEN HoldersOf(c) \cup {s} ELSE HoldersOf(c)
      /\ references' \in [Sources -> Nat] /\ held' \in [Holders -> SUBSET Sources]
  <2>1. CASE s \in Sources
    <3>1. Retain(s, {s}) BY <2>1 DEF OpenSucceeds
    <3>2. {s} \in SUBSET Sources /\ s \in Holders BY <2>1, <1>3
    <3>3. /\ Holding'
          /\ \A c \in Sources : HoldersOf(c)' = IF c \in {s} THEN HoldersOf(c) \cup {s}
                                                ELSE HoldersOf(c)
          /\ references' \in [Sources -> Nat] /\ held' \in [Holders -> SUBSET Sources]
      BY <3>1, <3>2, <2>1, <1>1, <1>7, Retained
    <3>4. QED BY <3>3
  <2>2. CASE s \notin Sources
    <3>1. UNCHANGED <<held, references>> BY <2>2 DEF OpenSucceeds
    <3>2. \A c \in Sources : HoldersOf(c)' = HoldersOf(c) BY <3>1 DEF HoldersOf
    <3>3. QED BY <3>1, <3>2, <2>2, <1>1 DEF Holding, TypeOK
  <2>3. QED BY <2>1, <2>2
<1>9. \A h \in Holders : held'[h] = IF h = s /\ s \in Sources THEN {s} ELSE held[h]
  BY <1>1, <1>3 DEF OpenSucceeds, Retain, TypeOK
<1>10. TypeOK'
  <2>1. opening' \in [Opens -> {"new", "verifying", "opened", "refused"}] BY <1>2, <1>5
  <2>2. QED BY <1>1, <1>2, <1>4, <1>8, <2>1 DEF TypeOK, disposal
<1>11. HeldOpen' BY <1>1, <1>2, <1>8 DEF HeldOpen, OwnCarrier
<1>12. ChargeFollowsHandle' BY <1>2, <1>4 DEF IndInv, ChargeFollowsHandle, disposal
<1>13. NotYet' BY <1>1, <1>2, <1>6 DEF NotYet, disposal
<1>14. OwnCarrier'
  <2> SUFFICES ASSUME NEW c \in Sources
               PROVE  /\ held'[c] \subseteq {c}
                      /\ opening'[c] # "opened" => HoldersOf(c)' = {}
                      /\ opening'[c] = "new" => carrier'[c] = "none"
                      /\ opening'[c] = "verifying" => carrier'[c] = "open"
                      /\ opening'[c] = "opened" /\ c \notin released' => held'[c] = {c}
    BY DEF OwnCarrier
  <2>1. CASE c # s BY <2>1, <1>1, <1>2, <1>3, <1>6, <1>8, <1>9 DEF OwnCarrier
  <2>2. CASE c = s BY <2>2, <1>2, <1>3, <1>6, <1>8, <1>9
  <2>3. QED BY <2>1, <2>2
<1>15. Closings' BY <1>1, <1>2 DEF Closings
<1>16. Leased'
  <2>1. \A h \in Leases \cup PlanLeases : h # s \/ s \notin Sources
    BY HandlesAssumption
  <2>2. \A h \in Leases \cup PlanLeases : held'[h] = held[h] BY <2>1, <1>9 DEF Holders
  <2>3. \A l \in Leases : HandlesOf[l] \subseteq Opens BY <1>3, HandlesAssumption
  <2>4. QED BY <2>2, <2>3, <1>2, <1>6 DEF IndInv, Leased
<1>17. OneTurn' BY <1>1, <1>2 DEF IndInv, OneTurn, NotYet, disposal
<1>18. QED BY <1>8, <1>10, <1>11, <1>12, <1>13, <1>14, <1>15, <1>16, <1>17 DEF IndInv

\* A lease is asked for, found unknown, or fails: it holds nothing.
LEMMA AskingStep ==
    ASSUME IndInv, NEW l \in Leases, LeaseStarts(l) \/ LeaseUnknown(l) \/ LeaseFails(l)
    PROVE  IndInv'
<1>1. TypeOK /\ Leased /\ NotYet BY DEF IndInv
<1>2. /\ UNCHANGED <<ledger, opening, records, disposal, authority>>
      /\ step[l] \in {"new", "checking"}
      /\ step' \in {[step EXCEPT ![l] = "checking"], [step EXCEPT ![l] = "failed"]}
      /\ step' = [step EXCEPT ![l] = "checking"] => HandlesOf[l] \subseteq records
  <2>1. CASE LeaseStarts(l) BY <2>1 DEF LeaseStarts, Goto
  <2>2. CASE LeaseUnknown(l) \/ LeaseFails(l)
    <3>1. step' = [step EXCEPT ![l] = "failed"] BY <2>2 DEF LeaseUnknown, LeaseFails, Goto
    <3>2. step' # [step EXCEPT ![l] = "checking"] BY <3>1, <1>1 DEF TypeOK
    <3>3. QED BY <3>1, <3>2, <2>2 DEF LeaseUnknown, LeaseFails, Goto
  <2>3. QED BY <2>1, <2>2
<1>3. step' \in [Leases \cup PlanLeases -> {"new", "checking", "using", "failed"}]
  BY <1>1, <1>2 DEF TypeOK
<1>4. TypeOK' BY <1>1, <1>2, <1>3 DEF TypeOK, LedgerTypeOK, ledger, authority, disposal
<1>5. Holding' /\ HeldOpen' /\ Closings' /\ \A s \in Sources : HoldersOf(s)' = HoldersOf(s)
  BY <1>2, Quiescent
<1>6. ChargeFollowsHandle' /\ NotYet' /\ OneTurn' /\ OwnCarrier'
  BY <1>2, <1>5 DEF IndInv, ChargeFollowsHandle, NotYet, OneTurn, OwnCarrier, ledger, authority,
                    disposal
<1>7. Leased'
  <2>1. \A s \in HandlesOf[l] : s \in records => opening[s] = "opened"
    BY <1>1, HandlesAssumption DEF NotYet, Opens
  <2>2. \A h \in Leases \cup PlanLeases : step'[h] # "using" => held'[h] = {}
    BY <1>1, <1>2 DEF TypeOK, Leased, authority
  <2>3. \A k \in Leases : k # l => step'[k] = step[k] BY <1>1, <1>2 DEF TypeOK
  <2>4. step'[l] = "checking" => \A s \in HandlesOf[l] : opening'[s] = "opened"
    BY <2>1, <1>1, <1>2 DEF TypeOK
  <2>5. QED BY <2>2, <2>3, <2>4, <1>1, <1>2 DEF Leased
<1>8. QED BY <1>4, <1>5, <1>6, <1>7 DEF IndInv

\* A lease or a plan takes its part of carriers that are all held by live
\* authorities.
LEMMA TakingStep ==
    ASSUME IndInv, NEW h \in Leases \cup PlanLeases, NEW S \in SUBSET Sources,
           step[h] # "using", Retain(h, S), Goto(h, "using"),
           UNCHANGED <<carrier, released, awaiting>>,
           \A s \in S : HoldersOf(s) # {}
    PROVE  IndInv'
<1>1. TypeOK /\ Holding /\ HeldOpen /\ Closings /\ OwnCarrier /\ Leased BY DEF IndInv
<1>2. h \in Holders /\ h \notin Sources BY HandlesAssumption DEF Holders
<1>3. held[h] = {} BY <1>1 DEF Leased
<1>4. /\ Holding'
      /\ \A s \in Sources : HoldersOf(s)' = IF s \in S THEN HoldersOf(s) \cup {h}
                                            ELSE HoldersOf(s)
      /\ references' \in [Sources -> Nat] /\ held' \in [Holders -> SUBSET Sources]
  BY <1>1, <1>2, <1>3, Retained
<1>5. /\ step' = [step EXCEPT ![h] = "using"]
      /\ UNCHANGED <<ledger, opening, records, disposal>>
  BY DEF Goto
<1>6. \A g \in Holders : g # h => held'[g] = held[g] BY <1>1 DEF Retain, TypeOK
<1>7. TypeOK' BY <1>1, <1>4, <1>5 DEF TypeOK, LedgerTypeOK, ledger, disposal
<1>8. HeldOpen' BY <1>1, <1>4 DEF HeldOpen
<1>9. ChargeFollowsHandle' /\ NotYet' /\ OneTurn'
  BY <1>5 DEF IndInv, ChargeFollowsHandle, NotYet, OneTurn, ledger, disposal
<1>10. OwnCarrier'
  <2>1. \A s \in Sources : held'[s] = held[s] BY <1>2, <1>6 DEF Holders
  <2>2. \A s \in Sources : opening[s] # "opened" => HoldersOf(s)' = {}
    BY <1>1, <1>4 DEF OwnCarrier
  <2>3. QED BY <2>1, <2>2, <1>1, <1>5 DEF OwnCarrier
<1>11. Closings' BY <1>1 DEF Closings
<1>12. Leased'
  <2>1. \A g \in Leases \cup PlanLeases : g # h => step'[g] = step[g] /\ held'[g] = held[g]
    BY <1>1, <1>5, <1>6 DEF TypeOK, Holders
  <2>2. step'[h] = "using" BY <1>1, <1>5 DEF TypeOK
  <2>3. QED BY <2>1, <2>2, <1>1, <1>5 DEF Leased
<1>13. QED BY <1>4, <1>7, <1>8, <1>9, <1>10, <1>11, <1>12 DEF IndInv

LEMMA CombiningStep ==
    ASSUME IndInv, NEW l \in Leases, LeaseCombined(l)
    PROVE  IndInv'
<1>1. OwnCarrier /\ Leased BY DEF IndInv
<1>2. step[l] = "checking" /\ HandlesOf[l] \cap released = {} BY DEF LeaseCombined
<1>3. HandlesOf[l] \in SUBSET Sources BY HandlesAssumption
<1>4. ASSUME NEW s \in HandlesOf[l] PROVE HoldersOf(s) # {}
  <2>1. held[s] = {s} BY <1>1, <1>2, <1>3 DEF OwnCarrier, Leased
  <2>2. s \in HoldersOf(s) BY <2>1, <1>3 DEF HoldersOf, Holders
  <2>3. QED BY <2>2
<1>5. Retain(l, HandlesOf[l]) /\ Goto(l, "using") /\ UNCHANGED <<carrier, released, awaiting>>
  BY DEF LeaseCombined
<1>6. step[l] # "using" BY <1>2
<1>7. QED BY <1>3, <1>4, <1>5, <1>6, TakingStep

LEMMA PlanningStep ==
    ASSUME IndInv, NEW p \in PlanLeases, PlanLeased(p)
    PROVE  IndInv'
<1>1. LeaseOf[p] \in Leases /\ LeaseOf[p] \in Holders BY HandlesAssumption DEF Holders
<1>2. held[LeaseOf[p]] \in SUBSET Sources BY <1>1 DEF IndInv, TypeOK
<1>3. \A s \in held[LeaseOf[p]] : HoldersOf(s) # {} BY <1>1 DEF HoldersOf
<1>4. /\ Retain(p, held[LeaseOf[p]]) /\ Goto(p, "using")
      /\ UNCHANGED <<carrier, released, awaiting>> /\ step[p] # "using"
  BY DEF PlanLeased
<1>5. QED BY <1>2, <1>3, <1>4, TakingStep

LEMMA GivingStep ==
    ASSUME IndInv, NEW h \in Leases \cup PlanLeases, LeaseDisposed(h)
    PROVE  IndInv'
<1>1. TypeOK /\ Holding /\ HeldOpen /\ Closings /\ OwnCarrier /\ Leased BY DEF IndInv
<1>2. h \in Holders /\ h \notin Sources BY HandlesAssumption DEF Holders
<1>3. PICK s \in Sources : ReleaseShared(h, s) BY DEF LeaseDisposed
<1>4. /\ Holding' /\ HeldOpen' /\ Closings'
      /\ \A r \in Sources : HoldersOf(r)' \subseteq HoldersOf(r)
      /\ references' \in [Sources -> Nat] /\ held' \in [Holders -> SUBSET Sources]
      /\ \A r \in Sources : carrier'[r] # carrier[r] => r = s
      /\ carrier' \in [Sources -> {"none", "open", "closing", "closed", "leaked"}]
      /\ awaiting' \in [Holders -> Sources \cup {None}]
  BY <1>1, <1>2, <1>3, Given
<1>5. /\ UNCHANGED <<ledger, opening, records, step, disposal>> /\ step[h] = "using"
      /\ released' = released \cup {h}
      /\ held' = [held EXCEPT ![h] = @ \ {s}] /\ s \in held[h]
  BY <1>3 DEF LeaseDisposed, ReleaseShared
<1>6. \A g \in Holders : g # h => held'[g] = held[g] BY <1>1, <1>5 DEF TypeOK
<1>7. TypeOK' BY <1>1, <1>2, <1>4, <1>5 DEF TypeOK, LedgerTypeOK, ledger, disposal
<1>8. ChargeFollowsHandle' /\ NotYet' /\ OneTurn'
  BY <1>5 DEF IndInv, ChargeFollowsHandle, NotYet, OneTurn, ledger, disposal
<1>9. opening[s] = "opened"
  <2>1. h \in HoldersOf(s) BY <1>2, <1>5 DEF HoldersOf
  <2>2. QED BY <2>1, <1>1 DEF OwnCarrier
<1>10. OwnCarrier'
  <2>1. \A c \in Sources : held'[c] = held[c] /\ (c \in released' <=> c \in released)
    BY <1>2, <1>5, <1>6 DEF Holders
  <2>2. \A c \in Sources : opening[c] # "opened" => HoldersOf(c)' = {} /\ carrier'[c] = carrier[c]
    BY <1>1, <1>4, <1>9 DEF OwnCarrier
  <2>3. QED BY <2>1, <2>2, <1>1, <1>5 DEF OwnCarrier
<1>11. Leased'
  <2>1. \A g \in Leases \cup PlanLeases : g # h => held'[g] = held[g]
    BY <1>6 DEF Holders
  <2>2. QED BY <2>1, <1>1, <1>5 DEF Leased
<1>12. QED BY <1>4, <1>7, <1>8, <1>10, <1>11 DEF IndInv

LEMMA CallingStep ==
    ASSUME IndInv, NEW d \in DisposeCalls, DisposeCalled(d)
    PROVE  IndInv'
<1>1. TypeOK /\ ChargeFollowsHandle /\ NotYet /\ OwnCarrier /\ Leased /\ OneTurn BY DEF IndInv
<1>2. /\ UNCHANGED <<ledger, opening, authority, step, current>>
      /\ d \notin called /\ called' = called \cup {d}
      /\ left' = [left EXCEPT ![d] = records] /\ records' = {}
  BY DEF DisposeCalled
<1>3. \A e \in DisposeCalls : left'[e] = IF e = d THEN records ELSE left[e]
  BY <1>1, <1>2 DEF TypeOK
<1>4. left[d] = {} BY <1>1, <1>2 DEF OneTurn
<1>5. TypeOK'
  <2>1. left' \in [DisposeCalls -> SUBSET Opens] BY <1>1, <1>2 DEF TypeOK
  <2>2. QED BY <2>1, <1>1, <1>2 DEF TypeOK, LedgerTypeOK, ledger, authority
<1>6. Holding' /\ HeldOpen' /\ Closings' /\ \A s \in Sources : HoldersOf(s)' = HoldersOf(s)
  BY <1>2, Quiescent
<1>7. ChargeFollowsHandle'
  <2>1. UNION {left'[e] : e \in DisposeCalls} = records \cup UNION {left[e] : e \in DisposeCalls}
    <3>1. ASSUME NEW o PROVE (\E e \in DisposeCalls : o \in left'[e])
                             <=> (o \in records \/ \E e \in DisposeCalls : o \in left[e])
      BY <1>3, <1>4
    <3>2. QED BY <3>1
  <2>2. \A e, f \in DisposeCalls : left'[e] \cap left'[f] # {} => e = f
    BY <1>1, <1>3 DEF ChargeFollowsHandle, OneTurn
  <2>3. leases' = leases BY <1>2 DEF ledger
  <2>4. QED BY <2>1, <2>2, <2>3, <1>1, <1>2 DEF ChargeFollowsHandle
<1>8. NotYet' BY <1>1, <1>2, <1>3 DEF NotYet
<1>9. OwnCarrier' /\ Leased' BY <1>1, <1>2, <1>6 DEF OwnCarrier, Leased, authority
<1>10. OneTurn' BY <1>1, <1>2, <1>3 DEF OneTurn
<1>11. QED BY <1>5, <1>6, <1>7, <1>8, <1>9, <1>10 DEF IndInv

\* A disposal takes its next record and gives its charge back.
LEMMA Charged ==
    ASSUME TypeOK, ChargeFollowsHandle, NotYet, OneTurn, NEW d \in DisposeCalls, NEW s \in left[d],
           left' = [left EXCEPT ![d] = @ \ {s}], Release({s}),
           UNCHANGED <<opening, records, called>>
    PROVE  ChargeFollowsHandle' /\ NotYet' /\ OneTurn' /\ LedgerTypeOK'
           /\ left' \in [DisposeCalls -> SUBSET Opens]
<1>1. left \in [DisposeCalls -> SUBSET Opens] BY DEF TypeOK
<1>2. \A e \in DisposeCalls : left'[e] = IF e = d THEN left[d] \ {s} ELSE left[e] BY <1>1
<1>3. s \notin records /\ \A e \in DisposeCalls : e # d => s \notin left[e]
  BY DEF OneTurn, ChargeFollowsHandle
<1>4. LedgerTypeOK' /\ leases' = leases \ {s}
  <2>1. {} \in SUBSET Opens OBVIOUS
  <2>2. LedgerTypeOK' /\ leases' = (leases \ {s}) \cup {}
    BY <2>1, LedgerMoves DEF Release, TypeOK
  <2>3. QED BY <2>2
<1>5. UNION {left'[e] : e \in DisposeCalls} = (UNION {left[e] : e \in DisposeCalls}) \ {s}
  <2>1. ASSUME NEW e \in DisposeCalls PROVE left'[e] = left[e] \ {s}
    BY <1>2, <1>3
  <2>2. QED BY <2>1
<1>6. ChargeFollowsHandle' BY <1>2, <1>3, <1>4, <1>5 DEF ChargeFollowsHandle
<1>7. NotYet' /\ OneTurn' BY <1>2 DEF NotYet, OneTurn
<1>8. QED BY <1>1, <1>4, <1>6, <1>7

LEMMA DisposingStep ==
    ASSUME IndInv, NEW d \in DisposeCalls, NEW s \in Opens,
           DisposeSource(d, s) \/ DisposeAuxiliary(d, s)
    PROVE  IndInv'
<1>1. TypeOK /\ Holding /\ HeldOpen /\ Closings /\ OwnCarrier /\ Leased
      /\ ChargeFollowsHandle /\ NotYet /\ OneTurn
  BY DEF IndInv
<1>2. /\ left' = [left EXCEPT ![d] = @ \ {s}] /\ s \in left[d] /\ Release({s})
      /\ UNCHANGED <<opening, records, called, step>>
  BY DEF DisposeSource, DisposeAuxiliary
<1>3. ChargeFollowsHandle' /\ NotYet' /\ OneTurn' /\ LedgerTypeOK'
      /\ left' \in [DisposeCalls -> SUBSET Opens]
  BY <1>1, <1>2, Charged
<1>4. CASE DisposeAuxiliary(d, s)
  <2>1. UNCHANGED authority /\ UNCHANGED current BY <1>4 DEF DisposeAuxiliary
  <2>2. Holding' /\ HeldOpen' /\ Closings' /\ \A r \in Sources : HoldersOf(r)' = HoldersOf(r)
    BY <2>1, Quiescent
  <2>3. OwnCarrier' /\ Leased' BY <1>1, <1>2, <2>1, <2>2 DEF OwnCarrier, Leased, authority
  <2>4. TypeOK' BY <1>1, <1>2, <1>3, <2>1 DEF TypeOK, authority
  <2>5. QED BY <1>3, <2>2, <2>3, <2>4 DEF IndInv
<1>5. CASE DisposeSource(d, s)
  <2>1. s \in Sources /\ s \in Holders /\ ReleaseShared(s, s) /\ current' = [current EXCEPT ![d] = s]
    BY <1>5 DEF DisposeSource, Holders
  <2>2. /\ Holding' /\ HeldOpen' /\ Closings'
        /\ \A r \in Sources : HoldersOf(r)' \subseteq HoldersOf(r)
        /\ references' \in [Sources -> Nat] /\ held' \in [Holders -> SUBSET Sources]
        /\ \A r \in Sources : carrier'[r] # carrier[r] => r = s
        /\ carrier' \in [Sources -> {"none", "open", "closing", "closed", "leaked"}]
        /\ awaiting' \in [Holders -> Sources \cup {None}]
    BY <1>1, <2>1, Given
  <2>3. /\ released' = released \cup {s}
        /\ held' = [held EXCEPT ![s] = @ \ {s}]
    BY <2>1 DEF ReleaseShared
  <2>4. opening[s] = "opened" BY <1>1, <1>2 DEF NotYet
  <2>5. \A g \in Holders : g # s => held'[g] = held[g] BY <1>1, <2>3 DEF TypeOK
  <2>6. held'[s] \subseteq held[s] BY <1>1, <2>1, <2>3 DEF TypeOK
  <2>7. OwnCarrier'
    <3> SUFFICES ASSUME NEW c \in Sources
                 PROVE  /\ held'[c] \subseteq {c}
                        /\ opening'[c] # "opened" => HoldersOf(c)' = {}
                        /\ opening'[c] = "new" => carrier'[c] = "none"
                        /\ opening'[c] = "verifying" => carrier'[c] = "open"
                        /\ opening'[c] = "opened" /\ c \notin released' => held'[c] = {c}
      BY DEF OwnCarrier
    <3>1. CASE c # s
      <4>1. held'[c] = held[c] /\ carrier'[c] = carrier[c] BY <3>1, <2>2, <2>5 DEF Holders
      <4>2. QED BY <4>1, <3>1, <1>1, <1>2, <2>2, <2>3 DEF OwnCarrier
    <3>2. CASE c = s BY <3>2, <1>1, <1>2, <2>3, <2>4, <2>6 DEF OwnCarrier
    <3>3. QED BY <3>1, <3>2
  <2>8. Leased'
    <3>1. \A g \in Leases \cup PlanLeases : held'[g] = held[g]
      BY <2>1, <2>5, HandlesAssumption DEF Holders
    <3>2. QED BY <3>1, <1>1, <1>2 DEF Leased
  <2>9. TypeOK'
    <3>1. current' \in [DisposeCalls -> Sources \cup {None}] BY <1>1, <2>1 DEF TypeOK
    <3>2. released' \subseteq Holders BY <1>1, <2>1, <2>3 DEF TypeOK
    <3>3. QED BY <3>1, <3>2, <1>1, <1>2, <1>3, <2>2 DEF TypeOK
  <2>10. QED BY <1>3, <2>2, <2>7, <2>8, <2>9 DEF IndInv
<1>6. QED BY <1>4, <1>5

-----------------------------------------------------------------------------
LEMMA NextStep == IndInv /\ [Next]_vars => IndInv'
<1> SUFFICES ASSUME IndInv, [Next]_vars PROVE IndInv' OBVIOUS
<1>1. CASE Next
  <2>1. CASE \E s \in Opens : OpenStarts(s) \/ OpenFails(s) \/ OpenSucceeds(s) \/ OpenRefused(s)
    BY <2>1, OpeningStep, OpenedStep
  <2>2. CASE \E l \in Leases : LeaseStarts(l) \/ LeaseUnknown(l) \/ LeaseFails(l) \/ LeaseCombined(l)
    BY <2>2, AskingStep, CombiningStep
  <2>3. CASE \E p \in PlanLeases : PlanLeased(p) BY <2>3, PlanningStep
  <2>4. CASE \E h \in Leases \cup PlanLeases : LeaseDisposed(h) BY <2>4, GivingStep
  <2>5. CASE \E h \in Holders : CarrierCloses(h) BY <2>5, ClosingStep
  <2>6. CASE \E d \in DisposeCalls : DisposeCalled(d) BY <2>6, CallingStep
  <2>7. CASE \E d \in DisposeCalls, s \in Opens : DisposeSource(d, s) \/ DisposeAuxiliary(d, s)
    BY <2>7, DisposingStep
  <2>8. QED BY <1>1, <2>1, <2>2, <2>3, <2>4, <2>5, <2>6, <2>7 DEF Next
<1>2. CASE UNCHANGED vars
  <2>1. UNCHANGED authority BY <1>2 DEF vars
  <2>2. Holding' /\ HeldOpen' /\ Closings' /\ \A s \in Sources : HoldersOf(s)' = HoldersOf(s)
    BY <2>1, Quiescent
  <2>3. TypeOK' /\ ChargeFollowsHandle' /\ NotYet' /\ OwnCarrier' /\ Leased' /\ OneTurn'
    BY <1>2, <2>2 DEF IndInv, TypeOK, LedgerTypeOK, ChargeFollowsHandle, NotYet, OwnCarrier, Leased,
                      OneTurn, vars, ledger, authority, disposal
  <2>4. QED BY <2>2, <2>3 DEF IndInv
<1>3. QED BY <1>1, <1>2

LEMMA Invariance == Spec => []IndInv
BY InitStep, NextStep, PTL DEF Spec

\* The state of the registry is well-typed, and no carrier's count of
\* references is ever taken below zero (releaseShared).
THEOREM HandlesTyped == Spec => []TypeOK
<1>1. IndInv => TypeOK BY DEF IndInv
<1>2. QED BY <1>1, Invariance, PTL

\* However requests, plans and disposals interleave, the reference count of a
\* carrier is the number of authorities holding it, its files are open as long
\* as there is one, and the session's ledger is charged for exactly the sources
\* that have a record or wait for their turn in a disposal.
THEOREM HoldingsStayCounted == Spec => []HoldingsCounted
<1>1. IndInv => HoldingsCounted
      BY DEF IndInv, Holding, HeldOpen, CarriersCounted, HoldingsCounted
<1>2. QED BY <1>1, Invariance, PTL

-----------------------------------------------------------------------------
(* Nothing is left behind: whatever is open has somebody who will close it. *)

\* An open carrier is being verified or held; a closing one is waited for; a
\* handle that holds its carrier has a record or waits for its turn; and a
\* handle's own disposal waits for its own carrier only.
OpenHeld == \A s \in Sources :
    carrier[s] = "open" => opening[s] = "verifying" \/ HoldersOf(s) # {}
ClosingAwaited == \A s \in Sources :
    carrier[s] = "closing" => \E h \in Holders : awaiting[h] = s
Registered(s) == s \in records \/ \E d \in DisposeCalls : s \in left[d]
HandleRegistered == \A s \in Sources : held[s] # {} => Registered(s)
OwnWait == \A s \in Sources : awaiting[s] \in {s, None}

Traced == OpenHeld /\ ClosingAwaited /\ HandleRegistered /\ OwnWait

\* A step beside the authorities that forgets no source.
LEMMA BesideTraced ==
    ASSUME Traced, UNCHANGED <<authority, opening>>,
           \A s \in Sources : Registered(s) => Registered(s)'
    PROVE  Traced'
<1>1. UNCHANGED <<carrier, held, awaiting, opening>> BY DEF authority
<1>2. \A s \in Sources : HoldersOf(s)' = HoldersOf(s) BY <1>1 DEF HoldersOf
<1>3. HandleRegistered' BY <1>1 DEF Traced, HandleRegistered
<1> QED BY <1>1, <1>2, <1>3 DEF Traced, OpenHeld, ClosingAwaited, OwnWait

\* A lease or a plan takes its part of the carriers.
LEMMA TakingTraced ==
    ASSUME IndInv, Traced, NEW h \in Leases \cup PlanLeases, NEW S \in SUBSET Sources,
           step[h] # "using", Retain(h, S), Goto(h, "using"),
           UNCHANGED <<carrier, released, awaiting>>
    PROVE  Traced'
<1>1. TypeOK /\ Holding /\ Leased BY DEF IndInv
<1>2. h \in Holders /\ h \notin Sources BY HandlesAssumption DEF Holders
<1>3. held[h] = {} BY <1>1 DEF Leased
<1>4. \A s \in Sources : HoldersOf(s) \subseteq HoldersOf(s)' BY <1>1, <1>2, <1>3, Retained
<1>5. \A s \in Sources : held'[s] = held[s] BY <1>1, <1>2 DEF Retain, TypeOK, Holders
<1>6. UNCHANGED <<opening, records, left>> BY DEF Goto, disposal
<1>7. HandleRegistered' BY <1>5, <1>6 DEF Traced, HandleRegistered, Registered
<1> QED BY <1>4, <1>6, <1>7 DEF Traced, OpenHeld, ClosingAwaited, OwnWait

\* The last release of a carrier starts to close it and waits.
LEMMA GivingTraced ==
    ASSUME IndInv, Traced, NEW h \in Holders, NEW s \in Sources, h \in Sources => h = s,
           ReleaseShared(h, s), opening' = opening
    PROVE  /\ OpenHeld' /\ ClosingAwaited' /\ OwnWait'
           /\ \A r \in Sources : r # h => held'[r] = held[r]
           /\ h = s => held'[s] = {}
<1>1. /\ held \in [Holders -> SUBSET Sources]
      /\ references \in [Sources -> Nat]
      /\ carrier \in [Sources -> {"none", "open", "closing", "closed", "leaked"}]
      /\ awaiting \in [Holders -> Sources \cup {None}]
      /\ Holding /\ OwnCarrier
  BY DEF IndInv, TypeOK
<1>2. held' = [held EXCEPT ![h] = @ \ {s}] /\ s \in held[h] /\ awaiting[h] = None
  BY DEF ReleaseShared
<1>3. \A g \in Holders : held'[g] = IF g = h THEN held[h] \ {s} ELSE held[g] BY <1>1, <1>2
<1>4. \A r \in Sources : HoldersOf(r)' = IF r = s THEN HoldersOf(s) \ {h} ELSE HoldersOf(r)
  BY <1>3 DEF HoldersOf
<1>5. h = s => held'[s] = {}
  <2>1. held[s] \subseteq {s} BY <1>1 DEF OwnCarrier
  <2> QED BY <2>1, <1>3
<1>6. \A r \in Sources : r # h => held'[r] = held[r] BY <1>3 DEF Holders
<1>7. CASE references[s] = 1
  <2>1. carrier' = [carrier EXCEPT ![s] = "closing"] /\ awaiting' = [awaiting EXCEPT ![h] = s]
    BY <1>7 DEF ReleaseShared
  <2>2. \A r \in Sources : carrier'[r] = IF r = s THEN "closing" ELSE carrier[r] BY <2>1, <1>1
  <2>3. \A g \in Holders : awaiting'[g] = IF g = h THEN s ELSE awaiting[g] BY <2>1, <1>1
  <2>4. OpenHeld' BY <2>2, <1>4 DEF Traced, OpenHeld
  <2>5. ClosingAwaited'
    <3> SUFFICES ASSUME NEW r \in Sources, carrier'[r] = "closing"
                 PROVE  \E g \in Holders : awaiting'[g] = r
        BY DEF ClosingAwaited
    <3>1. CASE r = s BY <3>1, <2>3
    <3>2. CASE r # s
      <4>1. PICK g \in Holders : awaiting[g] = r BY <3>2, <2>2 DEF Traced, ClosingAwaited
      <4>2. g # h BY <4>1, <1>2, HandlesAssumption
      <4> QED BY <4>1, <4>2, <2>3
    <3> QED BY <3>1, <3>2
  <2>6. OwnWait' BY <2>3 DEF Traced, OwnWait, Holders
  <2> QED BY <2>4, <2>5, <2>6, <1>5, <1>6
<1>8. CASE references[s] # 1
  <2>1. carrier' = carrier /\ awaiting' = awaiting BY <1>8 DEF ReleaseShared
  <2>2. HoldersOf(s) \ {h} # {}
    <3> SUFFICES ASSUME HoldersOf(s) \ {h} = {} PROVE FALSE OBVIOUS
    <3>1. HoldersOf(s) = {h} BY <1>2 DEF HoldersOf
    <3>2. Cardinality(HoldersOf(s)) = 1 BY <3>1, FS_Singleton
    <3> QED BY <3>2, <1>1, <1>8 DEF Holding
  <2>3. OpenHeld' BY <2>1, <2>2, <1>4 DEF Traced, OpenHeld
  <2> QED BY <2>1, <2>3, <1>5, <1>6 DEF Traced, ClosingAwaited, OwnWait
<1> QED BY <1>7, <1>8

LEMMA OpeningTraced ==
    ASSUME IndInv, Traced, NEW s \in Opens, OpenStarts(s) \/ OpenFails(s) \/ OpenRefused(s)
    PROVE  Traced'
<1>1. /\ carrier \in [Sources -> {"none", "open", "closing", "closed", "leaked"}]
      /\ awaiting \in [Holders -> Sources \cup {None}]
      /\ opening \in [Opens -> {"new", "verifying", "opened", "refused"}]
      /\ OwnCarrier /\ Closings
  BY DEF IndInv, TypeOK
<1>2. UNCHANGED <<records, held, left>> /\ opening[s] \in {"new", "verifying"}
  BY DEF OpenStarts, OpenFails, OpenRefused, disposal
<1>3. \A c \in Sources : HoldersOf(c)' = HoldersOf(c) BY <1>2 DEF HoldersOf
<1>4. HandleRegistered' BY <1>2 DEF Traced, HandleRegistered, Registered
<1>5. Sources \subseteq Opens /\ Sources \subseteq Holders /\ None \notin Sources
  BY HandlesAssumption DEF Opens, Holders
<1>6. \A c \in Sources : c # s => opening'[c] = opening[c] /\ carrier'[c] = carrier[c]
  BY <1>1, <1>5 DEF OpenStarts, OpenFails, OpenRefused
<1>7. CASE OpenStarts(s) \/ OpenFails(s)
  <2>1. awaiting' = awaiting BY <1>7 DEF OpenStarts, OpenFails
  <2>2. s \in Sources => \/ carrier'[s] = "open" /\ opening'[s] = "verifying"
                         \/ carrier'[s] \in {"closed", "leaked"}
    BY <1>7, <1>1 DEF OpenStarts, OpenFails
  <2>3. OpenHeld' BY <2>2, <1>3, <1>6 DEF Traced, OpenHeld
  <2>4. ClosingAwaited' BY <2>1, <2>2, <1>6 DEF Traced, ClosingAwaited
  <2> QED BY <2>1, <2>3, <2>4, <1>4 DEF Traced, OwnWait
<1>8. CASE OpenRefused(s) /\ s \notin Sources
  <2>1. UNCHANGED <<carrier, awaiting>> BY <1>8 DEF OpenRefused
  <2> QED BY <2>1, <1>3, <1>4, <1>6, <1>8 DEF Traced, OpenHeld, ClosingAwaited, OwnWait
<1>9. CASE OpenRefused(s) /\ s \in Sources
  <2>1. /\ carrier' = [carrier EXCEPT ![s] = "closing"] /\ awaiting' = [awaiting EXCEPT ![s] = s]
        /\ carrier[s] = "open"
    BY <1>9, <1>1 DEF OpenRefused, OwnCarrier
  <2>2. awaiting[s] = None BY <2>1, <1>1, <1>5, <1>9 DEF Traced, OwnWait, Closings
  <2>3. \A g \in Holders : awaiting'[g] = IF g = s THEN s ELSE awaiting[g] BY <2>1, <1>1
  <2>4. \A c \in Sources : carrier'[c] = IF c = s THEN "closing" ELSE carrier[c] BY <2>1, <1>1
  <2>5. OpenHeld' BY <2>4, <1>3, <1>6 DEF Traced, OpenHeld
  <2>6. ClosingAwaited'
    <3> SUFFICES ASSUME NEW r \in Sources, carrier'[r] = "closing"
                 PROVE  \E g \in Holders : awaiting'[g] = r
        BY DEF ClosingAwaited
    <3>1. CASE r = s BY <3>1, <2>3, <1>5
    <3>2. CASE r # s
      <4>1. PICK g \in Holders : awaiting[g] = r BY <3>2, <2>4 DEF Traced, ClosingAwaited
      <4>2. g # s BY <4>1, <2>2, <1>5
      <4> QED BY <4>1, <4>2, <2>3
    <3> QED BY <3>1, <3>2
  <2>7. OwnWait' BY <2>3, <1>5 DEF Traced, OwnWait
  <2> QED BY <2>5, <2>6, <2>7, <1>4 DEF Traced
<1> QED BY <1>7, <1>8, <1>9

LEMMA OpenedTraced ==
    ASSUME IndInv, Traced, NEW s \in Opens, OpenSucceeds(s)
    PROVE  Traced'
<1>1. TypeOK BY DEF IndInv
<1>2. /\ opening' = [opening EXCEPT ![s] = "opened"] /\ records' = records \cup {s}
      /\ UNCHANGED <<carrier, awaiting, left>>
  BY DEF OpenSucceeds, disposal
<1>3. Sources \subseteq Opens /\ Sources \subseteq Holders BY DEF Opens, Holders
<1>4. \A h \in Holders : held'[h] = IF h = s /\ s \in Sources THEN {s} ELSE held[h]
  BY <1>1, <1>3 DEF OpenSucceeds, Retain, TypeOK
<1>5. \A c \in Sources : c # s => HoldersOf(c)' = HoldersOf(c) \/ HoldersOf(c)' # {}
  <2> SUFFICES ASSUME NEW c \in Sources, c # s, NEW g \in HoldersOf(c) PROVE HoldersOf(c)' # {}
      BY <1>4 DEF HoldersOf
  <2>1. g \in Holders /\ c \in held[g] BY DEF HoldersOf
  <2>2. g # s \/ s \notin Sources BY <2>1 DEF IndInv, OwnCarrier
  <2>3. g \in HoldersOf(c)' BY <2>1, <2>2, <1>4 DEF HoldersOf
  <2> QED BY <2>3
<1>6. s \in Sources => s \in HoldersOf(s)' BY <1>3, <1>4 DEF HoldersOf
<1>7. \A c \in Sources : c # s => opening'[c] = opening[c] BY <1>1, <1>2, <1>3 DEF TypeOK
<1>8. OpenHeld' BY <1>2, <1>5, <1>6, <1>7 DEF Traced, OpenHeld
<1>9. HandleRegistered' BY <1>2, <1>3, <1>4 DEF Traced, HandleRegistered, Registered
<1> QED BY <1>2, <1>8, <1>9 DEF Traced, ClosingAwaited, OwnWait

LEMMA ClosedTraced ==
    ASSUME IndInv, Traced, NEW h \in Holders, CarrierCloses(h)
    PROVE  Traced'
<1>1. /\ carrier \in [Sources -> {"none", "open", "closing", "closed", "leaked"}]
      /\ awaiting \in [Holders -> Sources \cup {None}]
  BY DEF IndInv, TypeOK
<1>2. /\ awaiting[h] # None /\ awaiting[h] \in Sources
      /\ carrier' = [carrier EXCEPT ![awaiting[h]] = "closed"]
      /\ awaiting' = [awaiting EXCEPT ![h] = None]
      /\ UNCHANGED <<opening, records, held, left>>
  BY <1>1 DEF CarrierCloses, disposal
<1>3. \A c \in Sources : HoldersOf(c)' = HoldersOf(c) BY <1>2 DEF HoldersOf
<1>4. \A c \in Sources : carrier'[c] = IF c = awaiting[h] THEN "closed" ELSE carrier[c]
  BY <1>1, <1>2
<1>5. \A g \in Holders : awaiting'[g] = IF g = h THEN None ELSE awaiting[g] BY <1>1, <1>2
<1>6. OpenHeld' BY <1>2, <1>3, <1>4 DEF Traced, OpenHeld
<1>7. ClosingAwaited'
  <2> SUFFICES ASSUME NEW r \in Sources, carrier'[r] = "closing"
               PROVE  \E g \in Holders : awaiting'[g] = r
      BY DEF ClosingAwaited
  <2>1. carrier[r] = "closing" /\ r # awaiting[h] BY <1>4
  <2>2. PICK g \in Holders : awaiting[g] = r BY <2>1 DEF Traced, ClosingAwaited
  <2> QED BY <2>1, <2>2, <1>5
<1>8. OwnWait' BY <1>5 DEF Traced, OwnWait, Holders
<1>9. HandleRegistered' BY <1>2 DEF Traced, HandleRegistered, Registered
<1> QED BY <1>6, <1>7, <1>8, <1>9 DEF Traced

LEMMA DisposingTraced ==
    ASSUME IndInv, Traced, NEW d \in DisposeCalls, NEW s \in Opens,
           DisposeSource(d, s) \/ DisposeAuxiliary(d, s)
    PROVE  Traced'
<1>1. /\ left \in [DisposeCalls -> SUBSET Opens] /\ left' = [left EXCEPT ![d] = @ \ {s}]
      /\ UNCHANGED <<opening, records>>
  BY DEF IndInv, TypeOK, DisposeSource, DisposeAuxiliary
<1>2. \A r \in Sources : r # s /\ Registered(r) => Registered(r)' BY <1>1 DEF Registered
<1>3. CASE DisposeAuxiliary(d, s)
  <2>1. s \notin Sources /\ UNCHANGED authority
    BY <1>3, HandlesAssumption DEF DisposeAuxiliary
  <2> QED BY <2>1, <1>1, <1>2, BesideTraced
<1>4. CASE DisposeSource(d, s)
  <2>1. s \in Sources /\ s \in Holders /\ ReleaseShared(s, s) BY <1>4 DEF DisposeSource, Holders
  <2>2. /\ OpenHeld' /\ ClosingAwaited' /\ OwnWait'
        /\ \A r \in Sources : r # s => held'[r] = held[r]
        /\ held'[s] = {}
    BY <2>1, <1>1, GivingTraced
  <2>3. HandleRegistered' BY <2>2, <1>2 DEF Traced, HandleRegistered
  <2> QED BY <2>2, <2>3 DEF Traced
<1> QED BY <1>3, <1>4

LEMMA NextTraced == IndInv /\ Traced /\ [Next]_vars => Traced'
<1> SUFFICES ASSUME IndInv, Traced, [Next]_vars PROVE Traced' OBVIOUS
<1>1. CASE \E s \in Opens : OpenStarts(s) \/ OpenFails(s) \/ OpenSucceeds(s) \/ OpenRefused(s)
  BY <1>1, OpeningTraced, OpenedTraced
<1>2. CASE \/ \E l \in Leases : LeaseStarts(l) \/ LeaseUnknown(l) \/ LeaseFails(l)
           \/ UNCHANGED vars
  <2>1. UNCHANGED <<authority, opening, records, disposal>>
    BY <1>2 DEF LeaseStarts, LeaseUnknown, LeaseFails, Goto, vars
  <2> QED BY <2>1, BesideTraced DEF Registered, disposal
<1>3. CASE \E l \in Leases : LeaseCombined(l)
  <2>1. PICK l \in Leases : LeaseCombined(l) BY <1>3
  <2>2. HandlesOf[l] \in SUBSET Sources BY HandlesAssumption
  <2>3. /\ Retain(l, HandlesOf[l]) /\ Goto(l, "using") /\ UNCHANGED <<carrier, released, awaiting>>
        /\ step[l] # "using"
    BY <2>1 DEF LeaseCombined
  <2> QED BY <2>2, <2>3, TakingTraced
<1>4. CASE \E p \in PlanLeases : PlanLeased(p)
  <2>1. PICK p \in PlanLeases : PlanLeased(p) BY <1>4
  <2>2. held[LeaseOf[p]] \in SUBSET Sources BY HandlesAssumption DEF IndInv, TypeOK, Holders
  <2>3. /\ Retain(p, held[LeaseOf[p]]) /\ Goto(p, "using")
        /\ UNCHANGED <<carrier, released, awaiting>> /\ step[p] # "using"
    BY <2>1 DEF PlanLeased
  <2> QED BY <2>2, <2>3, TakingTraced
<1>5. CASE \E h \in Leases \cup PlanLeases : LeaseDisposed(h)
  <2>1. PICK h \in Leases \cup PlanLeases, s \in Sources :
            ReleaseShared(h, s) /\ UNCHANGED <<opening, records, disposal>>
    BY <1>5 DEF LeaseDisposed
  <2>2. h \in Holders /\ h \notin Sources BY HandlesAssumption DEF Holders
  <2>3. /\ OpenHeld' /\ ClosingAwaited' /\ OwnWait'
        /\ \A r \in Sources : held'[r] = held[r]
    BY <2>1, <2>2, GivingTraced
  <2>4. HandleRegistered' BY <2>1, <2>3 DEF Traced, HandleRegistered, Registered, disposal
  <2> QED BY <2>3, <2>4 DEF Traced
<1>6. CASE \E h \in Holders : CarrierCloses(h) BY <1>6, ClosedTraced
<1>7. CASE \E d \in DisposeCalls : DisposeCalled(d)
  <2>1. PICK d \in DisposeCalls : DisposeCalled(d) BY <1>7
  <2>2. /\ left' = [left EXCEPT ![d] = records] /\ UNCHANGED <<authority, opening>>
        /\ left[d] = {} /\ left \in [DisposeCalls -> SUBSET Opens]
    BY <2>1 DEF DisposeCalled, IndInv, OneTurn, TypeOK
  <2>3. \A s \in Sources : Registered(s) => Registered(s)' BY <2>2 DEF Registered
  <2> QED BY <2>2, <2>3, BesideTraced
<1>8. CASE \E d \in DisposeCalls, s \in Opens : DisposeSource(d, s) \/ DisposeAuxiliary(d, s)
  BY <1>8, DisposingTraced
<1> QED BY <1>1, <1>2, <1>3, <1>4, <1>5, <1>6, <1>7, <1>8 DEF Next

\* The ledger is charged when a source is opened and discharged when its turn
\* in a disposal comes, and by nothing else.
LEMMA NextBalanced == IndInv /\ LedgerBalanced /\ [Next]_vars => LedgerBalanced'
<1> SUFFICES ASSUME IndInv, LedgerBalanced, [Next]_vars PROVE LedgerBalanced' OBVIOUS
<1>1. LedgerTypeOK /\ Owners = Opens /\ ChargeFollowsHandle /\ NotYet
  BY HandlesAssumption DEF IndInv, TypeOK
<1>2. CASE \E s \in Opens : OpenSucceeds(s)
  <2>1. PICK s \in Opens : OpenSucceeds(s) BY <1>2
  <2>2. /\ Relet({}, {s}) /\ Admits(s, {}) /\ opening[s] # "opened"
    BY <2>1 DEF OpenSucceeds
  <2>3. s \notin leases BY <2>2, <1>1 DEF NotYet, ChargeFollowsHandle
  <2>4. /\ {} \in SUBSET leases /\ {s} \in SUBSET Owners /\ {s} \cap (leases \ {}) = {}
        /\ s \in Owners
    BY <2>3, <1>1
  <2> QED BY <2>2, <2>4, <1>1, ReletBalanced
<1>3. CASE \E d \in DisposeCalls, s \in Opens : DisposeSource(d, s) \/ DisposeAuxiliary(d, s)
  <2>1. PICK s : Relet({s}, {}) BY <1>3 DEF DisposeSource, DisposeAuxiliary, Release
  <2>2. Relet({s} \cap leases, {}) BY <2>1, ReletLive
  <2>3. /\ {s} \cap leases \in SUBSET leases /\ {} \in SUBSET Owners
        /\ {} \cap (leases \ ({s} \cap leases)) = {}
    OBVIOUS
  <2> QED BY <2>2, <2>3, <1>1, ReletBalanced
<1>4. CASE UNCHANGED ledger BY <1>4 DEF LedgerBalanced, ledger
<1>5. CASE Next /\ ~UNCHANGED ledger
  BY <1>2, <1>3, <1>5 DEF Next, OpenStarts, OpenFails, OpenRefused, LeaseStarts, LeaseUnknown,
     LeaseFails, LeaseCombined, PlanLeased, LeaseDisposed, CarrierCloses, DisposeCalled, Goto
<1> QED BY <1>4, <1>5 DEF vars

\* Once nothing is under way and the registry is empty, whatever the order of
\* the requests, plans and disposals was, the ledger is back at zero and every
\* carrier that passed verification has been closed.  Excepted is the carrier
\* of an archive that createPackage refuses ("leaked"): nothing disposes it.
THEOREM NothingIsLeft == Spec => []NothingLeft
<1>1. Init => LedgerBalanced /\ Traced
  <2> SUFFICES ASSUME Init PROVE LedgerBalanced /\ Traced OBVIOUS
  <2>1. LedgerBalanced BY EmptyBalanced DEF Init
  <2>2. Sources \subseteq Holders BY DEF Holders
  <2>3. Traced
    BY <2>2 DEF Init, Traced, OpenHeld, ClosingAwaited, HandleRegistered, OwnWait
  <2> QED BY <2>1, <2>3
<1>2. IndInv /\ LedgerBalanced /\ Traced => NothingLeft
  <2> SUFFICES ASSUME IndInv, LedgerBalanced, Traced, Quiet
               PROVE  /\ leases = {} /\ retainedBytes = 0
                      /\ \A s \in Sources : carrier[s] \in {"none", "closed", "leaked"}
      BY DEF NothingLeft
  <2>1. records = {} /\ \A d \in DisposeCalls : left[d] = {} BY DEF Quiet
  <2>2. leases = {} BY <2>1 DEF IndInv, ChargeFollowsHandle
  <2>3. retainedBytes = 0 BY <2>2, EmptyBalanced
  <2>4. \A h \in Holders : held[h] = {}
    <3>1. \A s \in Sources : held[s] = {} BY <2>1 DEF Traced, HandleRegistered, Registered
    <3>2. \A h \in Leases \cup PlanLeases : held[h] = {}
      BY DEF Quiet, Settled, IndInv, Leased
    <3> QED BY <3>1, <3>2 DEF Holders
  <2>5. ASSUME NEW s \in Sources PROVE carrier[s] \in {"none", "closed", "leaked"}
    <3>1. carrier[s] # "open"
      BY <2>4 DEF Traced, OpenHeld, Quiet, HoldersOf, Opens
    <3>2. carrier[s] # "closing"
      BY HandlesAssumption DEF Traced, ClosingAwaited, Quiet
    <3> QED BY <3>1, <3>2 DEF IndInv, TypeOK
  <2> QED BY <2>2, <2>3, <2>5
<1> QED BY <1>1, <1>2, NextTraced, NextBalanced, Invariance, PTL DEF Spec
=============================================================================
