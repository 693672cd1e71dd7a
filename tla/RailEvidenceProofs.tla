-------------------------- MODULE RailEvidenceProofs --------------------------
(***************************************************************************)
(* Proofs about RailEvidence, for any number of transfers, keys, lookups   *)
(* and ingestions.  The argument: rows only grow, a confirmation and a key *)
(* that left force never come back, so what a lookup has read so far still *)
(* holds when it reads the next row, and the key is read last.             *)
(***************************************************************************)
EXTENDS RailEvidenceProperties, TLAPS

(***************************************************************************)
(* The inductive invariant: what each handler knows of the rows from the   *)
(* reads it has done.                                                      *)
(***************************************************************************)
LookupKnows(l) ==
  /\ Running(l) =>
       /\ transfer[l] \in Transfers
       /\ Provable(transfer[l]) => l \in proved
       /\ ~Provable(transfer[l]) => l \in doubted
  /\ pc[l] \in Asking \ {"ledger"} => transfer[l] \in posted
  /\ pc[l] \in Asking \ {"ledger", "saga"} => transfer[l] \in sagas
  /\ pc[l] \in {"confirmation", "key", "verify"} => transfer[l] \in expectations
  /\ pc[l] \in {"key", "verify"} => signer[l] \in Keys /\ signer[l] = confirmation[transfer[l]]
  /\ pc[l] = "verify" =>
       IF active[l] THEN term[signer[l]] = "after" \/ l \in proved ELSE l \in doubted
  /\ pc[l] = "settled" => l \in proved
  /\ pc[l] = "unsettled" => l \in doubted

IngestKnows(i) ==
  /\ pc[i] \in Ingesting => transfer[i] \in Transfers /\ signer[i] \in Keys
  /\ pc[i] \in Ingesting \ {"expectation"} => transfer[i] \in expectations
  /\ pc[i] \in {"verify", "insert"} => status[signer[i]] # "absent"
  /\ pc[i] = "insert" => term[signer[i]] # "before"

Knowledge ==
  /\ ConfirmationWasVerified
  /\ \A l \in Lookups : LookupKnows(l)
  /\ \A i \in Ingests : IngestKnows(i)

IInv == TypeOK /\ Knowledge

\* What no step of the rows takes back.
Grow ==
  /\ posted \subseteq posted' /\ sagas \subseteq sagas' /\ expectations \subseteq expectations'
  /\ \A t \in Transfers : confirmation[t] # None => confirmation'[t] = confirmation[t]
  /\ \A k \in Keys :
       /\ status[k] # "absent" => status'[k] # "absent"
       /\ term[k] # "before" => term'[k] # "before"
       /\ term[k] = "after" => term'[k] = "after"

Still(h) ==
  /\ pc'[h] = pc[h] /\ transfer'[h] = transfer[h]
  /\ signer'[h] = signer[h] /\ active'[h] = active[h]

(***************************************************************************)
(* Type correctness.                                                       *)
(***************************************************************************)

\* Every step keeps every row and every handler within its type, as long as
\* the handlers know what they have read.
LEMMA TypeStep == IInv /\ [Next]_vars => TypeOK'
<1> SUFFICES ASSUME TypeOK, Knowledge, [Next]_vars PROVE TypeOK'
  BY DEF IInv
<1> USE EvidenceAssumption
    DEF TypeOK, Handlers, Asking, Answers, Ingesting, KeyStatus, rows, local
<1>1. CASE Environment
  BY <1>1 DEF Environment, RegisterKey, UpdateKey, ClockPasses, LedgerPosts, SagaAdmitted,
              InsertPostingExpectation
<1>2. ASSUME NEW l \in Lookups, LookupStep(l) PROVE TypeOK'
  <2>1. LookupKnows(l)
    BY DEF Knowledge
  <2>2. CASE \E t \in Transfers : Ask(l, t)
    BY <2>2 DEF Ask
  <2>3. CASE ReadLedger(l) \/ ReadSaga(l) \/ ReadExpectation(l)
    BY <2>3 DEF ReadLedger, ReadSaga, ReadExpectation, Read
  <2>4. CASE ReadConfirmation(l)
    BY <2>1, <2>4 DEF ReadConfirmation, Read, LookupKnows, Running
  <2>5. CASE LoadKey(l, "verify")
    BY <2>5 DEF LoadKey
  <2>6. CASE Verify(l) \/ LookupErrs(l)
    BY <2>6 DEF Verify, LookupErrs
  <2>7. CASE Answered(l)
    <3>1. active' \in [Handlers -> BOOLEAN]
      BY <2>7 DEF Answered
    <3> QED
      BY <2>7, <3>1 DEF Answered
  <2> QED
    BY <1>2, <2>2, <2>3, <2>4, <2>5, <2>6, <2>7 DEF LookupStep
<1>3. ASSUME NEW i \in Ingests, IngestStep(i) PROVE TypeOK'
  <2>1. IngestKnows(i)
    BY DEF Knowledge
  <2>2. CASE \E t \in Transfers, k \in Keys : Submit(i, t, k)
    BY <2>2 DEF Submit
  <2>3. CASE CheckExpectation(i) \/ CheckSignature(i)
    BY <2>3 DEF CheckExpectation, CheckSignature
  <2>6. CASE IngestFails(i)
    <3>1. active' \in [Handlers -> BOOLEAN]
      BY <2>6 DEF IngestFails, Finish
    <3> QED
      BY <2>6, <3>1 DEF IngestFails, Finish
  <2>4. CASE CheckKey(i)
    BY <2>4 DEF CheckKey, LoadKey
  <2>5. CASE StoreConfirmation(i)
    BY <2>1, <2>5 DEF StoreConfirmation, Finish, IngestKnows
  <2> QED
    BY <1>3, <2>2, <2>3, <2>4, <2>5, <2>6 DEF IngestStep
<1>4. CASE UNCHANGED vars
  BY <1>4 DEF vars
<1> QED
  BY <1>1, <1>2, <1>3, <1>4 DEF Next

(***************************************************************************)
(* Rows grow, and a handler that does not move keeps what it knows.        *)
(***************************************************************************)

\* No transaction deletes evidence, replaces a confirmation, or turns back a
\* key or the clock.
LEMMA RowsGrow == ASSUME TypeOK, [Next]_vars PROVE Grow
<1> USE EvidenceAssumption DEF TypeOK, Grow, Handlers, KeyStatus, rows, local
<1>1. CASE Environment
  BY <1>1 DEF Environment, RegisterKey, UpdateKey, ClockPasses, LedgerPosts, SagaAdmitted,
              InsertPostingExpectation
<1>2. ASSUME NEW l \in Lookups, LookupStep(l) PROVE Grow
  BY <1>2 DEF LookupStep, Ask, ReadLedger, ReadSaga, ReadExpectation, ReadConfirmation, Read,
              LoadKey, Verify, LookupErrs, Answered
<1>3. ASSUME NEW i \in Ingests, IngestStep(i) PROVE Grow
  BY <1>3 DEF IngestStep, Submit, CheckExpectation, CheckKey, LoadKey, CheckSignature,
              StoreConfirmation, IngestFails, Finish
<1>4. CASE UNCHANGED vars
  BY <1>4 DEF vars
<1> QED
  BY <1>1, <1>2, <1>3, <1>4 DEF Next

\* Provable, spelled out for a transfer.
LEMMA ProvableMeans ==
  ASSUME TypeOK, NEW t \in Transfers
  PROVE  Provable(t) <=> /\ t \in posted /\ t \in sagas /\ t \in expectations
                         /\ confirmation[t] \in Keys
                         /\ status[confirmation[t]] = "ACTIVE"
                         /\ term[confirmation[t]] = "within"
BY EvidenceAssumption DEF TypeOK, Provable, ProofOf, InForce

\* A lookup that waits keeps what it knows while the rows move on.
LEMMA LookupWaits ==
  ASSUME TypeOK, Grow, Observe, NEW l \in Lookups, LookupKnows(l), Still(l)
  PROVE  LookupKnows(l)'
<1> USE DEF Still
<1>1. Running(l)' => /\ transfer'[l] \in Transfers
                     /\ Provable(transfer[l])' => l \in proved'
                     /\ ~Provable(transfer[l])' => l \in doubted'
  BY DEF LookupKnows, Running, Observe
<1>2. /\ pc[l] # "idle" /\ l \in proved => l \in proved'
      /\ pc[l] # "idle" /\ l \in doubted => l \in doubted'
  BY DEF Observe
<1>3. pc[l] \in {"key", "verify"} => confirmation'[transfer[l]] = confirmation[transfer[l]]
  BY EvidenceAssumption DEF LookupKnows, Running, Grow, Asking
<1> QED
  BY <1>1, <1>2, <1>3 DEF LookupKnows, Running, Grow, Asking

\* An ingestion that waits keeps what it knows while the rows move on.
LEMMA IngestWaits ==
  ASSUME TypeOK, Grow, NEW i \in Ingests, IngestKnows(i), Still(i)
  PROVE  IngestKnows(i)'
BY DEF Still, Grow, IngestKnows, Ingesting

(***************************************************************************)
(* The handler that moves.                                                 *)
(***************************************************************************)

\* Each read of a lookup adds to what it knows, and its answer is justified.
LEMMA LookupMoves ==
  ASSUME IInv, Observe, NEW l \in Lookups, LookupStep(l)
  PROVE  LookupKnows(l)'
<1> USE DEF IInv, TypeOK, Handlers, rows
<1>0. LookupKnows(l) /\ ConfirmationWasVerified
  BY DEF Knowledge
<1>1. Running(l)' /\ transfer'[l] \in Transfers =>
        /\ Provable(transfer[l])' => l \in proved'
        /\ ~Provable(transfer[l])' => l \in doubted'
  BY DEF Observe
<1>2. pc'[l] # "idle" => /\ l \in proved => l \in proved'
                         /\ l \in doubted => l \in doubted'
  BY DEF Observe
<1>3. CASE \E t \in Transfers : Ask(l, t)
  BY <1>1, <1>3 DEF Ask, LookupKnows, Running, Asking
<1>4. CASE ReadLedger(l) \/ ReadSaga(l) \/ ReadExpectation(l) \/ ReadConfirmation(l)
  <2>1. transfer[l] \in Transfers /\ transfer'[l] = transfer[l] /\ UNCHANGED rows
    BY <1>0, <1>4 DEF ReadLedger, ReadSaga, ReadExpectation, ReadConfirmation, Read, LookupKnows,
                      Running, Asking
  <2>2. ~Provable(transfer[l]) => l \in doubted
    BY <1>0, <1>4 DEF ReadLedger, ReadSaga, ReadExpectation, ReadConfirmation, Read, LookupKnows,
                      Running, Asking
  <2>3. CASE ReadLedger(l)
    BY <1>0, <1>1, <1>2, <2>1, <2>2, <2>3, ProvableMeans
    DEF ReadLedger, Read, LookupKnows, Running, Asking
  <2>4. CASE ReadSaga(l)
    BY <1>0, <1>1, <1>2, <2>1, <2>2, <2>4, ProvableMeans
    DEF ReadSaga, Read, LookupKnows, Running, Asking
  <2>5. CASE ReadExpectation(l)
    BY <1>0, <1>1, <1>2, <2>1, <2>2, <2>5, ProvableMeans
    DEF ReadExpectation, Read, LookupKnows, Running, Asking
  <2>6. CASE ReadConfirmation(l)
    <3>1. confirmation[transfer[l]] = None => l \in doubted
      BY EvidenceAssumption, <2>1, <2>2, ProvableMeans
    <3> QED
      BY <1>0, <1>1, <1>2, <2>1, <2>6, <3>1
      DEF ReadConfirmation, Read, LookupKnows, Running, Asking
  <2> QED
    BY <1>4, <2>3, <2>4, <2>5, <2>6
<1>5. CASE LoadKey(l, "verify")
  <2>1. /\ transfer[l] \in Transfers /\ signer[l] \in Keys
        /\ signer[l] = confirmation[transfer[l]]
        /\ Provable(transfer[l]) => l \in proved
        /\ ~Provable(transfer[l]) => l \in doubted
    BY <1>0, <1>5 DEF LoadKey, LookupKnows, Running, Asking
  <2>2. Provable(transfer[l]) <=> status[signer[l]] = "ACTIVE" /\ term[signer[l]] = "within"
    BY <1>0, <1>5, <2>1, ProvableMeans DEF LoadKey, LookupKnows, Asking
  <2>3. term[signer[l]] # "before"
    BY EvidenceAssumption, <1>0, <2>1 DEF ConfirmationWasVerified
  <2> QED
    BY <1>0, <1>1, <1>2, <1>5, <2>1, <2>2, <2>3 DEF LoadKey, LookupKnows, Running, Asking
<1>6. CASE Verify(l)
  <2>1. /\ transfer[l] \in Transfers /\ signer[l] \in Keys
        /\ signer[l] = confirmation[transfer[l]]
        /\ ~Provable(transfer[l]) => l \in doubted
    BY <1>0, <1>6 DEF Verify, LookupKnows, Running, Asking
  <2>2. term[signer[l]] # "within" => l \in doubted
    BY <2>1, ProvableMeans
  <2> QED
    BY <1>0, <1>2, <1>6, <2>2 DEF Verify, Verifies, LookupKnows, Running, Asking
<1>7. CASE LookupErrs(l) \/ Answered(l)
  BY <1>7 DEF LookupErrs, Answered, LookupKnows, Running, Asking
<1> QED
  BY <1>3, <1>4, <1>5, <1>6, <1>7 DEF LookupStep

\* Each check of an ingestion adds to what it knows.
LEMMA IngestMoves ==
  ASSUME IInv, NEW i \in Ingests, IngestStep(i)
  PROVE  IngestKnows(i)'
<1> USE DEF IInv, TypeOK, Handlers, rows, Ingesting, IngestKnows
<1>1. IngestKnows(i)
  BY DEF Knowledge
<1>2. CASE \E t \in Transfers, k \in Keys : Submit(i, t, k)
  BY <1>2 DEF Submit
<1>3. CASE CheckExpectation(i)
  BY <1>1, <1>3 DEF CheckExpectation
<1>4. CASE CheckKey(i)
  BY <1>1, <1>4 DEF CheckKey, LoadKey
<1>5. CASE CheckSignature(i)
  BY <1>1, <1>5 DEF CheckSignature, Verifies
<1>6. CASE StoreConfirmation(i) \/ IngestFails(i)
  BY <1>6 DEF StoreConfirmation, IngestFails, Finish
<1> QED
  BY <1>2, <1>3, <1>4, <1>5, <1>6 DEF IngestStep

\* A step of one handler leaves every other one where it is.
LEMMA OthersWait ==
  ASSUME TypeOK, [Next]_vars, NEW h \in Handlers
  PROVE  \/ Still(h)
         \/ h \in Lookups /\ LookupStep(h)
         \/ h \in Ingests /\ IngestStep(h)
<1> USE DEF TypeOK, Still, local, rows
<1>1. CASE Environment
  BY <1>1 DEF Environment, RegisterKey, UpdateKey, ClockPasses, LedgerPosts, SagaAdmitted,
              InsertPostingExpectation
<1>2. ASSUME NEW l \in Lookups, LookupStep(l), l # h PROVE Still(h)
  BY <1>2 DEF LookupStep, Ask, ReadLedger, ReadSaga, ReadExpectation, ReadConfirmation, Read,
              LoadKey, Verify, LookupErrs, Answered
<1>3. ASSUME NEW i \in Ingests, IngestStep(i), i # h PROVE Still(h)
  BY <1>3 DEF IngestStep, Submit, CheckExpectation, CheckKey, LoadKey, CheckSignature,
              StoreConfirmation, IngestFails, Finish
<1>4. CASE UNCHANGED vars
  BY <1>4 DEF vars
<1> QED
  BY <1>1, <1>2, <1>3, <1>4 DEF Next

\* A confirmation that is stored was verified, and stays so.
LEMMA ConfirmationStep ==
  ASSUME IInv, [Next]_vars
  PROVE  ConfirmationWasVerified'
<1> SUFFICES ASSUME NEW t \in Transfers, confirmation'[t] # None
             PROVE  /\ t \in expectations'
                    /\ status'[confirmation'[t]] # "absent"
                    /\ term'[confirmation'[t]] # "before"
  BY DEF ConfirmationWasVerified
<1> USE DEF IInv, TypeOK
<1>1. Grow
  BY RowsGrow
<1>2. CASE confirmation[t] # None
  BY <1>1, <1>2 DEF Grow, Knowledge, ConfirmationWasVerified
<1>3. CASE confirmation[t] = None
  <2>1. PICK i \in Ingests : StoreConfirmation(i)
    BY <1>3 DEF Next, Environment, RegisterKey, UpdateKey, ClockPasses, LedgerPosts, SagaAdmitted,
                InsertPostingExpectation, LookupStep, Ask, ReadLedger, ReadSaga, ReadExpectation,
                ReadConfirmation, Read, LoadKey, Verify, LookupErrs, Answered, IngestStep, Submit,
                CheckExpectation, CheckKey, CheckSignature, IngestFails, vars, rows
  <2>2. IngestKnows(i)
    BY DEF Knowledge
  <2>3. t = transfer[i] /\ confirmation'[t] = signer[i]
    BY <1>3, <2>1, <2>2 DEF StoreConfirmation, IngestKnows, Ingesting
  <2> QED
    BY <2>1, <2>2, <2>3 DEF StoreConfirmation, IngestKnows, Ingesting
<1> QED
  BY <1>2, <1>3

(***************************************************************************)
(* The theorems.                                                           *)
(***************************************************************************)

\* What the handlers know is true in every reachable state.
THEOREM EvidenceInductive == HistorySpec => []IInv
<1>1. HistoryInit => IInv
  BY EvidenceAssumption
  DEF HistoryInit, Init, IInv, TypeOK, Knowledge, ConfirmationWasVerified, LookupKnows,
      IngestKnows, Running, Handlers, Asking, Answers, Ingesting, KeyStatus
<1>2. IInv /\ [HistoryNext]_<<vars, proved, doubted>> => IInv'
  <2>1. ASSUME IInv, HistoryNext PROVE IInv'
    <3>1. TypeOK' /\ Grow /\ ConfirmationWasVerified' /\ Observe
      BY <2>1, TypeStep, RowsGrow, ConfirmationStep DEF HistoryNext, IInv
    <3>2. ASSUME NEW l \in Lookups PROVE LookupKnows(l)'
      <4>1. LookupKnows(l) /\ TypeOK /\ l \in Handlers
        BY <2>1 DEF IInv, Knowledge, Handlers
      <4>2. Still(l) \/ LookupStep(l)
        BY <2>1, <4>1, OthersWait, EvidenceAssumption DEF HistoryNext
      <4> QED
        BY <2>1, <3>1, <4>1, <4>2, LookupWaits, LookupMoves
    <3>3. ASSUME NEW i \in Ingests PROVE IngestKnows(i)'
      <4>1. IngestKnows(i) /\ TypeOK /\ i \in Handlers
        BY <2>1 DEF IInv, Knowledge, Handlers
      <4>2. Still(i) \/ IngestStep(i)
        BY <2>1, <4>1, OthersWait, EvidenceAssumption DEF HistoryNext
      <4> QED
        BY <2>1, <3>1, <4>1, <4>2, IngestWaits, IngestMoves
    <3> QED
      BY <3>1, <3>2, <3>3 DEF IInv, Knowledge
  <2>2. ASSUME IInv, UNCHANGED <<vars, proved, doubted>> PROVE IInv'
    BY <2>2 DEF vars, rows, local, IInv, TypeOK, Knowledge, ConfirmationWasVerified, LookupKnows,
                IngestKnows, Running, Provable, ProofOf, InForce
  <2> QED
    BY <2>1, <2>2
<1> QED
  BY <1>1, <1>2, PTL DEF HistorySpec

\* Every row and handler keeps its type.
THEOREM EvidenceTypeCorrect == HistorySpec => []TypeOK
<1>1. IInv => TypeOK
  BY DEF IInv
<1> QED
  BY <1>1, EvidenceInductive, PTL

\* No confirmation is on file that no key in force ever verified.
THEOREM ConfirmationsVerified == HistorySpec => []ConfirmationWasVerified
<1>1. IInv => ConfirmationWasVerified
  BY DEF IInv, Knowledge
<1> QED
  BY <1>1, EvidenceInductive, PTL

\* A lookup that answers "settled" had the whole proof at one instant, one that
\* answers "pending" or "missing" a gap.
THEOREM AnswersJustified == HistorySpec => []AnswersWereTrue
<1>1. IInv => AnswersWereTrue
  BY DEF IInv, Knowledge, LookupKnows, AnswersWereTrue
<1> QED
  BY <1>1, EvidenceInductive, PTL

(***************************************************************************)
(* The rows implement RailProof.                                           *)
(***************************************************************************)

\* A change of keys or of the clock voids confirmations and revives none: a
\* key that signed a stored confirmation is not new and not early.
LEMMA KeysOnlyVoid ==
  ASSUME IInv, NEW k \in Keys, RegisterKey(k) \/ UpdateKey(k) \/ ClockPasses(k)
  PROVE  [Seen!Next]_(Seen!proofVars)
<1> USE EvidenceAssumption DEF IInv, TypeOK
<1> DEFINE proofs == [t \in Transfers |-> ProofOf(t)]
           signed == {t \in Transfers : ProofOf(t) = "valid" /\ ProofOf(t)' # "valid"}
<1>1. UNCHANGED <<expectations, confirmation>>
  BY DEF RegisterKey, UpdateKey, ClockPasses
<1>2. ASSUME NEW j \in Keys, status[j] # "absent", term[j] # "before", InForce(j)'
      PROVE  InForce(j)
  BY <1>2 DEF RegisterKey, UpdateKey, KeyLifecycleAllowed, ClockPasses, InForce
<1>3. ASSUME NEW t \in Transfers
      PROVE  ProofOf(t)' = IF t \in signed THEN "void" ELSE ProofOf(t)
  <2>1. CASE confirmation[t] = None
    BY <1>1, <2>1 DEF ProofOf
  <2>2. CASE confirmation[t] # None
    <3>1. confirmation[t] \in Keys /\ confirmation'[t] = confirmation[t]
      BY <1>1, <2>2
    <3>2. InForce(confirmation[t])' => InForce(confirmation[t])
      BY <1>2, <2>2, <3>1 DEF Knowledge, ConfirmationWasVerified
    <3> QED
      BY <1>1, <2>2, <3>1, <3>2 DEF ProofOf
  <2> QED
    BY <2>1, <2>2
<1>4. proofs' = [t \in Transfers |-> IF t \in signed THEN "void" ELSE proofs[t]]
  BY <1>3
<1>5. CASE signed = {}
  <2>1. proofs' = proofs
    BY <1>3, <1>5
  <2> QED
    BY <1>1, <2>1 DEF Seen!proofVars
<1>6. CASE signed # {}
  <2>1. Seen!Void(signed)
    BY <1>1, <1>4, <1>6 DEF Seen!Void
  <2> QED
    BY <2>1 DEF Seen!Next
<1> QED
  BY <1>5, <1>6

\* The evidence tables behave as RailProof for the rest of the switch: this is
\* what allows SettlementSaga to take its evidence steps from RailProof.
THEOREM EvidenceImplements == HistorySpec => ImplementsRailProof
<1> DEFINE proofs == [t \in Transfers |-> ProofOf(t)]
<1>1. HistoryInit => Seen!Init
  BY DEF HistoryInit, Init, Seen!Init, ProofOf
<1>2. ASSUME IInv, [Next]_vars PROVE [Seen!Next]_(Seen!proofVars)
  <2> USE <1>2 DEF IInv, TypeOK
  <2>1. CASE UNCHANGED rows
    <3>1. UNCHANGED <<expectations, proofs>>
      BY <2>1 DEF rows, ProofOf, InForce
    <3> QED
      BY <3>1 DEF Seen!proofVars
  <2>2. ASSUME NEW k \in Keys, RegisterKey(k) \/ UpdateKey(k) \/ ClockPasses(k)
        PROVE  [Seen!Next]_(Seen!proofVars)
    BY <2>2, KeysOnlyVoid
  <2>3. ASSUME NEW t \in Transfers,
               LedgerPosts(t) \/ SagaAdmitted(t) \/ InsertPostingExpectation(t)
        PROVE  [Seen!Next]_(Seen!proofVars)
    <3>1. UNCHANGED proofs
      BY <2>3 DEF LedgerPosts, SagaAdmitted, InsertPostingExpectation, ProofOf, InForce
    <3>2. \/ expectations' = expectations
          \/ t \notin expectations /\ expectations' = expectations \union {t}
      BY <2>3 DEF LedgerPosts, SagaAdmitted, InsertPostingExpectation
    <3> QED
      BY <3>1, <3>2 DEF Seen!Next, Seen!Record, Seen!proofVars
  <2>4. ASSUME NEW i \in Ingests, StoreConfirmation(i)
        PROVE  [Seen!Next]_(Seen!proofVars)
    <3>1. /\ transfer[i] \in Transfers /\ signer[i] \in Keys
          /\ transfer[i] \in expectations
      BY <2>4 DEF Knowledge, IngestKnows, Ingesting, StoreConfirmation
    <3>2. UNCHANGED <<expectations, status, term>>
          /\ confirmation' = [confirmation EXCEPT ![transfer[i]] = signer[i]]
          /\ confirmation[transfer[i]] = None
      BY <2>4 DEF StoreConfirmation
    <3>3. PICK verifies \in {"valid", "void"} :
            verifies = IF InForce(signer[i]) THEN "valid" ELSE "void"
      OBVIOUS
    <3>4. ASSUME NEW t \in Transfers
          PROVE  ProofOf(t)' = IF t = transfer[i] THEN verifies ELSE ProofOf(t)
      BY EvidenceAssumption, <3>1, <3>2, <3>3 DEF ProofOf, InForce
    <3>5. proofs' = [proofs EXCEPT ![transfer[i]] = verifies] /\ proofs[transfer[i]] = "none"
      BY <3>1, <3>2, <3>4 DEF ProofOf
    <3> QED
      BY <3>1, <3>2, <3>5 DEF Seen!Next, Seen!Confirm
  <2>5. ASSUME NEW l \in Lookups, LookupStep(l) PROVE UNCHANGED rows
    BY <2>5 DEF LookupStep, Ask, ReadLedger, ReadSaga, ReadExpectation, ReadConfirmation, Read,
                LoadKey, Verify, LookupErrs, Answered, rows
  <2>6. ASSUME NEW i \in Ingests, IngestStep(i) PROVE StoreConfirmation(i) \/ UNCHANGED rows
    BY <2>6 DEF IngestStep, Submit, CheckExpectation, CheckKey, LoadKey, CheckSignature,
                IngestFails, rows
  <2> QED
    BY <2>1, <2>2, <2>3, <2>4, <2>5, <2>6 DEF Next, Environment, vars
<1>3. [HistoryNext]_<<vars, proved, doubted>> => [Next]_vars
  BY DEF HistoryNext
<1> QED
  BY <1>1, <1>2, <1>3, EvidenceInductive, PTL DEF HistorySpec, ImplementsRailProof, Seen!Spec
=============================================================================
