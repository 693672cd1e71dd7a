----------------------------- MODULE RailEvidence -----------------------------
(***************************************************************************)
(* The evidence side of settlement recovery, read by read and write by     *)
(* write: lookups of the Go reconciliation projection, which ask the       *)
(* ledger, the saga, the expectation, the confirmation and the signing key *)
(* one after the other; ingestions of signed rail confirmations, which     *)
(* read expectation and key before they insert; and the signing keys,      *)
(* whose status and validity move on meanwhile.  All of them run           *)
(* concurrently and no transaction spans two statements.                   *)
(*                                                                         *)
(* Signatures, digests and the compared fields are abstracted to the       *)
(* transfer and the key a payload names; a payload that does not verify    *)
(* for another reason is refused (IngestFails).                            *)
(***************************************************************************)
EXTENDS Naturals, FiniteSets

CONSTANTS
  Transfers,  \* canonical transfer IDs
  Keys,       \* signing keys of the rail
  Lookups,    \* concurrent calls of Projection.lookup
  Ingests,    \* concurrent calls of RailConfirmationIngestHandler
  None        \* no row

ASSUME EvidenceAssumption ==
  /\ None \notin Keys \union Transfers
  /\ Lookups \intersect Ingests = {}

VARIABLES
  posted,        \* transfers the ledger has posted (external)
  sagas,         \* transfers with a payment_sagas row
  expectations,  \* payment_posting_expectations that match the posting
  confirmation,  \* rail_settlement_confirmations.key_id
  status,        \* rail_signing_keys.status
  term,          \* the clock against valid_from and valid_until of a key
  pc,            \* where each handler is
  transfer,      \* the transfer it is about
  signer,        \* the key its confirmation names
  active         \* whether the key row it read was ACTIVE

rows  == <<posted, sagas, expectations, confirmation, status, term>>
local == <<pc, transfer, signer, active>>
vars  == <<rows, local>>

Handlers  == Lookups \union Ingests
Asking    == {"ledger", "saga", "expectation", "confirmation", "key", "verify"}
Answers   == {"settled", "unsettled", "error"}
Ingesting == {"expectation", "key", "verify", "insert"}
KeyStatus == {"absent", "ACTIVE", "RETIRED", "REVOKED"}

TypeOK ==
  /\ posted       \subseteq Transfers
  /\ sagas        \subseteq Transfers
  /\ expectations \subseteq Transfers
  /\ confirmation \in [Transfers -> Keys \union {None}]
  /\ status       \in [Keys -> KeyStatus]
  /\ term         \in [Keys -> {"before", "within", "after"}]
  /\ pc           \in [Handlers -> {"idle"} \union Asking \union Answers \union Ingesting]
  /\ transfer     \in [Handlers -> Transfers \union {None}]
  /\ signer       \in [Handlers -> Keys \union {None}]
  /\ active       \in [Handlers -> BOOLEAN]

Init ==
  /\ posted = {} /\ sagas = {} /\ expectations = {}
  /\ confirmation = [t \in Transfers |-> None]
  /\ status       = [k \in Keys |-> "absent"]
  /\ term         = [k \in Keys |-> "before"]
  /\ pc           = [h \in Handlers |-> "idle"]
  /\ transfer     = [h \in Handlers |-> None]
  /\ signer       = [h \in Handlers |-> None]
  /\ active       = [h \in Handlers |-> FALSE]

(***************************************************************************)
(* Signing keys and the rows others write.                                 *)
(***************************************************************************)

\* enforce_rail_signing_key_lifecycle; a status update may also be void.
KeyLifecycleAllowed(old, new) ==
  /\ old # "REVOKED"
  /\ old = "RETIRED" => new = "RETIRED"
  /\ new = "ACTIVE" => old = "ACTIVE"

RegisterKey(k) ==
  /\ status[k] = "absent"
  /\ \E first \in {"ACTIVE", "RETIRED", "REVOKED"} : status' = [status EXCEPT ![k] = first]
  /\ UNCHANGED <<posted, sagas, expectations, confirmation, term, local>>

UpdateKey(k) ==
  /\ status[k] # "absent"
  /\ \E new \in KeyStatus \ {"absent"} :
       /\ KeyLifecycleAllowed(status[k], new)
       /\ status' = [status EXCEPT ![k] = new]
  /\ UNCHANGED <<posted, sagas, expectations, confirmation, term, local>>

\* time.Now() passes valid_from, and later valid_until.
ClockPasses(k) ==
  /\ \E step \in {<<"before", "within">>, <<"within", "after">>} :
       term[k] = step[1] /\ term' = [term EXCEPT ![k] = step[2]]
  /\ UNCHANGED <<posted, sagas, expectations, confirmation, status, local>>

\* The ledger, the settlement service and the operator's tool.
LedgerPosts(t) ==
  /\ posted' = posted \union {t}
  /\ UNCHANGED <<sagas, expectations, confirmation, status, term, local>>

SagaAdmitted(t) ==
  /\ sagas' = sagas \union {t}
  /\ UNCHANGED <<posted, expectations, confirmation, status, term, local>>

InsertPostingExpectation(t) ==
  /\ expectations' = expectations \union {t}
  /\ UNCHANGED <<posted, sagas, confirmation, status, term, local>>

(***************************************************************************)
(* Projection.lookup, one call l.  "missing" and "pending" both mean that  *)
(* the settlement is not proven: the answer is "unsettled".                *)
(***************************************************************************)
Ask(l, t) ==
  /\ pc[l] = "idle"
  /\ pc' = [pc EXCEPT ![l] = "ledger"]
  /\ transfer' = [transfer EXCEPT ![l] = t]
  /\ UNCHANGED <<rows, signer, active>>

\* One read: go on when its row is found, answer otherwise.
Read(l, from, found, next) ==
  /\ pc[l] = from
  /\ pc' = [pc EXCEPT ![l] = IF found THEN next ELSE "unsettled"]
  /\ UNCHANGED <<rows, transfer, active>>

ReadLedger(l)      == Read(l, "ledger", transfer[l] \in posted, "saga") /\ UNCHANGED signer
ReadSaga(l)        == Read(l, "saga", transfer[l] \in sagas, "expectation") /\ UNCHANGED signer
ReadExpectation(l) ==
  Read(l, "expectation", transfer[l] \in expectations, "confirmation") /\ UNCHANGED signer

ReadConfirmation(l) ==
  /\ Read(l, "confirmation", confirmation[transfer[l]] # None, "key")
  /\ signer' = [signer EXCEPT ![l] = confirmation[transfer[l]]]

\* Mutant: the status column is not compared.
LoadAnyKey(h, next) ==
  /\ pc[h] = "key"
  /\ pc' = [pc EXCEPT ![h] = next]
  /\ active' = [active EXCEPT ![h] = status[signer[h]] # "absent"]
  /\ UNCHANGED <<rows, transfer, signer>>

\* LookupRailSigningKey: the row is a copy from here on.
LoadKey(h, next) ==
  /\ pc[h] = "key"
  /\ pc' = [pc EXCEPT ![h] = next]
  /\ active' = [active EXCEPT ![h] = status[signer[h]] = "ACTIVE"]
  /\ UNCHANGED <<rows, transfer, signer>>

\* Mutant: the validity interval is not compared.
VerifiesAnyTime(h) == active[h]

\* VerifyEd25519RailConfirmation at time.Now() with the row that was read.
Verifies(h) == active[h] /\ term[signer[h]] = "within"

Verify(l) ==
  /\ pc[l] = "verify"
  /\ pc' = [pc EXCEPT ![l] = IF Verifies(l) THEN "settled" ELSE "unsettled"]
  /\ UNCHANGED <<rows, transfer, signer, active>>

\* A read fails, or the caller's context ends: 503.
LookupErrs(l) ==
  /\ pc[l] \in Asking
  /\ pc' = [pc EXCEPT ![l] = "error"]
  /\ UNCHANGED <<rows, transfer, signer, active>>

\* The answer reached its caller.
Answered(l) ==
  /\ pc[l] \in Answers
  /\ pc' = [pc EXCEPT ![l] = "idle"]
  /\ transfer' = [transfer EXCEPT ![l] = None]
  /\ signer' = [signer EXCEPT ![l] = None]
  /\ active' = [active EXCEPT ![l] = FALSE]
  /\ UNCHANGED rows

(***************************************************************************)
(* RailConfirmationIngestHandler, one call i.                              *)
(***************************************************************************)
Finish(i) ==
  /\ pc' = [pc EXCEPT ![i] = "idle"]
  /\ transfer' = [transfer EXCEPT ![i] = None]
  /\ signer' = [signer EXCEPT ![i] = None]
  /\ active' = [active EXCEPT ![i] = FALSE]

Submit(i, t, k) ==
  /\ pc[i] = "idle"
  /\ pc' = [pc EXCEPT ![i] = "expectation"]
  /\ transfer' = [transfer EXCEPT ![i] = t]
  /\ signer' = [signer EXCEPT ![i] = k]
  /\ UNCHANGED <<rows, active>>

CheckExpectation(i) ==
  /\ pc[i] = "expectation"
  /\ transfer[i] \in expectations
  /\ pc' = [pc EXCEPT ![i] = "key"]
  /\ UNCHANGED <<rows, transfer, signer, active>>

CheckKey(i) == LoadKey(i, "verify") /\ status[signer[i]] # "absent"

CheckSignature(i) ==
  /\ pc[i] = "verify"
  /\ Verifies(i)
  /\ pc' = [pc EXCEPT ![i] = "insert"]
  /\ UNCHANGED <<rows, transfer, signer, active>>

\* Mutant: ON CONFLICT DO UPDATE.
OverwriteConfirmation(i) ==
  /\ pc[i] = "insert"
  /\ confirmation' = [confirmation EXCEPT ![transfer[i]] = signer[i]]
  /\ Finish(i)
  /\ UNCHANGED <<posted, sagas, expectations, status, term>>

\* InsertSignedRailConfirmation: UNIQUE (rail_id, rail_message_id) admits one
\* confirmation for the message an expectation names.
StoreConfirmation(i) ==
  /\ pc[i] = "insert"
  /\ confirmation[transfer[i]] = None
  /\ confirmation' = [confirmation EXCEPT ![transfer[i]] = signer[i]]
  /\ Finish(i)
  /\ UNCHANGED <<posted, sagas, expectations, status, term>>

\* Any refusal, error, conflict or crash of the handler.
IngestFails(i) == pc[i] \in Ingesting /\ Finish(i) /\ UNCHANGED rows

(***************************************************************************)
(* Specification.                                                          *)
(***************************************************************************)
Environment ==
  \/ \E k \in Keys : RegisterKey(k) \/ UpdateKey(k) \/ ClockPasses(k)
  \/ \E t \in Transfers : LedgerPosts(t) \/ SagaAdmitted(t) \/ InsertPostingExpectation(t)

LookupStep(l) ==
  \/ \E t \in Transfers : Ask(l, t)
  \/ ReadLedger(l) \/ ReadSaga(l) \/ ReadExpectation(l) \/ ReadConfirmation(l)
  \/ LoadKey(l, "verify") \/ Verify(l) \/ LookupErrs(l) \/ Answered(l)

IngestStep(i) ==
  \/ \E t \in Transfers, k \in Keys : Submit(i, t, k)
  \/ CheckExpectation(i) \/ CheckKey(i) \/ CheckSignature(i)
  \/ StoreConfirmation(i) \/ IngestFails(i)

Next ==
  \/ Environment
  \/ \E l \in Lookups : LookupStep(l)
  \/ \E i \in Ingests : IngestStep(i)

Spec == Init /\ [][Next]_vars
=============================================================================
