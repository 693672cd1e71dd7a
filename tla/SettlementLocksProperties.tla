---------------------- MODULE SettlementLocksProperties -----------------------
(***************************************************************************)
(* What must hold of SettlementLocks.                                      *)
(***************************************************************************)
EXTENDS SettlementLocks

\* Every client is in a transaction it may be in, about a window, and holds rows
\* of those its transaction locks; the committed rows have their types.
TypeOK ==
  /\ StoreTypeOK
  /\ doing \in [Clients -> Transactions \union {"nothing", "dispatch"}]
  /\ on    \in [Clients -> Windows \union {NoWindow}]
  /\ at    \in [Clients -> 1..6]
  /\ held  \in [Clients -> SUBSET {"key", "saga", "window", "case"}]
  /\ calm  \in BOOLEAN

(***************************************************************************)
(* The refinement: the committed rows change as if each transaction ran    *)
(* alone, at the moment it commits.                                        *)
(***************************************************************************)
Atomically(c) ==
  \/ doing[c] = "admit"    /\ AdmitSettlementSaga(on[c])
  \/ doing[c] = "complete" /\ CompleteSettlementSaga(on[c])
  \/ doing[c] = "mark"     /\ MarkReconciliationRequired(on[c])
  \/ doing[c] = "resolve"  /\ ResolveCase(c, on[c])

StoreNext ==
  \/ \E c \in Clients : Atomically(c)
  \/ \E w \in Windows : CreateWindow(w) \/ CloseWindow(w) \/ ExpireLease(w)
  \/ \E k \in Workers : Claim(k) \/ \E w \in Windows : ReopenCase(k, w)

\* Although their statements interleave, skip rows, wait and find rows changed,
\* the transactions of persistence.py and of the worker have the effects that
\* SettlementStore gives them, which the models of the saga rest on.
TransactionsAreAtomic == StoreInit /\ [][StoreNext]_storeVars

(***************************************************************************)
(* Deadlocks.                                                              *)
(***************************************************************************)

\* complete locks saga, key, window; mark locks window, saga, key, case: these
\* two, and no others, can wait for each other.  An admission or a worker's
\* resolution is never the victim of a deadlock.
OnlyOutcomesDeadlock ==
  \A S \in SUBSET Clients :
    Deadlocked(S) => {doing[c] : c \in S} = {"complete", "mark"}

\* Every transaction ends, the quarantine that follows a failed completion
\* included: it commits, raises, or is the victim of a deadlock.
TransactionsEnd == \A c \in Clients : []<>(doing[c] \notin Transactions)

\* Whoever loses a race or a deadlock, as long as nothing is lost an admitted
\* settlement has a request that still waits for its outcome or records it: when
\* the quarantine fails and is only logged, somebody else decides the window.
AdmittedIsAttended ==
  calm => \A w \in Windows : saga[w] = "ADMITTED" =>
            \E r \in Requests : on[r] = w /\ doing[r] \in {"dispatch", "complete", "mark"}
=============================================================================
