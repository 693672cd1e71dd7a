------------------------ MODULE SettlementLocksProofs -------------------------
(***************************************************************************)
(* Proofs about SettlementLocks, for any numbers of windows, requests and  *)
(* workers.                                                                *)
(*                                                                         *)
(* The argument.  A client remembers, of each row it has passed, either    *)
(* that it holds it, and then nobody else has changed it, or that its WHERE*)
(* clause did not match, and then it never will (Knows): that is what makes*)
(* the commit of an interleaved transaction a step of the atomic one.  The *)
(* combinations of committed rows that remain (RowsAgree) say which rows   *)
(* two clients can still both want, and so who can wait for whom.          *)
(***************************************************************************)
EXTENDS SettlementLocksProperties, TLAPS

(***************************************************************************)
(* The inductive invariant.                                                *)
(***************************************************************************)

\* What a client is doing, by its kind, and how far it can have got.
Positions ==
  \A c \in Clients :
    /\ doing[c] = "nothing" => on[c] = NoWindow
    /\ doing[c] # "nothing" => on[c] \in Windows
    /\ doing[c] \in {"nothing", "dispatch"} => held[c] = {}
    /\ c \in Workers => doing[c] \in {"nothing", "resolve"}
    /\ c \in Requests => doing[c] # "resolve"
    /\ at[c] = 1 => held[c] = {}

\* A row is held by one client.
Exclusive ==
  \A c, d \in Clients : c # d /\ on[c] = on[d] =>
    \A row \in held[c] : row \notin held[d]

\* The combinations of committed rows of one window.
RowsAgree ==
  \A w \in Windows :
    /\ saga[w] = "none" <=> idem[w] = "none"
    /\ saga[w] = "ADMITTED" <=> idem[w] = "in_progress"
    /\ saga[w] = "ADMITTED" => window[w] = "PROCESSING"
    /\ saga[w] = "SETTLED" <=> window[w] = "SETTLED"
    /\ saga[w] = "RECONCILIATION_REQUIRED" <=> window[w] = "RECONCILIATION_REQUIRED"
    /\ rcase[w] \in {"OPEN", "PROCESSING"} <=> window[w] = "RECONCILIATION_REQUIRED"
    /\ rcase[w] = "RESOLVED" => window[w] = "SETTLED"

\* What each client knows of the rows it has passed.
KnowsSaga(c) == "saga" \in held[c] <=> saga[on[c]] # "SETTLED"
KnowsKey(c) == "key" \in held[c] <=> idem[on[c]] = "in_progress"

AdmissionKnows(c) ==
  /\ window[on[c]] \notin {"none", "PENDING"}
  /\ at[c] <= 3
  /\ at[c] > 1 => ("key" \in held[c] <=> idem[on[c]] = "none")
  /\ at[c] > 2 => "saga" \in held[c] /\ saga[on[c]] # "SETTLED"
  /\ at[c] <= 2 => "saga" \notin held[c]
  /\ held[c] \subseteq {"key", "saga"}

CompletionKnows(c) ==
  /\ at[c] <= 4
  /\ at[c] > 1 => KnowsSaga(c)
  /\ at[c] > 2 => KnowsKey(c)
  /\ at[c] > 3 => "window" \in held[c] /\ window[on[c]] = "PROCESSING"
  /\ at[c] <= 2 => "key" \notin held[c]
  /\ at[c] <= 3 => "window" \notin held[c]
  /\ held[c] \subseteq {"saga", "key", "window"}

QuarantineKnows(c) ==
  /\ at[c] <= 5
  /\ at[c] > 1 => "window" \in held[c] /\ window[on[c]] = "PROCESSING"
  /\ at[c] > 2 => KnowsSaga(c)
  /\ at[c] > 3 => KnowsKey(c)
  /\ at[c] > 4 => "case" \in held[c]
  /\ at[c] <= 2 => "saga" \notin held[c]
  /\ at[c] <= 3 => "key" \notin held[c]

ResolutionKnows(c) ==
  /\ at[c] > 1 => "case" \in held[c] /\ Holds(c, on[c])
  /\ at[c] > 2 => KnowsSaga(c)
  /\ at[c] > 3 => KnowsKey(c)
  /\ at[c] > 4 => "window" \in held[c] /\ window[on[c]] = "RECONCILIATION_REQUIRED"
  /\ at[c] <= 2 => "saga" \notin held[c]
  /\ at[c] <= 3 => "key" \notin held[c]
  /\ at[c] <= 4 => "window" \notin held[c]

ClientKnows(c) ==
  /\ doing[c] = "admit" => AdmissionKnows(c)
  /\ doing[c] \in {"dispatch", "complete", "mark"} => saga[on[c]] # "none"
  /\ doing[c] = "complete" => CompletionKnows(c)
  /\ doing[c] = "mark" => QuarantineKnows(c)
  /\ doing[c] = "resolve" => ResolutionKnows(c)

Knows == \A c \in Clients : ClientKnows(c)

IInv == TypeOK /\ Positions /\ Exclusive /\ RowsAgree /\ Knows

(***************************************************************************)
(* The table of statements.                                                *)
(***************************************************************************)
LEMMA StatementTable ==
  /\ Transactions = {"admit", "complete", "mark", "resolve"}
  /\ /\ Len(Statements["admit"]) = 2
     /\ Statements["admit"][1] = "key" /\ Statements["admit"][2] = "saga"
  /\ /\ Len(Statements["complete"]) = 3
     /\ Statements["complete"][1] = "saga" /\ Statements["complete"][2] = "key"
     /\ Statements["complete"][3] = "window"
  /\ /\ Len(Statements["mark"]) = 4
     /\ Statements["mark"][1] = "window" /\ Statements["mark"][2] = "saga"
     /\ Statements["mark"][3] = "key" /\ Statements["mark"][4] = "case"
  /\ /\ Len(Statements["resolve"]) = 5
     /\ Statements["resolve"][1] = "claim" /\ Statements["resolve"][2] = "saga"
     /\ Statements["resolve"][3] = "key" /\ Statements["resolve"][4] = "window"
     /\ Statements["resolve"][5] = "case"
BY DEF Transactions, Statements

\* Where a client is that has a statement to run.
At(c, transaction, n, statement) ==
  doing[c] = transaction /\ at[c] = n /\ Statement(c) = statement

LEMMA RunningStatement ==
  ASSUME TypeOK, NEW c \in Clients, Running(c)
  PROVE  \/ At(c, "admit", 1, "key") \/ At(c, "admit", 2, "saga")
         \/ At(c, "complete", 1, "saga") \/ At(c, "complete", 2, "key")
         \/ At(c, "complete", 3, "window")
         \/ At(c, "mark", 1, "window") \/ At(c, "mark", 2, "saga")
         \/ At(c, "mark", 3, "key") \/ At(c, "mark", 4, "case")
         \/ At(c, "resolve", 1, "claim") \/ At(c, "resolve", 2, "saga")
         \/ At(c, "resolve", 3, "key") \/ At(c, "resolve", 4, "window")
         \/ At(c, "resolve", 5, "case")
<1>1. at[c] \in 1..6
  BY DEF TypeOK
<1>2. CASE doing[c] = "admit"
  BY <1>1, <1>2, StatementTable DEF Running, At, Statement
<1>3. CASE doing[c] = "complete"
  BY <1>1, <1>3, StatementTable DEF Running, At, Statement
<1>4. CASE doing[c] = "mark"
  BY <1>1, <1>4, StatementTable DEF Running, At, Statement
<1>5. CASE doing[c] = "resolve"
  BY <1>1, <1>5, StatementTable DEF Running, At, Statement
<1> QED
  BY <1>2, <1>3, <1>4, <1>5, StatementTable DEF Running

LEMMA ReadyTransaction ==
  ASSUME TypeOK, NEW c \in Clients, Ready(c)
  PROVE  \/ doing[c] = "admit" /\ at[c] >= 3
         \/ doing[c] = "complete" /\ at[c] >= 4
         \/ doing[c] = "mark" /\ at[c] >= 5
         \/ doing[c] = "resolve" /\ at[c] >= 6
<1>1. at[c] \in 1..6
  BY DEF TypeOK
<1> QED
  BY <1>1, StatementTable DEF Ready

(***************************************************************************)
(* Commits are atomic.                                                     *)
(***************************************************************************)
LEMMA CommitIsAtomic ==
  ASSUME IInv, NEW c \in Clients, Ready(c), WriteAll(c)
  PROVE  Atomically(c)
<1> USE DEF IInv, Changed, Emit
<1>1. ClientKnows(c) /\ on[c] \in Windows /\ at[c] \in 1..6
  BY ReadyTransaction DEF Knows, Positions, TypeOK
<1>2. CASE doing[c] = "admit"
  <2>1. AdmissionKnows(c) /\ at[c] >= 3
    BY <1>1, <1>2, ReadyTransaction DEF ClientKnows
  <2>2. WriteAdmission(c)
    BY <1>2 DEF WriteAll
  <2>3. /\ "saga" \in held[c] /\ saga[on[c]] # "SETTLED"
        /\ "key" \in held[c] <=> idem[on[c]] = "none"
    BY <1>1, <2>1 DEF AdmissionKnows
  <2>4. saga[on[c]] # "none" => SagaUpdateAllowed(saga[on[c]])
    BY <1>1, <2>3 DEF SagaUpdateAllowed, TypeOK, StoreTypeOK, SagaState
  <2>5. saga' = IF saga[on[c]] = "none" THEN [saga EXCEPT ![on[c]] = "ADMITTED"] ELSE saga
    BY <1>1, <2>2, <2>3 DEF WriteAdmission, TypeOK, StoreTypeOK
  <2> QED
    BY <1>2, <2>2, <2>3, <2>4, <2>5 DEF WriteAdmission, AdmitSettlementSaga, Atomically
<1>3. ASSUME doing[c] \in {"complete", "mark", "resolve"}
      PROVE  /\ KnowsSaga(c) /\ KnowsKey(c) /\ saga[on[c]] # "none"
  <2>1. CASE doing[c] = "complete"
    BY <1>1, <2>1, ReadyTransaction DEF ClientKnows, CompletionKnows
  <2>2. CASE doing[c] = "mark"
    BY <1>1, <2>2, ReadyTransaction DEF ClientKnows, QuarantineKnows
  <2>3. CASE doing[c] = "resolve"
    <3>1. at[c] >= 6 /\ ResolutionKnows(c)
      BY <1>1, <2>3, ReadyTransaction DEF ClientKnows
    <3>2. KnowsSaga(c) /\ KnowsKey(c) /\ Holds(c, on[c])
      BY <1>1, <3>1 DEF ResolutionKnows
    <3>3. saga[on[c]] # "none"
      BY <1>1, <3>2 DEF Holds, RowsAgree
    <3> QED
      BY <3>2, <3>3
  <2> QED
    BY <1>3, <2>1, <2>2, <2>3
<1>4. ASSUME doing[c] \in {"complete", "mark", "resolve"},
             NEW state, saga' = Changed(c, "saga", saga, state)
      PROVE  UpdateSaga(on[c], state)
  BY <1>1, <1>3, <1>4 DEF UpdateSaga, KnowsSaga, SagaUpdateAllowed, TypeOK, StoreTypeOK, SagaState
<1>5. ASSUME doing[c] \in {"complete", "mark", "resolve"},
             NEW status \in {"completed", "reconciliation_required"},
             idem' = Changed(c, "key", idem, status)
      PROVE  UpdateKey(on[c], status)
  BY <1>1, <1>3, <1>5 DEF UpdateKey, KnowsKey, KeyTransitionAllowed
<1>6. CASE doing[c] = "complete"
  <2>1. "window" \in held[c] /\ window[on[c]] = "PROCESSING"
    BY <1>1, <1>6, ReadyTransaction DEF ClientKnows, CompletionKnows
  <2>2. WriteCompletion(c)
    BY <1>6 DEF WriteAll
  <2>3. UpdateSaga(on[c], "SETTLED") /\ UpdateKey(on[c], "completed")
    BY <1>4, <1>5, <1>6, <2>2 DEF WriteCompletion, NewKey
  <2>4. MoveWindow(on[c], "PROCESSING", "SETTLED")
    BY <2>1, <2>2 DEF WriteCompletion, NewWindow, MoveWindow, WindowTransitionAllowed
  <2> QED
    BY <1>6, <2>1, <2>2, <2>3, <2>4 DEF WriteCompletion, CompleteSettlementSaga, Atomically
<1>7. CASE doing[c] = "mark"
  <2>1. "window" \in held[c] /\ window[on[c]] = "PROCESSING" /\ "case" \in held[c]
    BY <1>1, <1>7, ReadyTransaction DEF ClientKnows, QuarantineKnows
  <2>2. WriteQuarantine(c)
    BY <1>7 DEF WriteAll
  <2>3. UpdateSaga(on[c], "RECONCILIATION_REQUIRED") /\ UpdateKey(on[c], "reconciliation_required")
    BY <1>4, <1>5, <1>7, <2>2 DEF WriteQuarantine, NewKey
  <2>4. MoveWindow(on[c], "PROCESSING", "RECONCILIATION_REQUIRED")
    BY <2>1, <2>2 DEF WriteQuarantine, NewWindow, MoveWindow, WindowTransitionAllowed
  <2>5. IF rcase[on[c]] = "none"
          THEN /\ rcase' = [rcase EXCEPT ![on[c]] = "OPEN"]
               /\ older' = [older EXCEPT ![on[c]] = {v \in Windows : rcase[v] # "none"}]
          ELSE UNCHANGED <<rcase, older>>
    BY <1>1, <2>1, <2>2 DEF WriteQuarantine, TypeOK, StoreTypeOK
  <2> QED
    BY <1>7, <2>2, <2>3, <2>4, <2>5 DEF WriteQuarantine, MarkReconciliationRequired, Atomically
<1>8. CASE doing[c] = "resolve"
  <2>1. /\ "window" \in held[c] /\ window[on[c]] = "RECONCILIATION_REQUIRED"
        /\ "case" \in held[c] /\ Holds(c, on[c])
    BY <1>1, <1>8, ReadyTransaction DEF ClientKnows, ResolutionKnows
  <2>2. WriteResolution(c)
    BY <1>8 DEF WriteAll
  <2>3. UpdateSaga(on[c], "SETTLED") /\ UpdateKey(on[c], "completed")
    BY <1>4, <1>5, <1>8, <2>2 DEF WriteResolution, NewKey
  <2>4. MoveWindow(on[c], "RECONCILIATION_REQUIRED", "SETTLED")
    BY <2>1, <2>2 DEF WriteResolution, NewWindow, MoveWindow, WindowTransitionAllowed
  <2> QED
    BY <1>8, <2>1, <2>2, <2>3, <2>4 DEF WriteResolution, ResolveCase, Atomically
<1> QED
  BY <1>2, <1>6, <1>7, <1>8, ReadyTransaction

(***************************************************************************)
(* Statements keep the invariant.                                          *)
(***************************************************************************)

\* What a client knows is about its own position and the committed rows.
LEMMA KnowsWithoutChange ==
  ASSUME NEW d \in Clients, ClientKnows(d), UNCHANGED storeVars,
         doing'[d] = doing[d], on'[d] = on[d], at'[d] = at[d], held'[d] = held[d]
  PROVE  ClientKnows(d)'
BY DEF ClientKnows, AdmissionKnows, CompletionKnows, QuarantineKnows, ResolutionKnows,
       KnowsSaga, KnowsKey, Holds, storeVars

\* A step of one client that is not a commit keeps the invariant if it keeps that
\* client's part of it.
LEMMA OneClientMoves ==
  ASSUME IInv, NEW c \in Clients, UNCHANGED storeVars, TypeOK',
         \A d \in Clients \ {c} : /\ doing'[d] = doing[d] /\ on'[d] = on[d]
                                  /\ at'[d] = at[d] /\ held'[d] = held[d],
         /\ doing'[c] = "nothing" => on'[c] = NoWindow
         /\ doing'[c] # "nothing" => on'[c] \in Windows
         /\ doing'[c] \in {"nothing", "dispatch"} => held'[c] = {}
         /\ c \in Workers => doing'[c] \in {"nothing", "resolve"}
         /\ c \in Requests => doing'[c] # "resolve"
         /\ at'[c] = 1 => held'[c] = {},
         \A d \in Clients \ {c} : on[d] = on'[c] => \A row \in held'[c] : row \notin held[d],
         ClientKnows(c)'
  PROVE  IInv'
<1>1. Positions'
  BY DEF IInv, Positions
<1>2. Exclusive'
  BY DEF IInv, Exclusive
<1>3. RowsAgree'
  BY DEF IInv, RowsAgree, storeVars
<1>4. Knows'
  BY KnowsWithoutChange DEF IInv, Knows
<1> QED
  BY <1>1, <1>2, <1>3, <1>4 DEF IInv

LEMMA LockKeeps == ASSUME IInv, NEW c \in Clients, Lock(c) PROVE IInv'
<1> DEFINE row == RowOf(Statement(c))
<1> USE DEF IInv
<1>1. /\ Running(c) /\ Matches(c) /\ ~Waits(c) /\ ~Vetoed(c)
      /\ at' = [at EXCEPT ![c] = @ + 1] /\ held' = [held EXCEPT ![c] = @ \union {row}]
      /\ UNCHANGED storeVars /\ UNCHANGED <<doing, on, calm>>
  BY DEF Lock
<1>2. doing[c] \in Transactions /\ on[c] \in Windows /\ at[c] \in 1..5 /\ ClientKnows(c)
  <2>1. ClientKnows(c) /\ doing[c] \in Transactions
    BY <1>1 DEF Knows, Running
  <2>2. on[c] \in Windows
    BY <2>1, StatementTable DEF Positions
  <2>3. at[c] \in 1..5
    BY <1>1, RunningStatement DEF At
  <2> QED
    BY <2>1, <2>2, <2>3
<1>3. row \in {"key", "saga", "window", "case"}
  BY <1>1, RunningStatement DEF At, RowOf
<1>4. at'[c] = at[c] + 1 /\ held'[c] = held[c] \union {row}
  BY <1>1 DEF TypeOK
<1>5. TypeOK'
  <2>1. StoreTypeOK'
    BY <1>1 DEF TypeOK, StoreTypeOK, storeVars
  <2>2. held[c] \union {row} \in SUBSET {"key", "saga", "window", "case"}
    BY <1>3 DEF TypeOK
  <2> HIDE DEF row
  <2> QED
    BY <1>1, <1>2, <2>1, <2>2 DEF TypeOK
<1>6. ASSUME NEW d \in Clients \ {c}, on[d] = on[c] PROVE \A r \in held'[c] : r \notin held[d]
  <2>1. row \notin held[d]
    BY <1>1, <1>6 DEF Waits, WaitsFor, LockedBy
  <2> QED
    BY <1>4, <1>6, <2>1 DEF Exclusive
<1>7. ClientKnows(c)'
  <2>1. /\ window' = window /\ saga' = saga /\ idem' = idem /\ rcase' = rcase
        /\ holder' = holder /\ doing' = doing /\ on' = on
    BY <1>1 DEF storeVars
  <2> USE <1>1, <1>2, <1>4, <2>1 DEF At, RowOf, Matches, ClientKnows
  <2>2. CASE doing[c] = "admit"
    <3>1. At(c, "admit", 1, "key") \/ At(c, "admit", 2, "saga")
      BY <2>2, RunningStatement
    <3>2. AdmissionKnows(c)
      BY <2>2
    <3>3. saga[on[c]] # "SETTLED" \/ at[c] = 1
      BY <3>1 DEF Vetoed, SagaUpdateAllowed
    <3>4. AdmissionKnows(c)'
      BY <2>2, <3>1, <3>2, <3>3 DEF AdmissionKnows, Positions
    <3> QED
      BY <2>2, <3>4
  <2>3. CASE doing[c] = "complete"
    <3>1. \/ At(c, "complete", 1, "saga") \/ At(c, "complete", 2, "key")
          \/ At(c, "complete", 3, "window")
      BY <2>3, RunningStatement
    <3>2. CompletionKnows(c)'
      BY <2>3, <3>1 DEF CompletionKnows, KnowsSaga, KnowsKey, Positions
    <3> QED
      BY <2>3, <3>2
  <2>4. CASE doing[c] = "mark"
    <3>1. \/ At(c, "mark", 1, "window") \/ At(c, "mark", 2, "saga")
          \/ At(c, "mark", 3, "key") \/ At(c, "mark", 4, "case")
      BY <2>4, RunningStatement
    <3>2. QuarantineKnows(c)'
      BY <2>4, <3>1 DEF QuarantineKnows, KnowsSaga, KnowsKey, Positions
    <3> QED
      BY <2>4, <3>2
  <2>5. CASE doing[c] = "resolve"
    <3>1. \/ At(c, "resolve", 1, "claim") \/ At(c, "resolve", 2, "saga")
          \/ At(c, "resolve", 3, "key") \/ At(c, "resolve", 4, "window")
          \/ At(c, "resolve", 5, "case")
      BY <2>5, RunningStatement
    <3>2. ResolutionKnows(c)'
      BY <2>5, <3>1 DEF ResolutionKnows, KnowsSaga, KnowsKey, Positions, Holds
    <3> QED
      BY <2>5, <3>2
  <2> QED
    BY <2>2, <2>3, <2>4, <2>5, StatementTable
<1>8. /\ doing'[c] # "nothing" /\ doing'[c] # "dispatch" /\ on'[c] = on[c] /\ at'[c] # 1
      /\ c \in Workers => doing'[c] \in {"nothing", "resolve"}
      /\ c \in Requests => doing'[c] # "resolve"
  BY <1>1, <1>2, <1>4, StatementTable DEF Positions
<1>9. \A d \in Clients \ {c} : /\ doing'[d] = doing[d] /\ on'[d] = on[d]
                               /\ at'[d] = at[d] /\ held'[d] = held[d]
  BY <1>1 DEF TypeOK
<1> HIDE DEF IInv, row
<1> QED
  BY <1>1, <1>2, <1>5, <1>6, <1>7, <1>8, <1>9, OneClientMoves

LEMMA SkipKeeps == ASSUME IInv, NEW c \in Clients, Skip(c) PROVE IInv'
<1> USE DEF IInv
<1>1. /\ Running(c) /\ ~Matches(c) /\ ~Required(c)
      /\ at' = [at EXCEPT ![c] = @ + 1]
      /\ UNCHANGED storeVars /\ UNCHANGED <<doing, on, held, calm>>
  BY DEF Skip
<1>2. doing[c] \in Transactions /\ on[c] \in Windows /\ at[c] \in 1..5 /\ ClientKnows(c)
  <2>1. ClientKnows(c) /\ doing[c] \in Transactions
    BY <1>1 DEF Knows, Running
  <2>2. on[c] \in Windows
    BY <2>1, StatementTable DEF Positions
  <2>3. at[c] \in 1..5
    BY <1>1, RunningStatement DEF At
  <2> QED
    BY <2>1, <2>2, <2>3
<1>3. at'[c] = at[c] + 1
  BY <1>1 DEF TypeOK
<1>4. TypeOK'
  <2>1. StoreTypeOK'
    BY <1>1 DEF TypeOK, StoreTypeOK, storeVars
  <2> QED
    BY <1>1, <1>2, <2>1 DEF TypeOK
<1>5. ClientKnows(c)'
  <2>1. /\ window' = window /\ saga' = saga /\ idem' = idem /\ rcase' = rcase
        /\ holder' = holder /\ doing' = doing /\ on' = on /\ held' = held
    BY <1>1 DEF storeVars
  <2>2. \/ At(c, "admit", 1, "key") \/ At(c, "complete", 1, "saga")
        \/ At(c, "complete", 2, "key") \/ At(c, "mark", 2, "saga") \/ At(c, "mark", 3, "key")
        \/ At(c, "resolve", 2, "saga") \/ At(c, "resolve", 3, "key")
    BY <1>1, RunningStatement DEF At, Matches, Required
  <2>3. saga[on[c]] \in SagaState
    BY <1>2 DEF TypeOK, StoreTypeOK
  <2> USE <1>1, <1>2, <1>3, <2>1 DEF At, Matches, ClientKnows
  <2>4. CASE At(c, "admit", 1, "key")
    BY <2>4 DEF AdmissionKnows, Positions
  <2>5. CASE At(c, "complete", 1, "saga") \/ At(c, "complete", 2, "key")
    BY <2>3, <2>5 DEF CompletionKnows, KnowsSaga, KnowsKey, Positions, SagaState
  <2>6. CASE At(c, "mark", 2, "saga") \/ At(c, "mark", 3, "key")
    BY <2>3, <2>6 DEF QuarantineKnows, KnowsSaga, KnowsKey, SagaState
  <2>7. CASE At(c, "resolve", 2, "saga") \/ At(c, "resolve", 3, "key")
    <3>1. saga[on[c]] # "none"
      BY <2>7 DEF ResolutionKnows, Holds, RowsAgree
    <3> QED
      BY <2>3, <2>7, <3>1 DEF ResolutionKnows, KnowsSaga, KnowsKey, SagaState, Holds
  <2> QED
    BY <2>2, <2>4, <2>5, <2>6, <2>7
<1>6. /\ doing'[c] # "nothing" /\ doing'[c] # "dispatch" /\ on'[c] = on[c] /\ at'[c] # 1
      /\ c \in Workers => doing'[c] \in {"nothing", "resolve"}
      /\ c \in Requests => doing'[c] # "resolve"
  BY <1>1, <1>2, <1>3, StatementTable DEF Positions
<1>7. \A d \in Clients \ {c} : /\ doing'[d] = doing[d] /\ on'[d] = on[d]
                               /\ at'[d] = at[d] /\ held'[d] = held[d]
  BY <1>1 DEF TypeOK
<1>8. \A d \in Clients \ {c} : on[d] = on'[c] => \A r \in held'[c] : r \notin held[d]
  BY <1>1 DEF Exclusive
<1> HIDE DEF IInv
<1> QED
  BY <1>1, <1>2, <1>4, <1>5, <1>6, <1>7, <1>8, OneClientMoves

\* A client begins something else, without a commit.
LEMMA BeginKeeps ==
  ASSUME IInv, NEW c \in Clients, NEW activity, NEW w,
         Begin(c, activity, w), UNCHANGED storeVars, calm' \in BOOLEAN,
         activity \in Transactions \union {"nothing", "dispatch"},
         activity # "nothing" => w \in Windows,
         c \in Workers => activity \in {"nothing", "resolve"},
         c \in Requests => activity # "resolve",
         activity = "admit" => window[w] \notin {"none", "PENDING"},
         activity \in {"dispatch", "complete", "mark"} => saga[w] # "none"
  PROVE  IInv'
<1> USE DEF IInv
<1>1. /\ doing' = [doing EXCEPT ![c] = activity]
      /\ on'    = [on EXCEPT ![c] = IF activity = "nothing" THEN NoWindow ELSE w]
      /\ at'    = [at EXCEPT ![c] = 1]
      /\ held'  = [held EXCEPT ![c] = {}]
  BY DEF Begin
<1>2. TypeOK'
  <2>1. StoreTypeOK'
    BY DEF TypeOK, StoreTypeOK, storeVars
  <2> QED
    BY <1>1, <2>1 DEF TypeOK
<1>3. /\ doing'[c] = activity /\ at'[c] = 1 /\ held'[c] = {}
      /\ on'[c] = IF activity = "nothing" THEN NoWindow ELSE w
  BY <1>1 DEF TypeOK
<1>4. ClientKnows(c)'
  BY <1>3 DEF ClientKnows, AdmissionKnows, CompletionKnows, QuarantineKnows,
              ResolutionKnows, storeVars
<1>5. \A d \in Clients \ {c} : /\ doing'[d] = doing[d] /\ on'[d] = on[d]
                               /\ at'[d] = at[d] /\ held'[d] = held[d]
  BY <1>1 DEF TypeOK
<1> HIDE DEF IInv
<1> QED
  BY <1>2, <1>3, <1>4, <1>5, OneClientMoves

\* What a client does after an error is something it may do.
LEMMA RollBackKeeps ==
  ASSUME IInv, NEW c \in Clients, doing[c] \in Transactions, RollBack(c), calm' \in BOOLEAN
  PROVE  IInv'
<1>1. on[c] \in Windows /\ ClientKnows(c)
  BY StatementTable DEF IInv, Positions, Knows
<1>2. AfterError[doing[c]] = IF doing[c] = "complete" THEN "mark" ELSE "nothing"
  BY StatementTable DEF AfterError
<1>3. c \in Workers => doing[c] # "complete"
  BY DEF IInv, Positions
<1>4. Begin(c, AfterError[doing[c]], on[c]) /\ UNCHANGED storeVars
  BY DEF RollBack
<1> QED
  BY <1>1, <1>2, <1>3, <1>4, BeginKeeps, StatementTable DEF ClientKnows

(***************************************************************************)
(* Changes of the committed rows keep the invariant.                       *)
(***************************************************************************)

\* What no change of the rows takes back: a row that did not match never will.
Grows ==
  \A w \in Windows :
    /\ saga[w] # "none" => saga'[w] # "none"
    /\ saga[w] = "SETTLED" => saga'[w] = "SETTLED"
    /\ idem[w] # "none" => idem'[w] # "none"
    /\ idem[w] # "none" /\ idem'[w] = "in_progress" => idem[w] = "in_progress"
    /\ window[w] \notin {"none", "PENDING"} => window'[w] \notin {"none", "PENDING"}

\* The rows a client holds stay as they are.
Stays(d) ==
  LET w == on[d] IN
  /\ "saga" \in held[d] => saga'[w] = saga[w]
  /\ "key" \in held[d] => idem'[w] = idem[w]
  /\ "window" \in held[d] => window'[w] = window[w]
  /\ "case" \in held[d] => rcase'[w] = rcase[w] /\ holder'[w] = holder[w]

LEMMA KnowsStays ==
  ASSUME IInv, NEW d \in Clients, Grows, Stays(d),
         doing'[d] = doing[d], on'[d] = on[d], at'[d] = at[d], held'[d] = held[d]
  PROVE  ClientKnows(d)'
<1>1. ClientKnows(d) /\ at[d] \in 1..6
  BY DEF IInv, Knows, TypeOK
<1>2. CASE doing[d] = "nothing"
  BY <1>2 DEF ClientKnows
<1>3. ASSUME doing[d] # "nothing" PROVE ClientKnows(d)'
  <2>1. on[d] \in Windows
    BY <1>3 DEF IInv, Positions
  <2> DEFINE w == on[d]
  <2>2. /\ saga[w] # "none" => saga'[w] # "none" /\ idem[w] # "none"
        /\ saga[w] = "SETTLED" => saga'[w] = "SETTLED"
        /\ idem[w] # "none" => idem'[w] # "none"
        /\ idem[w] # "none" /\ idem'[w] = "in_progress" => idem[w] = "in_progress"
        /\ window[w] \notin {"none", "PENDING"} => window'[w] \notin {"none", "PENDING"}
    BY <2>1 DEF Grows, IInv, RowsAgree
  <2> USE <1>1, <2>2 DEF Stays, ClientKnows
  <2>3. CASE doing[d] = "admit"
    BY <2>3 DEF AdmissionKnows
  <2>4. CASE doing[d] = "dispatch"
    BY <2>4
  <2>5. CASE doing[d] = "complete"
    BY <2>5 DEF CompletionKnows, KnowsSaga, KnowsKey
  <2>6. CASE doing[d] = "mark"
    BY <2>6 DEF QuarantineKnows, KnowsSaga, KnowsKey
  <2>7. CASE doing[d] = "resolve"
    <3>1. at[d] > 1 => saga[w] # "none"
      BY <2>1, <2>7 DEF ResolutionKnows, Holds, IInv, RowsAgree
    <3> QED
      BY <2>7, <3>1 DEF ResolutionKnows, KnowsSaga, KnowsKey, Holds
  <2> QED
    BY <1>3, <2>3, <2>4, <2>5, <2>6, <2>7, StatementTable DEF IInv, TypeOK
<1> QED
  BY <1>2, <1>3

\* The atomic transactions keep the combinations of rows.
LEMMA AtomicAgrees ==
  ASSUME IInv, NEW c \in Clients, Atomically(c)
  PROVE  StoreTypeOK' /\ RowsAgree' /\ Grows
<1> DEFINE w == on[c]
<1> USE DEF WindowStatus, SagaState, KeyStatus, CaseState, Emit, EventType
<1>1. w \in Windows /\ ClientKnows(c) /\ StoreTypeOK /\ RowsAgree
  BY DEF IInv, Positions, Knows, TypeOK, Atomically
<1> HIDE DEF w
<1>2. CASE doing[c] = "admit"
  <2>1. AdmitSettlementSaga(w) /\ window[w] \notin {"none", "PENDING"}
    BY <1>1, <1>2 DEF Atomically, ClientKnows, AdmissionKnows, w
  <2> USE <1>1, <2>1 DEF AdmitSettlementSaga, SagaUpdateAllowed
  <2>2. StoreTypeOK'
    BY DEF StoreTypeOK
  <2>3. RowsAgree'
    BY DEF StoreTypeOK, RowsAgree
  <2>4. Grows
    BY DEF StoreTypeOK, RowsAgree, Grows
  <2> QED
    BY <2>2, <2>3, <2>4
<1>3. CASE doing[c] = "complete"
  <2>1. CompleteSettlementSaga(w) /\ saga[w] # "none"
    BY <1>1, <1>3 DEF Atomically, ClientKnows, w
  <2>2. /\ window[w] = "PROCESSING" /\ saga[w] = "ADMITTED" /\ idem[w] = "in_progress"
        /\ rcase[w] = "none"
    BY <1>1, <2>1 DEF CompleteSettlementSaga, MoveWindow, RowsAgree, StoreTypeOK
  <2>3. /\ saga' = [saga EXCEPT ![w] = "SETTLED"]
        /\ idem' = [idem EXCEPT ![w] = "completed"]
        /\ window' = [window EXCEPT ![w] = "SETTLED"]
        /\ certificate' = [certificate EXCEPT ![w] = "ledger"]
        /\ outbox' = outbox \union {<<"saga.settled", w>>}
        /\ UNCHANGED <<rcase, holder, lease, older>>
    BY <2>1, <2>2 DEF CompleteSettlementSaga, UpdateSaga, UpdateKey, MoveWindow
  <2>4. StoreTypeOK'
    BY <1>1, <2>3 DEF StoreTypeOK
  <2>5. RowsAgree'
    BY <1>1, <2>2, <2>3 DEF StoreTypeOK, RowsAgree
  <2>6. Grows
    BY <1>1, <2>2, <2>3 DEF StoreTypeOK, Grows
  <2> QED
    BY <2>4, <2>5, <2>6
<1>4. CASE doing[c] = "mark"
  <2>1. MarkReconciliationRequired(w) /\ saga[w] # "none"
    BY <1>1, <1>4 DEF Atomically, ClientKnows, w
  <2>2. /\ window[w] = "PROCESSING" /\ saga[w] = "ADMITTED" /\ idem[w] = "in_progress"
        /\ rcase[w] = "none"
    BY <1>1, <2>1 DEF MarkReconciliationRequired, MoveWindow, RowsAgree, StoreTypeOK
  <2>3. /\ saga' = [saga EXCEPT ![w] = "RECONCILIATION_REQUIRED"]
        /\ idem' = [idem EXCEPT ![w] = "reconciliation_required"]
        /\ window' = [window EXCEPT ![w] = "RECONCILIATION_REQUIRED"]
        /\ rcase' = [rcase EXCEPT ![w] = "OPEN"]
        /\ older' = [older EXCEPT ![w] = {v \in Windows : rcase[v] # "none"}]
        /\ outbox' = outbox \union {<<"reconciliation.required", w>>}
        /\ UNCHANGED <<certificate, holder, lease>>
    BY <2>1, <2>2 DEF MarkReconciliationRequired, UpdateSaga, UpdateKey, MoveWindow
  <2>4. StoreTypeOK'
    BY <1>1, <2>3 DEF StoreTypeOK
  <2>5. RowsAgree'
    BY <1>1, <2>2, <2>3 DEF StoreTypeOK, RowsAgree
  <2>6. Grows
    BY <1>1, <2>2, <2>3 DEF StoreTypeOK, Grows
  <2> QED
    BY <2>4, <2>5, <2>6
<1>5. CASE doing[c] = "resolve"
  <2>1. ResolveCase(c, w)
    BY <1>5 DEF Atomically, w
  <2>2. /\ window[w] = "RECONCILIATION_REQUIRED" /\ saga[w] = "RECONCILIATION_REQUIRED"
        /\ idem[w] \notin {"none", "in_progress"}
    BY <1>1, <2>1 DEF ResolveCase, Holds, RowsAgree, StoreTypeOK
  <2>3. /\ saga' = [saga EXCEPT ![w] = "SETTLED"]
        /\ idem' = idem
        /\ window' = [window EXCEPT ![w] = "SETTLED"]
        /\ certificate' = [certificate EXCEPT ![w] = "rail"]
        /\ rcase'  = [rcase EXCEPT ![w] = "RESOLVED"]
        /\ holder' = [holder EXCEPT ![w] = Nobody]
        /\ lease'  = [lease EXCEPT ![w] = "none"]
        /\ outbox' = outbox \union {<<"reconciliation.resolved", w>>}
        /\ UNCHANGED older
    BY <2>1, <2>2 DEF ResolveCase, UpdateSaga, UpdateKey, MoveWindow
  <2>4. StoreTypeOK'
    BY <1>1, <2>3 DEF StoreTypeOK
  <2>5. RowsAgree'
    BY <1>1, <2>2, <2>3 DEF StoreTypeOK, RowsAgree
  <2>6. Grows
    BY <1>1, <2>2, <2>3 DEF StoreTypeOK, Grows
  <2> QED
    BY <2>4, <2>5, <2>6
<1> QED
  BY <1>2, <1>3, <1>4, <1>5 DEF Atomically

\* A commit changes only what its transaction holds.
LEMMA WritesHeldRows ==
  ASSUME IInv, NEW c \in Clients, WriteAll(c), NEW d \in Clients \ {c}
  PROVE  Stays(d)
<1>1. on[c] = on[d] => \A row \in held[c] : row \notin held[d]
  BY DEF IInv, Exclusive
<1>2. StoreTypeOK
  BY DEF IInv, TypeOK
<1> USE <1>1, <1>2 DEF Changed, StoreTypeOK, Stays
<1>3. CASE WriteAdmission(c)
  BY <1>3 DEF WriteAdmission
<1>4. CASE WriteCompletion(c)
  BY <1>4 DEF WriteCompletion
<1>5. CASE WriteQuarantine(c)
  BY <1>5 DEF WriteQuarantine
<1>6. CASE WriteResolution(c)
  BY <1>6 DEF WriteResolution
<1> QED
  BY <1>3, <1>4, <1>5, <1>6 DEF WriteAll

LEMMA CommitKeeps ==
  ASSUME IInv, NEW c \in Clients, Ready(c), WriteAll(c), calm' \in BOOLEAN,
         NEW activity \in {AfterCommit[doing[c]], AfterError[doing[c]]},
         Begin(c, activity, on[c])
  PROVE  IInv'
<1> DEFINE w == on[c]
<1>1. Atomically(c)
  BY CommitIsAtomic
<1>2. StoreTypeOK' /\ RowsAgree' /\ Grows
  BY <1>1, AtomicAgrees
<1>3. doing[c] \in Transactions /\ w \in Windows /\ ClientKnows(c)
  BY StatementTable DEF Ready, IInv, Positions, Knows
<1>4. /\ activity \in {"nothing", "dispatch", "mark"}
      /\ activity = "dispatch" => doing[c] = "admit"
      /\ activity = "mark" => doing[c] = "complete"
  BY <1>3, StatementTable DEF AfterCommit, AfterError
<1>5. /\ doing' = [doing EXCEPT ![c] = activity]
      /\ on'    = [on EXCEPT ![c] = IF activity = "nothing" THEN NoWindow ELSE w]
      /\ at'    = [at EXCEPT ![c] = 1]
      /\ held'  = [held EXCEPT ![c] = {}]
  BY DEF Begin
<1>6. /\ doing'[c] = activity /\ at'[c] = 1 /\ held'[c] = {}
      /\ on'[c] = IF activity = "nothing" THEN NoWindow ELSE w
  BY <1>5 DEF IInv, TypeOK
<1>7. \A d \in Clients \ {c} : /\ doing'[d] = doing[d] /\ on'[d] = on[d]
                               /\ at'[d] = at[d] /\ held'[d] = held[d]
  BY <1>5 DEF IInv, TypeOK
<1>8. TypeOK'
  BY <1>2, <1>3, <1>4, <1>5, StatementTable DEF IInv, TypeOK
<1>9. Positions'
  <2>1. c \in Workers => doing[c] \in {"nothing", "resolve"}
    BY DEF IInv, Positions
  <2>2. \A d \in Clients \ {c} :
          /\ doing[d] = "nothing" => on[d] = NoWindow
          /\ doing[d] # "nothing" => on[d] \in Windows
          /\ doing[d] \in {"nothing", "dispatch"} => held[d] = {}
          /\ d \in Workers => doing[d] \in {"nothing", "resolve"}
          /\ d \in Requests => doing[d] # "resolve"
          /\ at[d] = 1 => held[d] = {}
    BY DEF IInv, Positions
  <2> QED
    BY <1>3, <1>4, <1>6, <1>7, <2>1, <2>2 DEF Positions
<1>10. Exclusive'
  BY <1>6, <1>7 DEF IInv, Exclusive
<1>11. Knows'
  <2>1. ClientKnows(c)'
    <3>1. activity = "dispatch" => saga'[w] # "none"
      BY <1>1, <1>3, <1>4 DEF Atomically, AdmitSettlementSaga, IInv, TypeOK, StoreTypeOK
    <3>2. activity = "mark" => saga'[w] # "none"
      BY <1>2, <1>3, <1>4 DEF ClientKnows, Grows
    <3> QED
      BY <1>4, <1>6, <3>1, <3>2 DEF ClientKnows, QuarantineKnows
  <2>2. ASSUME NEW d \in Clients \ {c} PROVE ClientKnows(d)'
    BY <1>2, <1>7, KnowsStays, WritesHeldRows
  <2> QED
    BY <2>1, <2>2 DEF Knows
<1> QED
  BY <1>2, <1>8, <1>9, <1>10, <1>11 DEF IInv

\* Other changes of rows that leave alone what is held keep the invariant.
LEMMA RowsMove ==
  ASSUME IInv, UNCHANGED clientVars, StoreTypeOK', RowsAgree', Grows,
         \A d \in Clients : Stays(d)
  PROVE  IInv'
<1>1. doing' = doing /\ on' = on /\ at' = at /\ held' = held /\ calm' = calm
  BY DEF clientVars
<1>2. TypeOK' /\ Positions' /\ Exclusive'
  BY <1>1 DEF IInv, TypeOK, Positions, Exclusive
<1>3. Knows'
  BY <1>1, KnowsStays DEF Knows
<1> QED
  BY <1>2, <1>3 DEF IInv

LEMMA OneStatementKeeps ==
  ASSUME IInv, NEW w \in Windows, OneStatement(w), UNCHANGED clientVars
  PROVE  IInv'
<1> USE DEF WindowStatus, SagaState, KeyStatus, CaseState, OneStatement
<1>1. StoreTypeOK /\ RowsAgree
  BY DEF IInv, TypeOK
<1>2. StoreTypeOK'
  BY <1>1 DEF StoreTypeOK, CreateWindow, CloseWindow, ExpireLease
<1>3. RowsAgree' /\ Grows
  <2>1. CASE CreateWindow(w)
    BY <1>1, <2>1 DEF StoreTypeOK, CreateWindow, RowsAgree, Grows
  <2>2. CASE CloseWindow(w)
    BY <1>1, <2>2 DEF StoreTypeOK, CloseWindow, WindowTransitionAllowed, RowsAgree, Grows
  <2>3. CASE ExpireLease(w)
    BY <1>1, <2>3 DEF StoreTypeOK, ExpireLease, RowsAgree, Grows
  <2> QED
    BY <2>1, <2>2, <2>3
<1>4. ASSUME NEW d \in Clients PROVE Stays(d)
  <2>1. CASE CreateWindow(w)
    <3>1. "window" \in held[d] /\ on[d] = w => window[w] # "none"
      <4>1. ClientKnows(d) /\ doing[d] \in Transactions \union {"nothing", "dispatch"}
            /\ at[d] \in 1..6
        BY DEF IInv, Knows, TypeOK
      <4>2. doing[d] \in {"nothing", "dispatch"} => held[d] = {}
        BY DEF IInv, Positions
      <4>3. at[d] = 1 => held[d] = {}
        BY DEF IInv, Positions
      <4> QED
        BY <4>1, <4>2, <4>3, StatementTable
           DEF ClientKnows, AdmissionKnows, CompletionKnows, QuarantineKnows, ResolutionKnows
    <3> QED
      BY <1>1, <2>1, <3>1 DEF CreateWindow, StoreTypeOK, Stays
  <2>2. CASE w \notin Locked("window") /\ CloseWindow(w)
    BY <1>1, <2>2 DEF CloseWindow, StoreTypeOK, Stays, Locked, LockedBy
  <2>3. CASE ExpireLease(w)
    BY <1>1, <2>3 DEF ExpireLease, StoreTypeOK, Stays
  <2> QED
    BY <2>1, <2>2, <2>3
<1> QED
  BY <1>2, <1>3, <1>4, RowsMove

LEMMA ClaimKeeps ==
  ASSUME IInv, NEW k \in Workers, Claim(k), UNCHANGED clientVars PROVE IInv'
<1>1. PICK batch \in SUBSET Windows : ClaimCases(k, batch, Locked("case"))
  BY DEF Claim
<1>2. batch \subseteq Claimable /\ \A w \in batch : w \notin Locked("case")
  BY <1>1 DEF ClaimCases, OldestFirst
<1>3. /\ rcase'  = [w \in Windows |-> IF w \in batch THEN "PROCESSING" ELSE rcase[w]]
      /\ holder' = [w \in Windows |-> IF w \in batch THEN k ELSE holder[w]]
      /\ lease'  = [w \in Windows |-> IF w \in batch THEN "live" ELSE lease[w]]
      /\ UNCHANGED <<window, certificate, saga, idem, older, outbox>>
  BY <1>1 DEF ClaimCases
<1>4. StoreTypeOK /\ RowsAgree
  BY DEF IInv, TypeOK
<1>5. StoreTypeOK'
  BY <1>3, <1>4 DEF StoreTypeOK, CaseState
<1>6. RowsAgree' /\ Grows
  BY <1>2, <1>3, <1>4 DEF RowsAgree, Grows, Claimable
<1>7. ASSUME NEW d \in Clients PROVE Stays(d)
  <2>1. on[d] \in Windows \/ held[d] = {}
    BY DEF IInv, Positions
  <2>2. "case" \in held[d] => on[d] \notin batch
    BY <1>2 DEF Locked, LockedBy
  <2> QED
    BY <1>3, <2>1, <2>2 DEF Stays
<1> QED
  BY <1>5, <1>6, <1>7, RowsMove

LEMMA ReopenKeeps ==
  ASSUME IInv, NEW k \in Workers, NEW w \in Windows, Reopen(k, w), UNCHANGED clientVars
  PROVE  IInv'
<1>1. /\ Holds(k, w) /\ w \notin Locked("case")
      /\ rcase'  = [rcase EXCEPT ![w] = "OPEN"]
      /\ holder' = [holder EXCEPT ![w] = Nobody]
      /\ lease'  = [lease EXCEPT ![w] = "none"]
      /\ UNCHANGED <<window, certificate, saga, idem, older, outbox>>
  BY DEF Reopen, ReopenCase
<1>2. StoreTypeOK /\ RowsAgree
  BY DEF IInv, TypeOK
<1>3. StoreTypeOK'
  BY <1>1, <1>2 DEF StoreTypeOK, CaseState
<1>4. RowsAgree' /\ Grows
  BY <1>1, <1>2 DEF StoreTypeOK, RowsAgree, Grows, Holds
<1>5. ASSUME NEW d \in Clients PROVE Stays(d)
  BY <1>1, <1>2 DEF Stays, Locked, LockedBy, StoreTypeOK
<1> QED
  BY <1>3, <1>4, <1>5, RowsMove

(***************************************************************************)
(* The invariant holds.                                                    *)
(***************************************************************************)
LEMMA InitHolds == Init => IInv
<1> SUFFICES ASSUME Init PROVE IInv
  OBVIOUS
<1> USE DEF Init, StoreInit
<1>1. TypeOK
  BY DEF TypeOK, StoreTypeOK, WindowStatus, SagaState, KeyStatus, CaseState, EventType
<1>2. Positions /\ Exclusive /\ RowsAgree
  BY DEF Positions, Exclusive, RowsAgree
<1>3. Knows
  BY DEF Knows, ClientKnows
<1> QED
  BY <1>1, <1>2, <1>3 DEF IInv

LEMMA StepKeeps == IInv /\ [Next]_vars => IInv'
<1> SUFFICES ASSUME IInv, [Next]_vars PROVE IInv'
  OBVIOUS
<1>1. calm \in BOOLEAN
  BY DEF IInv, TypeOK
<1>2. ASSUME NEW c \in Clients, Advance(c) PROVE IInv'
  <2>1. CASE Lock(c)
    BY <2>1, LockKeeps
  <2>2. CASE Skip(c)
    BY <2>2, SkipKeeps
  <2>3. CASE Raise(c)
    BY <1>1, <2>3, RollBackKeeps DEF Raise, Running
  <2>4. CASE Commit(c)
    BY <1>1, <2>4, CommitKeeps DEF Commit
  <2> QED
    BY <1>2, <2>1, <2>2, <2>3, <2>4 DEF Advance
<1>3. ASSUME NEW c \in Clients, LoseAcknowledgement(c) PROVE IInv'
  BY <1>3, CommitKeeps DEF LoseAcknowledgement
<1>4. ASSUME NEW c \in Clients, LoseConnection(c) PROVE IInv'
  BY <1>4, RollBackKeeps DEF LoseConnection
<1>5. ASSUME AbortVictim PROVE IInv'
  <2>1. PICK S \in SUBSET Clients : \E c \in S : Deadlocked(S) /\ RollBack(c) /\ UNCHANGED calm
    BY <1>5 DEF AbortVictim
  <2>2. PICK c \in S : Deadlocked(S) /\ RollBack(c) /\ UNCHANGED calm
    BY <2>1
  <2>3. doing[c] \in Transactions
    BY <2>2 DEF Deadlocked, WaitsFor, Running
  <2> QED
    BY <1>1, <2>2, <2>3, RollBackKeeps
<1>6. ASSUME NEW r \in Requests, LedgerAnswers(r) PROVE IInv'
  <2>1. r \in Clients /\ doing[r] = "dispatch" /\ on[r] \in Windows /\ saga[on[r]] # "none"
    BY <1>6 DEF LedgerAnswers, Clients, IInv, Positions, Knows, ClientKnows
  <2>2. PICK next \in {"complete", "mark"} : Begin(r, next, on[r])
    BY <1>6 DEF LedgerAnswers
  <2>3. r \notin Workers
    BY LocksAssumption
  <2> QED
    BY <1>1, <1>6, <2>1, <2>2, <2>3, BeginKeeps, StatementTable DEF LedgerAnswers
<1>7. ASSUME NEW r \in Requests, Die(r) PROVE IInv'
  BY <1>7, BeginKeeps DEF Die, Clients
<1>8. ASSUME NEW r \in Requests, NEW w \in Windows, Execute(r, w) PROVE IInv'
  <2>1. r \in Clients /\ r \notin Workers
    BY LocksAssumption DEF Clients
  <2> QED
    BY <1>1, <1>8, <2>1, BeginKeeps, StatementTable DEF Execute
<1>9. ASSUME NEW k \in Workers, NEW w \in Windows, Resolve(k, w) PROVE IInv'
  <2>1. k \in Clients /\ k \notin Requests
    BY LocksAssumption DEF Clients
  <2> QED
    BY <1>1, <1>9, <2>1, BeginKeeps, StatementTable DEF Resolve
<1>10. CASE UNCHANGED vars
  <2>1. UNCHANGED storeVars /\ UNCHANGED clientVars
    BY <1>10 DEF vars
  <2> QED
    BY <2>1, RowsMove DEF storeVars, Stays, Grows, IInv, TypeOK, StoreTypeOK, RowsAgree
<1> QED
  BY <1>2, <1>3, <1>4, <1>5, <1>6, <1>7, <1>8, <1>9, <1>10,
     OneStatementKeeps, ClaimKeeps, ReopenKeeps DEF Next

LEMMA Invariance == Spec => []IInv
BY InitHolds, StepKeeps, PTL DEF Spec

\* Every variable keeps its type: clients, transactions and rows are as
\* persistence.py, routers.py and the worker use them.
THEOREM TypeCorrect == Spec => []TypeOK
BY Invariance, PTL DEF IInv

(***************************************************************************)
(* The refinement.                                                         *)
(***************************************************************************)

\* Only commits and the transactions of one statement move the committed rows.
LEMMA StoreStep ==
  ASSUME IInv, [Next]_vars
  PROVE  StoreNext \/ UNCHANGED storeVars
<1>1. ASSUME NEW c \in Clients, Ready(c), WriteAll(c) PROVE StoreNext
  BY <1>1, CommitIsAtomic DEF StoreNext
<1>2. ASSUME NEW c \in Clients, Advance(c) \/ LoseAcknowledgement(c) \/ LoseConnection(c)
      PROVE  StoreNext \/ UNCHANGED storeVars
  BY <1>1, <1>2 DEF Advance, Lock, Skip, Raise, RollBack, Commit, LoseAcknowledgement,
                    LoseConnection
<1>3. CASE AbortVictim
  BY <1>3 DEF AbortVictim, RollBack
<1>4. ASSUME NEW r \in Requests, LedgerAnswers(r) \/ Die(r) PROVE UNCHANGED storeVars
  BY <1>4 DEF LedgerAnswers, Die
<1>5. ASSUME NEW r \in Requests, NEW w \in Windows, Execute(r, w) PROVE UNCHANGED storeVars
  BY <1>5 DEF Execute
<1>6. ASSUME NEW k \in Workers, NEW w \in Windows, Resolve(k, w) PROVE UNCHANGED storeVars
  BY <1>6 DEF Resolve
<1>7. ASSUME NEW w \in Windows, OneStatement(w) PROVE StoreNext
  BY <1>7 DEF OneStatement, StoreNext
<1>8. ASSUME NEW k \in Workers, Claim(k) PROVE StoreNext
  BY <1>8 DEF StoreNext
<1>9. ASSUME NEW k \in Workers, NEW w \in Windows, Reopen(k, w) PROVE StoreNext
  BY <1>9 DEF Reopen, StoreNext
<1> QED
  BY <1>2, <1>3, <1>4, <1>5, <1>6, <1>7, <1>8, <1>9 DEF Next, vars

\* The interleaved transactions of persistence.py and of the worker implement
\* the atomic ones of SettlementStore.
THEOREM Atomic == Spec => TransactionsAreAtomic
<1>1. Init => StoreInit
  BY DEF Init
<1>2. IInv /\ [Next]_vars => [StoreNext]_storeVars
  BY StoreStep
<1> QED
  BY <1>1, <1>2, Invariance, PTL DEF Spec, TransactionsAreAtomic

(***************************************************************************)
(* Deadlocks.                                                              *)
(***************************************************************************)

\* Whoever is waited for has passed its first statement, and waits itself.
LEMMA MembersHold ==
  ASSUME IInv, NEW S \in SUBSET Clients, Deadlocked(S), NEW c \in S
  PROVE  /\ Running(c) /\ Matches(c) /\ ClientKnows(c)
         /\ at[c] \in 2..6 /\ on[c] \in Windows
         /\ \E d \in S : WaitsFor(c, d) /\ on[d] = on[c] /\ RowOf(Statement(c)) \in held[d]
         /\ \E d \in S : /\ WaitsFor(d, c) /\ on[d] = on[c] /\ RowOf(Statement(d)) \in held[c]
                         /\ Running(d) /\ Matches(d) /\ d # c
<1>1. (\E d \in S : WaitsFor(c, d)) /\ (\E d \in S : WaitsFor(d, c))
  BY DEF Deadlocked
<1>2. held[c] # {} /\ Running(c) /\ Matches(c)
  BY <1>1 DEF WaitsFor, LockedBy
<1>3. at[c] \in 1..6 /\ at[c] # 1
  BY <1>2 DEF IInv, TypeOK, Positions
<1>4. doing[c] # "nothing"
  BY <1>2, StatementTable DEF Running
<1> QED
  BY <1>1, <1>2, <1>3, <1>4 DEF WaitsFor, LockedBy, IInv, Positions, Knows

\* A waiting admission can only hold the key it inserts, which only another admission
\* wants, and that one holds nothing yet.
LEMMA NoAdmissionDeadlocks ==
  ASSUME IInv, NEW S \in SUBSET Clients, Deadlocked(S), NEW c \in S
  PROVE  doing[c] # "admit"
<1> SUFFICES ASSUME doing[c] = "admit" PROVE FALSE
  OBVIOUS
<1>1. /\ AdmissionKnows(c) /\ Running(c) /\ at[c] \in 2..6 /\ on[c] \in Windows
  BY MembersHold DEF ClientKnows
<1>2. at[c] = 2 /\ held[c] \subseteq {"key"}
  BY <1>1, StatementTable DEF AdmissionKnows, Running
<1>3. PICK d \in S : /\ on[d] = on[c] /\ RowOf(Statement(d)) \in held[c]
                     /\ Running(d) /\ Matches(d)
  BY MembersHold
<1>4. Statement(d) = "key" /\ "key" \in held[c]
  BY <1>2, <1>3 DEF RowOf
<1>5. idem[on[c]] = "none"
  BY <1>1, <1>2, <1>4 DEF AdmissionKnows
<1>6. doing[d] = "admit"
  BY <1>3, <1>4, <1>5 DEF Matches
<1>7. at[d] \in 2..6 /\ d \in Clients
  BY MembersHold
<1> QED
  BY <1>3, <1>4, <1>6, <1>7, RunningStatement, StatementTable DEF Running, Statement

\* A resolution has its case, so nobody else is past its first statement.
LEMMA NoResolutionDeadlocks ==
  ASSUME IInv, NEW S \in SUBSET Clients, Deadlocked(S), NEW c \in S
  PROVE  doing[c] # "resolve"
<1> SUFFICES ASSUME doing[c] = "resolve" PROVE FALSE
  OBVIOUS
<1>1. /\ ResolutionKnows(c) /\ at[c] \in 2..6 /\ on[c] \in Windows
  BY MembersHold DEF ClientKnows
<1>2. Holds(c, on[c])
  BY <1>1 DEF ResolutionKnows
<1>3. window[on[c]] = "RECONCILIATION_REQUIRED" /\ idem[on[c]] # "in_progress"
  BY <1>1, <1>2 DEF Holds, IInv, RowsAgree
<1>4. PICK d \in S : WaitsFor(c, d) /\ on[d] = on[c]
  BY MembersHold
<1>5. d # c /\ ClientKnows(d) /\ at[d] \in 2..6 /\ Running(d) /\ Matches(d) /\ doing[d] # "admit"
  BY <1>4, MembersHold, NoAdmissionDeadlocks DEF WaitsFor
<1>6. CASE doing[d] = "complete"
  <2>1. Statement(d) \in {"key", "window"}
    BY <1>5, <1>6, StatementTable DEF Running, Statement
  <2> QED
    BY <1>3, <1>4, <1>5, <1>6, <2>1 DEF Matches
<1>7. CASE doing[d] = "mark"
  BY <1>3, <1>4, <1>5, <1>7 DEF ClientKnows, QuarantineKnows
<1>8. CASE doing[d] = "resolve"
  BY <1>2, <1>4, <1>5, <1>8 DEF ClientKnows, ResolutionKnows, Holds
<1> QED
  BY <1>5, <1>6, <1>7, <1>8, StatementTable DEF Running

\* A quarantine that has passed its first statement has the window.
LEMMA WaitingQuarantine ==
  ASSUME IInv, NEW S \in SUBSET Clients, Deadlocked(S), NEW c \in S, doing[c] = "mark"
  PROVE  "window" \in held[c]
<1>1. ClientKnows(c) /\ at[c] \in 2..6
  BY MembersHold
<1> QED
  BY <1>1 DEF ClientKnows, QuarantineKnows

\* It does not wait for another quarantine, so it waits for a completion.
LEMMA QuarantineWaitsForCompletion ==
  ASSUME IInv, NEW S \in SUBSET Clients, Deadlocked(S), NEW c \in S, doing[c] = "mark"
  PROVE  \E d \in S \ {c} : doing[d] = "complete" /\ on[d] = on[c]
<1>1. "window" \in held[c]
  BY WaitingQuarantine
<1>2. PICK d \in S : WaitsFor(c, d) /\ on[d] = on[c]
  BY MembersHold
<1>3. d # c /\ d \in Clients
  BY <1>2 DEF WaitsFor
<1>4. doing[d] # "mark"
  <2> SUFFICES ASSUME doing[d] = "mark" PROVE FALSE
    OBVIOUS
  <2>1. "window" \in held[d]
    BY WaitingQuarantine
  <2> QED
    BY <1>1, <1>2, <1>3, <2>1 DEF IInv, Exclusive
<1>5. doing[d] = "complete"
  BY <1>4, MembersHold, NoAdmissionDeadlocks, NoResolutionDeadlocks, StatementTable DEF Running
<1> QED
  BY <1>2, <1>3, <1>5

\* Of two completions that wait, the one in front waits for a quarantine.
LEMMA CompletionNeedsQuarantine ==
  ASSUME IInv, NEW S \in SUBSET Clients, Deadlocked(S), NEW c \in S, doing[c] = "complete"
  PROVE  \E d \in S : doing[d] = "mark"
<1>1. ASSUME NEW d \in S PROVE doing[d] \in {"complete", "mark"}
  BY MembersHold, NoAdmissionDeadlocks, NoResolutionDeadlocks, StatementTable DEF Running
<1>2. ASSUME NEW d \in S, doing[d] = "complete"
      PROVE  /\ CompletionKnows(d)
             /\ \/ at[d] = 2 /\ Statement(d) = "key"
                \/ at[d] = 3 /\ Statement(d) = "window"
  <2>1. ClientKnows(d) /\ Running(d) /\ at[d] \in 2..6
    BY MembersHold
  <2> QED
    BY <1>2, <2>1, StatementTable DEF Running, Statement, ClientKnows
<1>3. ASSUME NEW d \in S, doing[d] = "complete", at[d] = 3
      PROVE  \E e \in S : doing[e] = "mark"
  <2>1. PICK e \in S : RowOf(Statement(d)) \in held[e]
    BY MembersHold
  <2>2. "window" \in held[e]
    BY <1>2, <1>3, <2>1 DEF RowOf
  <2>3. doing[e] # "complete"
    BY <1>2, <2>2 DEF CompletionKnows
  <2> QED
    BY <1>1, <2>3
<1>4. CASE at[c] = 2
  <2>1. PICK e \in S : RowOf(Statement(c)) \in held[e]
    BY MembersHold
  <2>2. "key" \in held[e]
    BY <1>2, <1>4, <2>1 DEF RowOf
  <2>3. doing[e] = "complete" => at[e] = 3
    BY <1>2, <2>2 DEF CompletionKnows
  <2> QED
    BY <1>1, <1>3, <2>3
<1> QED
  BY <1>2, <1>3, <1>4

\* Whatever the number of clients, a deadlock is one of completions with a
\* quarantine.
THEOREM DeadlocksAreOutcomes == Spec => []OnlyOutcomesDeadlock
<1>1. IInv => OnlyOutcomesDeadlock
  <2> SUFFICES ASSUME IInv, NEW S \in SUBSET Clients, Deadlocked(S)
               PROVE  {doing[c] : c \in S} = {"complete", "mark"}
    BY DEF OnlyOutcomesDeadlock
  <2>1. PICK c \in S : TRUE
    BY DEF Deadlocked
  <2>2. ASSUME NEW d \in S PROVE doing[d] \in {"complete", "mark"}
    BY MembersHold, NoAdmissionDeadlocks, NoResolutionDeadlocks, StatementTable DEF Running
  <2>3. (\E d \in S : doing[d] = "complete") /\ (\E d \in S : doing[d] = "mark")
    BY <2>1, <2>2, QuarantineWaitsForCompletion, CompletionNeedsQuarantine
  <2> QED
    BY <2>2, <2>3
<1> QED
  BY <1>1, Invariance, PTL

(***************************************************************************)
(* Admitted settlements are attended.                                      *)
(***************************************************************************)
Attends(r, w) == on[r] = w /\ doing[r] \in {"dispatch", "complete", "mark"}

\* Who attends a settlement that is still admitted cannot leave it by an error.
LEMMA QuarantineIsNotRefused ==
  ASSUME IInv, NEW c \in Clients, Running(c), doing[c] = "mark", saga[on[c]] = "ADMITTED"
  PROVE  ~Vetoed(c) /\ (Matches(c) \/ ~Required(c))
<1>1. on[c] \in Windows
  BY DEF IInv, Positions
<1>2. window[on[c]] = "PROCESSING" /\ idem[on[c]] = "in_progress"
  BY <1>1 DEF IInv, RowsAgree
<1>3. Statement(c) \in {"window", "saga", "key", "case"}
  BY RunningStatement DEF IInv, At
<1> QED
  BY <1>2, <1>3 DEF Vetoed, Matches, Required, NewKey, NewWindow, SagaUpdateAllowed,
                    KeyTransitionAllowed, WindowTransitionAllowed

\* Until the outcome is recorded, and unless something is lost, a request waits
\* for the ledger or records the outcome, whatever races or deadlocks it loses.
THEOREM Attended == Spec => []AdmittedIsAttended
<1>1. Init => AdmittedIsAttended
  BY DEF Init, StoreInit, AdmittedIsAttended
<1>2. IInv /\ AdmittedIsAttended /\ [Next]_vars => AdmittedIsAttended'
  <2> SUFFICES ASSUME IInv, AdmittedIsAttended, [Next]_vars, calm',
                      NEW w \in Windows, saga'[w] = "ADMITTED"
               PROVE  \E r \in Requests : Attends(r, w)'
    BY DEF AdmittedIsAttended, Attends
  <2>1. ASSUME calm, saga[w] = "ADMITTED"
        PROVE  \E r \in Requests : Attends(r, w)
    BY <2>1 DEF AdmittedIsAttended, Attends
  <2>2. ASSUME UNCHANGED <<calm, saga, doing, on>> PROVE \E r \in Requests : Attends(r, w)'
    BY <2>1, <2>2 DEF Attends
  <2>3. ASSUME NEW c \in Clients, NEW activity, NEW v, Begin(c, activity, v),
               NEW d \in Clients \ {c}, Attends(d, w)
        PROVE  Attends(d, w)'
    BY <2>3 DEF Begin, Attends, IInv, TypeOK
  <2>4. ASSUME NEW c \in Clients, NEW activity \in {"dispatch", "complete", "mark"},
               Begin(c, activity, w)
        PROVE  Attends(c, w)'
    BY <2>4 DEF Begin, Attends, IInv, TypeOK
  <2>5. ASSUME NEW c \in Clients, NEW activity, NEW v, Begin(c, activity, v),
               calm, saga[w] = "ADMITTED",
               Attends(c, w) =>
                 \/ v = w /\ activity \in {"dispatch", "complete", "mark"}
                 \/ \E d \in Requests \ {c} : Attends(d, w)
        PROVE  \E r \in Requests : Attends(r, w)'
    <3>1. PICK r \in Requests : Attends(r, w)
      BY <2>1, <2>5
    <3>2. CASE r = c
      BY <2>3, <2>4, <2>5, <3>1, <3>2 DEF Clients
    <3>3. CASE r # c
      BY <2>3, <2>5, <3>1, <3>3 DEF Clients
    <3> QED
      BY <3>2, <3>3
  <2>6. ASSUME NEW c \in Clients, Advance(c) PROVE \E r \in Requests : Attends(r, w)'
    <3>1. CASE Lock(c) \/ Skip(c)
      BY <2>2, <3>1 DEF Lock, Skip, storeVars
    <3>2. CASE Raise(c)
      <4>1. /\ calm /\ saga[w] = "ADMITTED"
            /\ Begin(c, AfterError[doing[c]], on[c])
        BY <3>2 DEF Raise, RollBack, storeVars
      <4>2. Attends(c, w) => doing[c] = "complete"
        BY <3>2, <4>1, QuarantineIsNotRefused, StatementTable DEF Attends, Raise, Running
      <4>3. Attends(c, w) => on[c] = w /\ AfterError[doing[c]] = "mark"
        BY <4>2 DEF Attends, AfterError
      <4> QED
        BY <2>5, <4>1, <4>3
    <3>3. CASE Commit(c)
      <4>1. calm /\ Atomically(c) /\ Begin(c, AfterCommit[doing[c]], on[c])
        BY <3>3, CommitIsAtomic DEF Commit
      <4>2. CASE doing[c] = "admit"
        <5>1. /\ saga' = IF saga[on[c]] = "none" THEN [saga EXCEPT ![on[c]] = "ADMITTED"] ELSE saga
              /\ Begin(c, "dispatch", on[c]) /\ c \in Requests
          BY <4>1, <4>2 DEF Atomically, AdmitSettlementSaga, AfterCommit, IInv, Positions, Clients
        <5>2. CASE on[c] = w
          BY <2>4, <5>1, <5>2
        <5>3. CASE on[c] # w
          <6>1. saga[w] = "ADMITTED" /\ ~Attends(c, w)
            BY <5>1, <5>3 DEF Attends, IInv, TypeOK, StoreTypeOK
          <6> QED
            BY <2>5, <4>1, <5>1, <6>1
        <5> QED
          BY <5>2, <5>3
      <4>3. CASE doing[c] \in {"complete", "mark", "resolve"}
        <5>1. PICK state \in {"SETTLED", "RECONCILIATION_REQUIRED"} : UpdateSaga(on[c], state)
          BY <4>1, <4>3 DEF Atomically, CompleteSettlementSaga, MarkReconciliationRequired,
                            ResolveCase
        <5>2. saga[w] = "ADMITTED" /\ on[c] # w
          BY <5>1 DEF UpdateSaga, IInv, TypeOK, StoreTypeOK
        <5> QED
          BY <2>5, <4>1, <5>2 DEF Attends
      <4> QED
        BY <4>1, <4>2, <4>3 DEF Atomically
    <3> QED
      BY <2>6, <3>1, <3>2, <3>3 DEF Advance
  <2>7. ASSUME NEW c \in Clients, LoseAcknowledgement(c) \/ LoseConnection(c) PROVE FALSE
    BY <2>7 DEF LoseAcknowledgement, LoseConnection
  <2>8. CASE AbortVictim
    <3>1. PICK S \in SUBSET Clients : \E c \in S : Deadlocked(S) /\ RollBack(c) /\ UNCHANGED calm
      BY <2>8 DEF AbortVictim
    <3>2. PICK c \in S : Deadlocked(S) /\ RollBack(c) /\ UNCHANGED calm
      BY <3>1
    <3>3. /\ calm /\ saga[w] = "ADMITTED"
          /\ Begin(c, AfterError[doing[c]], on[c])
      BY <3>2 DEF RollBack, storeVars
    <3>4. doing[c] = "mark" => \E d \in Requests \ {c} : doing[d] = "complete" /\ on[d] = on[c]
      BY <3>2, QuarantineWaitsForCompletion DEF IInv, Positions, Clients
    <3>5. doing[c] # "dispatch"
      BY <3>2, MembersHold, StatementTable DEF Running
    <3>6. Attends(c, w) => \/ on[c] = w /\ AfterError[doing[c]] = "mark"
                           \/ \E d \in Requests \ {c} : Attends(d, w)
      BY <3>4, <3>5 DEF Attends, AfterError
    <3> QED
      BY <2>5, <3>3, <3>6
  <2>9. ASSUME NEW r \in Requests, LedgerAnswers(r) PROVE \E q \in Requests : Attends(q, w)'
    <3>1. PICK next \in {"complete", "mark"} : Begin(r, next, on[r])
      BY <2>9 DEF LedgerAnswers
    <3>2. calm /\ saga[w] = "ADMITTED" /\ r \in Clients
      BY <2>9 DEF LedgerAnswers, storeVars, Clients
    <3> QED
      BY <2>5, <3>1, <3>2 DEF Attends
  <2>10. ASSUME NEW r \in Requests, Die(r) PROVE FALSE
    BY <2>10 DEF Die
  <2>11. ASSUME NEW c \in Clients, NEW v \in Windows,
                Execute(c, v) \/ Resolve(c, v)
         PROVE  \E r \in Requests : Attends(r, w)'
    <3>1. /\ calm /\ saga[w] = "ADMITTED" /\ ~Attends(c, w)
          /\ \E activity \in {"admit", "resolve"} : Begin(c, activity, v)
      BY <2>11 DEF Execute, Resolve, storeVars, Attends
    <3> QED
      BY <2>5, <3>1
  <2>12. ASSUME UNCHANGED clientVars,
                \/ \E v \in Windows : OneStatement(v)
                \/ \E k \in Workers : Claim(k) \/ \E v \in Windows : Reopen(k, v)
         PROVE  \E r \in Requests : Attends(r, w)'
    <3>1. UNCHANGED saga
      BY <2>12 DEF OneStatement, CreateWindow, CloseWindow, ExpireLease, Claim, ClaimCases,
                   Reopen, ReopenCase
    <3> QED
      BY <2>2, <2>12, <3>1 DEF clientVars
  <2>13. CASE UNCHANGED vars
    BY <2>2, <2>13 DEF vars, storeVars, clientVars
  <2> QED
    BY <2>6, <2>7, <2>8, <2>9, <2>10, <2>11, <2>12, <2>13 DEF Next, Clients
<1> QED
  BY <1>1, <1>2, Invariance, PTL DEF Spec

(***************************************************************************)
(* What the atomic transactions are used for, said of the committed rows   *)
(* while statements interleave.                                            *)
(***************************************************************************)

\* The certificate and the outbox tell the outcome the rows show.
OutcomeIsTold ==
  \A w \in Windows :
    /\ window[w] = "SETTLED" <=> certificate[w] # "none"
    /\ <<"saga.admitted", w>> \in outbox <=> saga[w] # "none"
    /\ <<"saga.settled", w>> \in outbox <=> certificate[w] = "ledger"
    /\ <<"reconciliation.resolved", w>> \in outbox <=> certificate[w] = "rail"
    /\ <<"reconciliation.required", w>> \in outbox <=> rcase[w] # "none"

\* A settled window is final, and only the worker that holds its case ends a
\* quarantine, with the certificate of the rail.
Decided(w) ==
  /\ window[w] = "SETTLED" => window'[w] = "SETTLED" /\ saga'[w] = saga[w]
                              /\ certificate'[w] = certificate[w]
  /\ window[w] = "RECONCILIATION_REQUIRED" /\ window'[w] # window[w] =>
       /\ window'[w] = "SETTLED" /\ certificate'[w] = "rail"
       /\ \E k \in Workers : Holds(k, w)

\* What a transaction writes when it commits.
LEMMA AtomicEffect ==
  ASSUME IInv, NEW c \in Clients, Atomically(c)
  PROVE  LET w == on[c] IN
         /\ w \in Windows
         /\ \/ /\ doing[c] = "admit" /\ saga[w] # "SETTLED"
               /\ saga' = IF saga[w] = "none" THEN [saga EXCEPT ![w] = "ADMITTED"] ELSE saga
               /\ outbox' = outbox \union {<<"saga.admitted", w>>}
               /\ UNCHANGED <<window, certificate, rcase>>
            \/ /\ doing[c] = "complete" /\ window[w] = "PROCESSING" /\ saga[w] # "none"
               /\ saga' = [saga EXCEPT ![w] = "SETTLED"]
               /\ window' = [window EXCEPT ![w] = "SETTLED"]
               /\ certificate' = [certificate EXCEPT ![w] = "ledger"]
               /\ outbox' = outbox \union {<<"saga.settled", w>>}
               /\ UNCHANGED rcase
            \/ /\ doing[c] = "mark" /\ window[w] = "PROCESSING" /\ saga[w] # "none"
               /\ saga' = [saga EXCEPT ![w] = "RECONCILIATION_REQUIRED"]
               /\ window' = [window EXCEPT ![w] = "RECONCILIATION_REQUIRED"]
               /\ rcase' = IF rcase[w] = "none" THEN [rcase EXCEPT ![w] = "OPEN"] ELSE rcase
               /\ outbox' = outbox \union {<<"reconciliation.required", w>>}
               /\ UNCHANGED certificate
            \/ /\ doing[c] = "resolve" /\ window[w] = "RECONCILIATION_REQUIRED" /\ saga[w] # "none"
               /\ c \in Workers /\ Holds(c, w)
               /\ saga' = [saga EXCEPT ![w] = "SETTLED"]
               /\ window' = [window EXCEPT ![w] = "SETTLED"]
               /\ certificate' = [certificate EXCEPT ![w] = "rail"]
               /\ rcase' = [rcase EXCEPT ![w] = "RESOLVED"]
               /\ outbox' = outbox \union {<<"reconciliation.resolved", w>>}
<1> DEFINE w == on[c]
<1>1. w \in Windows /\ ClientKnows(c) /\ RowsAgree /\ (c \in Workers \/ doing[c] # "resolve")
  BY DEF IInv, Positions, Knows, Atomically, Clients
<1>2. saga[w] # "none" => (SagaUpdateAllowed(saga[w]) <=> saga[w] # "SETTLED")
  BY <1>1 DEF SagaUpdateAllowed, IInv, TypeOK, StoreTypeOK, SagaState
<1>3. window[w] \in {"PROCESSING", "RECONCILIATION_REQUIRED"} => saga[w] # "SETTLED"
  BY <1>1 DEF RowsAgree
<1>4. doing[c] \in {"complete", "mark"} => saga[w] # "none"
  BY <1>1 DEF ClientKnows
<1>5. window[w] = "RECONCILIATION_REQUIRED" => saga[w] # "none"
  BY <1>1 DEF RowsAgree
<1>6. saga[w] \in SagaState
  BY <1>1 DEF IInv, TypeOK, StoreTypeOK
<1> HIDE DEF w
<1>7. CASE doing[c] = "admit"
  BY <1>1, <1>2, <1>7 DEF Atomically, AdmitSettlementSaga, Emit, w
<1>8. CASE doing[c] = "complete"
  BY <1>1, <1>3, <1>4, <1>6, <1>8
  DEF Atomically, CompleteSettlementSaga, UpdateSaga, MoveWindow, Emit, SagaState, w
<1>9. CASE doing[c] = "mark"
  BY <1>1, <1>3, <1>4, <1>6, <1>9
  DEF Atomically, MarkReconciliationRequired, UpdateSaga, MoveWindow, Emit, SagaState, w
<1>10. CASE doing[c] = "resolve"
  BY <1>1, <1>3, <1>5, <1>6, <1>10
  DEF Atomically, ResolveCase, UpdateSaga, MoveWindow, Emit, SagaState, w
<1> QED
  BY <1>7, <1>8, <1>9, <1>10 DEF Atomically, w

\* The other transactions decide nothing and tell nothing.
LEMMA OthersDecideNothing ==
  ASSUME IInv,
         \/ \E w \in Windows : CreateWindow(w) \/ CloseWindow(w) \/ ExpireLease(w)
         \/ \E k \in Workers : Claim(k) \/ \E w \in Windows : ReopenCase(k, w)
  PROVE  /\ UNCHANGED <<saga, certificate, outbox>>
         /\ \A w \in Windows : /\ rcase'[w] = "none" <=> rcase[w] = "none"
                               /\ window'[w] = "SETTLED" <=> window[w] = "SETTLED"
                               /\ window[w] = "RECONCILIATION_REQUIRED" => window'[w] = window[w]
<1>0. StoreTypeOK
  BY DEF IInv, TypeOK
<1>1. ASSUME NEW v \in Windows, CreateWindow(v) \/ CloseWindow(v)
      PROVE  /\ UNCHANGED <<saga, certificate, outbox, rcase>>
             /\ \A w \in Windows : w # v => window'[w] = window[w]
             /\ window[v] \notin {"SETTLED", "RECONCILIATION_REQUIRED"}
             /\ window'[v] \in {"PENDING", "PROCESSING"}
  BY <1>0, <1>1 DEF CreateWindow, CloseWindow, WindowTransitionAllowed, StoreTypeOK
<1>2. CASE \E v \in Windows : ExpireLease(v)
  BY <1>2 DEF ExpireLease
<1>3. ASSUME NEW k \in Workers, Claim(k)
      PROVE  /\ UNCHANGED <<saga, certificate, outbox, window>>
             /\ \A w \in Windows : rcase'[w] = "none" <=> rcase[w] = "none"
  BY <1>0, <1>3 DEF Claim, ClaimCases, OldestFirst, Claimable
<1>4. ASSUME NEW k \in Workers, NEW v \in Windows, ReopenCase(k, v)
      PROVE  /\ UNCHANGED <<saga, certificate, outbox, window>>
             /\ \A w \in Windows : rcase'[w] = "none" <=> rcase[w] = "none"
  BY <1>0, <1>4 DEF ReopenCase, Holds, StoreTypeOK
<1> QED
  BY <1>1, <1>2, <1>3, <1>4

\* The rows, the certificate and the outbox of a window agree whenever they can
\* be read, however the statements that wrote them interleaved.
THEOREM CommittedRowsAgree == Spec => [](RowsAgree /\ OutcomeIsTold)
<1>1. Init => OutcomeIsTold
  BY DEF Init, StoreInit, OutcomeIsTold
<1>2. ASSUME IInv, OutcomeIsTold, [Next]_vars PROVE OutcomeIsTold'
  <2>1. ASSUME NEW c \in Clients, Atomically(c) PROVE OutcomeIsTold'
    <3> DEFINE w == on[c]
    <3>1. /\ StoreTypeOK /\ RowsAgree
      BY <1>2 DEF IInv, TypeOK
    <3>2. ASSUME NEW v \in Windows, v # w
          PROVE  /\ window'[v] = window[v] /\ saga'[v] = saga[v] /\ rcase'[v] = rcase[v]
                 /\ certificate'[v] = certificate[v]
                 /\ \A type \in EventType : <<type, v>> \in outbox' <=> <<type, v>> \in outbox
      BY <1>2, <2>1, <3>1, <3>2, AtomicEffect DEF StoreTypeOK
    <3>3. /\ window'[w] = "SETTLED" <=> certificate'[w] # "none"
          /\ <<"saga.admitted", w>> \in outbox' <=> saga'[w] # "none"
          /\ <<"saga.settled", w>> \in outbox' <=> certificate'[w] = "ledger"
          /\ <<"reconciliation.resolved", w>> \in outbox' <=> certificate'[w] = "rail"
          /\ <<"reconciliation.required", w>> \in outbox' <=> rcase'[w] # "none"
      <4>1. /\ w \in Windows
            /\ window[w] = "SETTLED" <=> certificate[w] # "none"
            /\ <<"saga.admitted", w>> \in outbox <=> saga[w] # "none"
            /\ <<"saga.settled", w>> \in outbox <=> certificate[w] = "ledger"
            /\ <<"reconciliation.resolved", w>> \in outbox <=> certificate[w] = "rail"
            /\ <<"reconciliation.required", w>> \in outbox <=> rcase[w] # "none"
        BY <1>2, <2>1, AtomicEffect DEF OutcomeIsTold
      <4>2. CASE doing[c] = "admit"
        BY <1>2, <2>1, <3>1, <4>1, <4>2, AtomicEffect DEF StoreTypeOK
      <4>3. CASE doing[c] = "complete"
        BY <1>2, <2>1, <3>1, <4>1, <4>3, AtomicEffect DEF StoreTypeOK
      <4>4. CASE doing[c] = "mark"
        BY <1>2, <2>1, <3>1, <4>1, <4>4, AtomicEffect DEF StoreTypeOK
      <4>5. CASE doing[c] = "resolve"
        <5>1. rcase[w] = "PROCESSING"
          BY <1>2, <2>1, <4>5, AtomicEffect DEF Holds
        <5> QED
          BY <1>2, <2>1, <3>1, <4>1, <4>5, <5>1, AtomicEffect DEF StoreTypeOK
      <4> QED
        BY <2>1, <4>2, <4>3, <4>4, <4>5 DEF Atomically
    <3> QED
      BY <1>2, <3>2, <3>3 DEF OutcomeIsTold, EventType
  <2>2. CASE UNCHANGED storeVars
    BY <1>2, <2>2 DEF OutcomeIsTold, storeVars
  <2> QED
    BY <1>2, <2>1, <2>2, StoreStep, OthersDecideNothing DEF StoreNext, OutcomeIsTold
<1>3. IInv => RowsAgree
  BY DEF IInv
<1> QED
  BY <1>1, <1>2, <1>3, Invariance, PTL DEF Spec

\* What is decided stays decided, statement by statement too: no skipped row, lost
\* race, deadlock or lost acknowledgement undoes it.
THEOREM DecisionsStand == Spec => [][\A w \in Windows : Decided(w)]_storeVars
<1>1. ASSUME IInv, [Next]_vars PROVE (\A w \in Windows : Decided(w)) \/ UNCHANGED storeVars
  <2>1. ASSUME NEW c \in Clients, Atomically(c), NEW w \in Windows PROVE Decided(w)
    <3>1. StoreTypeOK /\ RowsAgree
      BY <1>1 DEF IInv, TypeOK
    <3>2. CASE w = on[c]
      BY <1>1, <2>1, <3>1, <3>2, AtomicEffect DEF StoreTypeOK, RowsAgree, Decided
    <3>3. CASE w # on[c]
      BY <1>1, <2>1, <3>1, <3>3, AtomicEffect DEF StoreTypeOK, Decided
    <3> QED
      BY <3>2, <3>3
  <2> QED
    BY <1>1, <2>1, StoreStep, OthersDecideNothing DEF StoreNext, Decided
<1>2. IInv /\ [Next]_vars => [\A w \in Windows : Decided(w)]_storeVars
  BY <1>1
<1> QED
  BY <1>2, Invariance, PTL DEF Spec

(***************************************************************************)
(* What the model of the locks takes for granted.                          *)
(***************************************************************************)

\* Nobody waits for two: a chain of waiting clients that comes back is a cycle, as
\* Deadlocked says.
WaitsForOne ==
  \A c, d, e \in Clients : WaitsFor(c, d) /\ WaitsFor(c, e) => d = e

\* Of two clients that have passed the last row of the same transaction on the
\* same window one would wait for the other's outbox row.
NobodyWaitsForOutbox ==
  \A c, d \in Clients :
    c # d /\ Ready(c) /\ Ready(d) /\ on[c] = on[d] => doing[c] # doing[d]

\* A row has one holder, and all of a transaction's rows keep others of its kind
\* from its end: waits form cycles, and the outbox row needs no lock.
THEOREM LocksSuffice == Spec => [](WaitsForOne /\ NobodyWaitsForOutbox)
<1>1. IInv => WaitsForOne
  BY DEF IInv, Exclusive, WaitsForOne, WaitsFor, LockedBy
<1>2. ASSUME IInv, NEW c \in Clients, Ready(c)
      PROVE  /\ doing[c] = "admit" => "saga" \in held[c]
             /\ doing[c] \in {"complete", "mark"} => "window" \in held[c]
             /\ doing[c] = "resolve" => "case" \in held[c]
  BY <1>2, ReadyTransaction
  DEF IInv, Knows, ClientKnows, AdmissionKnows, CompletionKnows, QuarantineKnows,
      ResolutionKnows, TypeOK
<1>3. IInv => NobodyWaitsForOutbox
  BY <1>2, StatementTable DEF NobodyWaitsForOutbox, Ready, IInv, Exclusive
<1> QED
  BY <1>1, <1>3, Invariance, PTL
=============================================================================
