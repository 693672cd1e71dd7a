--------------------------- MODULE SettlementLocks ----------------------------
(***************************************************************************)
(* The transactions of SettlementStore statement by statement, as          *)
(* PostgreSQL runs them at READ COMMITTED.  The variables of SettlementStore*)
(* are the committed rows.  A statement sees what is committed when it     *)
(* runs; a row it changes stays locked, and the change unseen, until its   *)
(* transaction ends; a statement whose row is locked waits and evaluates   *)
(* its WHERE clause again on what was committed in the meantime.           *)
(*                                                                         *)
(* The outbox row a transaction inserts last is never waited for: whoever  *)
(* inserts the same one holds a row the transaction already has.           *)
(***************************************************************************)
EXTENDS SettlementStore, Sequences

CONSTANTS
  Requests,  \* concurrent invocations of execute_settlement
  NoWindow   \* not handling a window

ASSUME LocksAssumption == NoWindow \notin Windows /\ Requests \intersect Workers = {}

VARIABLES
  doing,  \* the transaction each client is in, or what it does between two
  on,     \* the window it is about
  at,     \* the number of its next statement
  held,   \* the rows of that window it has changed or locked
  calm    \* no connection, acknowledgement or process has been lost so far

clientVars == <<doing, on, at, held, calm>>
vars == <<storeVars, clientVars>>

Clients == Requests \union Workers

\* Mutant: the quarantine inserts the case before it has the window.
CaseBeforeWindow ==
  [admit    |-> <<"key", "saga">>,
   complete |-> <<"saga", "key", "window">>,
   mark     |-> <<"saga", "key", "case", "window">>,
   resolve  |-> <<"claim", "saga", "key", "window", "case">>]

\* The statements of each transaction, by the row of the window they are about;
\* "claim" is the SELECT ... FOR UPDATE of the case.
Statements ==
  [admit    |-> <<"key", "saga">>,
   complete |-> <<"saga", "key", "window">>,
   mark     |-> <<"window", "saga", "key", "case">>,
   resolve  |-> <<"claim", "saga", "key", "window", "case">>]

Transactions == DOMAIN Statements

\* What a client does next: the handler of a request dispatches what it admitted
\* and quarantines the window if the completion raises.
AfterCommit ==
  [admit |-> "dispatch", complete |-> "nothing", mark |-> "nothing", resolve |-> "nothing"]
AfterError ==
  [admit |-> "nothing", complete |-> "mark", mark |-> "nothing", resolve |-> "nothing"]

Init ==
  /\ StoreInit
  /\ doing = [c \in Clients |-> "nothing"]
  /\ on    = [c \in Clients |-> NoWindow]
  /\ at    = [c \in Clients |-> 1]
  /\ held  = [c \in Clients |-> {}]
  /\ calm  = TRUE

Begin(c, activity, w) ==
  /\ doing' = [doing EXCEPT ![c] = activity]
  /\ on'    = [on EXCEPT ![c] = IF activity = "nothing" THEN NoWindow ELSE w]
  /\ at'    = [at EXCEPT ![c] = 1]
  /\ held'  = [held EXCEPT ![c] = {}]

\* Mutant: BEGIN without a block: the connection keeps its rows after an exception.
RollBackForgotten(c) ==
  /\ doing' = [doing EXCEPT ![c] = AfterError[doing[c]]]
  /\ UNCHANGED <<storeVars, on, at, held>>

\* asyncpg's transaction() block rolls back when an exception leaves it.
RollBack(c) ==
  /\ Begin(c, AfterError[doing[c]], on[c])
  /\ UNCHANGED storeVars

(***************************************************************************)
(* Statements.                                                             *)
(***************************************************************************)
Running(c) == doing[c] \in Transactions /\ at[c] <= Len(Statements[doing[c]])

Statement(c) == Statements[doing[c]][at[c]]

RowOf(statement) == IF statement = "claim" THEN "case" ELSE statement

\* The WHERE clause accepts the committed row, or ON CONFLICT finds a row to
\* insert or to update.
Matches(c) ==
  LET w == on[c] IN
  \/ /\ Statement(c) = "key"
     /\ idem[w] = IF doing[c] = "admit" THEN "none" ELSE "in_progress"
  \/ /\ Statement(c) = "saga"
     /\ doing[c] = "admit" \/ saga[w] \notin {"none", "SETTLED", "REVERSED"}
  \/ /\ Statement(c) = "window"
     /\ window[w] = IF doing[c] = "resolve" THEN "RECONCILIATION_REQUIRED" ELSE "PROCESSING"
  \/ Statement(c) = "claim" /\ Holds(c, w)
  \/ Statement(c) = "case"

\* "UPDATE 1", or a row returned: otherwise the code raises.
Required(c) == Statement(c) \in {"window", "claim"}

\* What the three triggers would see as NEW.
NewKey    == [complete |-> "completed", mark |-> "reconciliation_required", resolve |-> "completed"]
NewWindow == [complete |-> "SETTLED", mark |-> "RECONCILIATION_REQUIRED", resolve |-> "SETTLED"]

Vetoed(c) ==
  LET w == on[c] IN
  \/ Statement(c) = "saga" /\ saga[w] # "none" /\ ~SagaUpdateAllowed(saga[w])
  \/ /\ Statement(c) = "key" /\ idem[w] # "none"
     /\ ~KeyTransitionAllowed(idem[w], NewKey[doing[c]])
  \/ Statement(c) = "window" /\ ~WindowTransitionAllowed(window[w], NewWindow[doing[c]])

LockedBy(d, row, w) == on[d] = w /\ row \in held[d]

WaitsFor(c, d) ==
  /\ c # d /\ Running(c) /\ Matches(c)
  /\ LockedBy(d, RowOf(Statement(c)), on[c])

Waits(c) == \E d \in Clients : WaitsFor(c, d)

\* Mutant: a plain SELECT does not lock the case.
LockUnlessSelect(c) ==
  /\ Running(c) /\ Matches(c) /\ ~Waits(c) /\ ~Vetoed(c)
  /\ at' = [at EXCEPT ![c] = @ + 1]
  /\ held' = IF Statement(c) = "claim" THEN held
             ELSE [held EXCEPT ![c] = @ \union {RowOf(Statement(c))}]
  /\ UNCHANGED <<storeVars, doing, on, calm>>

Lock(c) ==
  /\ Running(c) /\ Matches(c) /\ ~Waits(c) /\ ~Vetoed(c)
  /\ at' = [at EXCEPT ![c] = @ + 1]
  /\ held' = [held EXCEPT ![c] = @ \union {RowOf(Statement(c))}]
  /\ UNCHANGED <<storeVars, doing, on, calm>>

\* No row matches, whether or not somebody is changing one.
Skip(c) ==
  /\ Running(c) /\ ~Matches(c) /\ ~Required(c)
  /\ at' = [at EXCEPT ![c] = @ + 1]
  /\ UNCHANGED <<storeVars, doing, on, held, calm>>

\* A trigger or the code itself raises an exception.
Raise(c) ==
  /\ Running(c)
  /\ \/ ~Matches(c) /\ Required(c)
     \/ Matches(c) /\ ~Waits(c) /\ Vetoed(c)
  /\ RollBack(c)
  /\ UNCHANGED calm

(***************************************************************************)
(* COMMIT: the changed rows become visible together.                       *)
(***************************************************************************)
Ready(c) == doing[c] \in Transactions /\ at[c] > Len(Statements[doing[c]])

\* The table with c's change to a row of its window, if it has made one.
Changed(c, row, table, value) ==
  IF row \in held[c] THEN [table EXCEPT ![on[c]] = value] ELSE table

\* A saga that exists only gets a new updated_at.
WriteAdmission(c) ==
  /\ idem' = Changed(c, "key", idem, "in_progress")
  /\ saga' = Changed(c, "saga", saga,
               IF saga[on[c]] = "none" THEN "ADMITTED" ELSE saga[on[c]])
  /\ Emit("saga.admitted", on[c])
  /\ UNCHANGED <<window, certificate, rcase, holder, lease, older>>

WriteCompletion(c) ==
  /\ saga' = Changed(c, "saga", saga, "SETTLED")
  /\ idem' = Changed(c, "key", idem, NewKey.complete)
  /\ window' = Changed(c, "window", window, NewWindow.complete)
  /\ certificate' = Changed(c, "window", certificate, "ledger")
  /\ Emit("saga.settled", on[c])
  /\ UNCHANGED <<rcase, holder, lease, older>>

\* A case that exists only gets a new reason.
WriteQuarantine(c) ==
  LET inserted == rcase[on[c]] = "none" IN
  /\ window' = Changed(c, "window", window, NewWindow.mark)
  /\ saga' = Changed(c, "saga", saga, "RECONCILIATION_REQUIRED")
  /\ idem' = Changed(c, "key", idem, NewKey.mark)
  /\ rcase' = Changed(c, "case", rcase, IF inserted THEN "OPEN" ELSE rcase[on[c]])
  /\ older' = Changed(c, "case", older, IF inserted THEN {v \in Windows : rcase[v] # "none"}
                                                    ELSE older[on[c]])
  /\ Emit("reconciliation.required", on[c])
  /\ UNCHANGED <<certificate, holder, lease>>

WriteResolution(c) ==
  /\ saga' = Changed(c, "saga", saga, "SETTLED")
  /\ idem' = Changed(c, "key", idem, NewKey.resolve)
  /\ window' = Changed(c, "window", window, NewWindow.resolve)
  /\ certificate' = Changed(c, "window", certificate, "rail")
  /\ rcase' = Changed(c, "case", rcase, "RESOLVED")
  /\ holder' = Changed(c, "case", holder, Nobody)
  /\ lease' = Changed(c, "case", lease, "none")
  /\ Emit("reconciliation.resolved", on[c])
  /\ UNCHANGED older

WriteAll(c) ==
  \/ doing[c] = "admit" /\ WriteAdmission(c)
  \/ doing[c] = "complete" /\ WriteCompletion(c)
  \/ doing[c] = "mark" /\ WriteQuarantine(c)
  \/ doing[c] = "resolve" /\ WriteResolution(c)

Commit(c) ==
  /\ Ready(c) /\ WriteAll(c)
  /\ Begin(c, AfterCommit[doing[c]], on[c])
  /\ UNCHANGED calm

Advance(c) == Lock(c) \/ Skip(c) \/ Raise(c) \/ Commit(c)

(***************************************************************************)
(* What can go wrong.                                                      *)
(***************************************************************************)

\* Every member waits for a member and is waited for: since nobody waits for
\* more than one, these are cycles.
Deadlocked(S) ==
  /\ S # {}
  /\ \A c \in S : (\E d \in S : WaitsFor(c, d)) /\ (\E d \in S : WaitsFor(d, c))

\* PostgreSQL's detector (external) aborts one transaction of a cycle.
AbortVictim ==
  \E S \in SUBSET Clients : \E c \in S :
    Deadlocked(S) /\ RollBack(c) /\ UNCHANGED calm

\* The transaction commits and the client is told otherwise.
LoseAcknowledgement(c) ==
  /\ Ready(c) /\ WriteAll(c)
  /\ Begin(c, AfterError[doing[c]], on[c])
  /\ calm' = FALSE

\* The database, or the connection to it, fails in the middle.
LoseConnection(c) ==
  /\ doing[c] \in Transactions
  /\ RollBack(c)
  /\ calm' = FALSE

\* The process of a request dies.  A worker that dies is one that does nothing
\* more: the next process has another identity.
Die(r) ==
  /\ doing[r] # "nothing"
  /\ Begin(r, "nothing", NoWindow)
  /\ UNCHANGED storeVars
  /\ calm' = FALSE

(***************************************************************************)
(* The callers of the transactions; SettlementSaga has their control.      *)
(***************************************************************************)

\* get_window finds the window in PROCESSING and does not lock it.
Execute(r, w) ==
  /\ doing[r] = "nothing"
  /\ window[w] = "PROCESSING"
  /\ Begin(r, "admit", w)
  /\ UNCHANGED <<storeVars, calm>>

\* Mutant: a failed call is answered like any other HTTP error.
LedgerRefusalPassedOn(r) ==
  /\ doing[r] = "dispatch"
  /\ \E next \in {"complete", "nothing"} : Begin(r, next, on[r])
  /\ UNCHANGED <<storeVars, calm>>

\* The ledger answers with finality evidence, or the call fails.
LedgerAnswers(r) ==
  /\ doing[r] = "dispatch"
  /\ \E next \in {"complete", "mark"} : Begin(r, next, on[r])
  /\ UNCHANGED <<storeVars, calm>>

\* Without its claim a worker fails at the first statement and changes nothing.
Resolve(k, w) ==
  /\ doing[k] = "nothing"
  /\ Holds(k, w)
  /\ Begin(k, "resolve", w)
  /\ UNCHANGED <<storeVars, calm>>

(***************************************************************************)
(* Transactions of one statement, and the claim, whose second statement    *)
(* only writes what the first has locked: SKIP LOCKED never waits.         *)
(***************************************************************************)
Locked(row) == {w \in Windows : \E c \in Clients : LockedBy(c, row, w)}

OneStatement(w) ==
  \/ CreateWindow(w)
  \/ w \notin Locked("window") /\ CloseWindow(w)
  \/ ExpireLease(w)

Claim(k) == \E batch \in SUBSET Windows : ClaimCases(k, batch, Locked("case"))

Reopen(k, w) == Holds(k, w) /\ w \notin Locked("case") /\ ReopenCase(k, w)

(***************************************************************************)
(* Specification.                                                          *)
(***************************************************************************)
Next ==
  \/ \E c \in Clients : Advance(c) \/ LoseAcknowledgement(c) \/ LoseConnection(c)
  \/ AbortVictim
  \/ \E r \in Requests : LedgerAnswers(r) \/ Die(r)
  \/ \E r \in Requests, w \in Windows : Execute(r, w)
  \/ \E k \in Workers, w \in Windows : Resolve(k, w)
  \/ \E w \in Windows : OneStatement(w) /\ UNCHANGED clientVars
  \/ \E k \in Workers :
       /\ doing[k] = "nothing"
       /\ Claim(k) \/ \E w \in Windows : Reopen(k, w)
       /\ UNCHANGED clientVars

Spec == Init /\ [][Next]_vars

(***************************************************************************)
(* A waiting statement gets its row in its turn, since PostgreSQL queues   *)
(* those that wait for a row; the detector runs; the ledger answers or the *)
(* call times out.                                                         *)
(***************************************************************************)
Fairness ==
  /\ \A c \in Clients : SF_vars(Advance(c))
  /\ WF_vars(AbortVictim)
  /\ \A r \in Requests : WF_vars(LedgerAnswers(r))

FairSpec == Spec /\ Fairness
=============================================================================
