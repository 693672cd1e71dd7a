--------------------------- MODULE MojaloopTransfer ---------------------------
(***************************************************************************)
(* Mojaloop transfers: the production adapter of the Go service            *)
(* (mojaloop_tigerbeetle_adapter.go), which looks a transfer up in         *)
(* PostgreSQL (transfer_store.go), moves its hold in TigerBeetle           *)
(* (tigerbeetle_client.go) and then saves the row.  The three are separate *)
(* calls: requests run side by side and each may end between two of them.  *)
(*                                                                         *)
(* Calls to TigerBeetle go over pooled connections (client.go).  Neither   *)
(* calls nor answers carry an identity, and a connection goes back to the  *)
(* pool also when its answer did not come in time, so that the next call   *)
(* on it may read the late answer to an earlier one.                       *)
(***************************************************************************)
EXTENDS Integers, FiniteSets, Sequences

CONSTANTS
  Transfers, Requests, Fsps,
  Connections,  \* every TCP connection the pool has had, the replaced ones too
  MaxUnread,    \* bound: calls given up on a connection that is used again
  Again,        \* bound: participants registered once more when their row exists
  Ids,          \* the random 64-bit identifiers TigerBeetle transfers are given ...
  Wide,         \* ... and those above 2^63 - 1, which no BIGINT column takes
  Remaining,    \* whole seconds to a transfer's expiration when its hold is placed
  None

Never == -1  \* a TigerBeetle timeout of about 136 years, 2^32 - 1 seconds

ASSUME MojaloopAssumption ==
  /\ Wide \subseteq Ids /\ Remaining \subseteq Int
  /\ MaxUnread \in Nat /\ Again \subseteq Fsps
  /\ Ids \intersect Fsps = {}
  /\ None \notin Ids \union Fsps \union Transfers \union Connections

VARIABLES
  accounts,    \* TigerBeetle: the participants whose account exists
  holds,       \* TigerBeetle: what became of each pending transfer
  registered,  \* mojaloop_participants
  rows,        \* mojaloop_transfers: state and tigerbeetle_id
  requests,    \* the requests under way
  calls,       \* per connection: calls TigerBeetle has not answered, oldest first
  answers,     \* per connection: answers nobody has read, oldest first
  torn,        \* the connections whose reader stopped inside an answer
  drawn,       \* the transfer each identifier was drawn for
  misled       \* what a request took for created on the answer to another's call

ledger == <<accounts, holds>>
tables == <<registered, rows>>
pool == <<calls, answers, torn>>
history == <<drawn, misled>>
vars == <<ledger, tables, requests, pool, history>>

Unused == [of |-> None, state |-> "unused", timeout |-> 0]
Absent == [state |-> "absent", id |-> None]
Idle == [kind |-> "idle", of |-> None, id |-> None, parties |-> {}, on |-> None,
         moved |-> FALSE]

Kinds == {"register", "prepare", "fulfil", "abort"}
Effect == [fulfil |-> "posted", abort |-> "voided"]
Saved == [prepare |-> "RESERVED", fulfil |-> "COMMITTED", abort |-> "ABORTED"]

Init ==
  /\ accounts = {} /\ holds = [i \in Ids |-> Unused]
  /\ registered = {} /\ rows = [t \in Transfers |-> Absent]
  /\ requests = [r \in Requests |-> Idle]
  /\ calls = [c \in Connections |-> <<>>] /\ answers = [c \in Connections |-> <<>>]
  /\ torn = {} /\ drawn = [i \in Ids |-> None] /\ misled = {}

(***************************************************************************)
(* A request looks up what it needs.  One that is answered from that       *)
(* changes nothing and is no step.                                         *)
(***************************************************************************)
\* id is the account or hold to be created, or the hold to be settled; parties
\* are the participants a hold is between.
Request(kind, of, id, parties) ==
  [kind |-> kind, of |-> of, id |-> id, parties |-> parties, on |-> None, moved |-> FALSE]

Start(r, request) ==
  /\ requests[r] = Idle /\ requests' = [requests EXCEPT ![r] = request]
  /\ UNCHANGED <<ledger, tables, pool, history>>

LookUpNew(r, t, payer, payee) ==
  /\ rows[t] = Absent /\ payer # payee /\ {payer, payee} \subseteq registered
  /\ Start(r, Request("prepare", t, None, {payer, payee}))

\* The pending_transfer_id GetTransfer returns: the row has no such column.
Loaded(t) == None

\* The fulfilment is one that matches the condition.
LookUpReserved(r, kind, t) ==
  /\ kind \in {"fulfil", "abort"} /\ rows[t].state = "RESERVED"
  /\ Start(r, Request(kind, t, Loaded(t), {}))

(***************************************************************************)
(* Its call, on a pooled connection.                                       *)
(***************************************************************************)
\* uint32(time.Until(expiration).Seconds()), with 30 for zero.  The handler has
\* checked that the expiration lies ahead; by now it may not, and what a
\* negative number of seconds becomes depends on the processor.
TimeoutsUndefaulted(seconds) == IF seconds >= 0 THEN {seconds} ELSE {30, Never}
Timeouts(seconds) ==
  IF seconds > 0 THEN {seconds} ELSE IF seconds = 0 THEN {30} ELSE {30, Never}

Call(request, timeout) ==
  [kind |-> request.kind, of |-> request.of, id |-> request.id,
   parties |-> request.parties, timeout |-> timeout]

\* A connection belongs to one call at a time; what earlier ones left on it stays.
Free(c) ==
  /\ \A r \in Requests : requests[r].on # c
  /\ Len(calls[c]) + Len(answers[c]) <= MaxUnread

Send(r, c, request, timeout) ==
  /\ Free(c)
  /\ calls' = [calls EXCEPT ![c] = Append(@, Call(request, timeout))]
  /\ requests' = [requests EXCEPT ![r] = [request EXCEPT !.on = c]]
  /\ UNCHANGED <<ledger, tables, answers, torn, misled>>

\* RegisterParticipant looks nothing up.
CreateAccount(r, f, c) ==
  /\ requests[r] = Idle /\ (f \in registered => f \in Again)
  /\ Send(r, c, Request("register", f, f, {}), 0)
  /\ UNCHANGED drawn

\* A prepare draws the identifier of its hold; the client refuses to post or
\* void the pending transfer 0.
Named(r) ==
  IF requests[r].kind = "prepare" THEN {i \in Ids : drawn[i] = None} ELSE {requests[r].id} \ {None}

MoveHold(r, c) ==
  /\ requests[r].kind # "register" /\ requests[r].on = None /\ ~requests[r].moved
  /\ \E i \in Named(r), timeout \in UNION {Timeouts(s) : s \in Remaining} :
       /\ Send(r, c, [requests[r] EXCEPT !.id = i], timeout)
       /\ drawn' = [drawn EXCEPT ![i] = requests[r].of]

\* What can be read on c: the oldest answer, or what is left of one, of any outcome.
Readable(c) ==
  IF answers[c] = <<>> THEN {}
  ELSE IF c \in torn THEN [done : BOOLEAN, of : {None}]
  ELSE {Head(answers[c])}

\* Mutant: the errors in the answer are not looked at.
ReceiveAny(r) ==
  LET q == requests[r]
  IN /\ q.on # None
     /\ \E answer \in Readable(q.on) :
          misled' = IF answer.of # q.id THEN misled \union {q.id} ELSE misled
     /\ requests' = [requests EXCEPT ![r] = [@ EXCEPT !.on = None, !.moved = TRUE]]
     /\ answers' = [answers EXCEPT ![q.on] = Tail(@)]
     /\ UNCHANGED <<ledger, tables, calls, torn, drawn>>

\* An answer of no errors is a success, whichever call it answers; the others
\* end the request.
Receive(r) ==
  LET q == requests[r]
  IN /\ q.on # None
     /\ \E answer \in Readable(q.on) :
          IF answer.done
          THEN /\ requests' = [requests EXCEPT ![r] = [@ EXCEPT !.on = None, !.moved = TRUE]]
               /\ misled' = IF answer.of # q.id THEN misled \union {q.id} ELSE misled
          ELSE requests' = [requests EXCEPT ![r] = Idle] /\ UNCHANGED misled
     /\ answers' = [answers EXCEPT ![q.on] = Tail(@)]
     /\ UNCHANGED <<ledger, tables, calls, torn, drawn>>

\* The read deadline passes inside an answer: from now on whoever reads on this
\* connection takes the middle of an answer for the start of one.
ReceivePart(r) ==
  /\ requests[r].on # None /\ answers[requests[r].on] # <<>>
  /\ torn' = torn \union {requests[r].on}
  /\ requests' = [requests EXCEPT ![r] = Idle]
  /\ UNCHANGED <<ledger, tables, calls, answers, history>>

(***************************************************************************)
(* TigerBeetle: the calls of a connection in their order, and its clock.   *)
(***************************************************************************)
Became(hold, state) == [of |-> hold.of, state |-> state, timeout |-> hold.timeout]

\* What TigerBeetle may hold under i once the call has succeeded.
Placed(call, i) ==
  IF call.kind = "prepare" /\ call.id = i /\ holds[i] = Unused /\ call.parties \subseteq accounts
  THEN {[of |-> call.of, state |-> "pending", timeout |-> call.timeout]}
  ELSE {}
Settled(call, i) ==
  IF call.kind \in {"fulfil", "abort"} /\ call.id = i /\ holds[i].state = "pending"
  THEN {Became(holds[i], Effect[call.kind])}
  ELSE {}
Moves(call, i) == Placed(call, i) \union Settled(call, i)

\* An account that exists already is refused.
Performs(call) ==
  \/ /\ call.kind = "register" /\ call.id \notin accounts
     /\ accounts' = accounts \union {call.id} /\ UNCHANGED holds
  \/ /\ \E i \in Ids : \E hold \in Moves(call, i) : holds' = [holds EXCEPT ![i] = hold]
     /\ UNCHANGED accounts

\* The call succeeds, or is refused for a reason of its own such as the balance.
Serve(c) ==
  /\ calls[c] # <<>>
  /\ \E done \in BOOLEAN :
       /\ IF done THEN Performs(Head(calls[c])) ELSE UNCHANGED ledger
       /\ answers' = [answers EXCEPT ![c] = Append(@, [done |-> done, of |-> Head(calls[c]).id])]
  /\ calls' = [calls EXCEPT ![c] = Tail(@)]
  /\ UNCHANGED <<tables, requests, torn, history>>

\* TigerBeetle releases a hold whose timeout has passed; zero means no timeout.
TimesOut(i) ==
  /\ holds[i].state = "pending" /\ holds[i].timeout > 0
  /\ holds' = [holds EXCEPT ![i] = Became(@, "timed out")]
  /\ UNCHANGED <<accounts, tables, requests, pool, history>>

(***************************************************************************)
(* The rows, saved after the call that succeeded.                          *)
(***************************************************************************)
Storable(i) == i \notin Wide

\* INSERT ... ON CONFLICT DO UPDATE, which leaves tigerbeetle_id alone.
Upserted(r, row) ==
  [state |-> Saved[requests[r].kind], id |-> IF row = Absent THEN requests[r].id ELSE row.id]

SaveTransfer(r) ==
  LET q == requests[r]
  IN /\ q.kind # "register" /\ q.moved /\ Storable(q.id)
     /\ rows' = [rows EXCEPT ![q.of] = Upserted(r, @)]
     /\ requests' = [requests EXCEPT ![r] = Idle]
     /\ UNCHANGED <<ledger, registered, pool, history>>

SaveParticipant(r) ==
  /\ requests[r].kind = "register" /\ requests[r].moved
  /\ registered' = registered \union {requests[r].of}
  /\ requests' = [requests EXCEPT ![r] = Idle]
  /\ UNCHANGED <<ledger, rows, pool, history>>

\* The process dies, the client refuses the call, TigerBeetle cannot be reached
\* or does not answer within the read deadline, or the database does not take
\* the row: the request ends where it stands, its call and the answer do not.
Ends(r) ==
  /\ requests[r] # Idle /\ requests' = [requests EXCEPT ![r] = Idle]
  /\ UNCHANGED <<ledger, tables, pool, history>>

LookUp(r) ==
  \E t \in Transfers :
    \/ \E payer, payee \in Fsps : LookUpNew(r, t, payer, payee)
    \/ \E kind \in Kinds : LookUpReserved(r, kind, t)

Calls(r) ==
  \E c \in Connections :
    \/ \E f \in Fsps : CreateAccount(r, f, c)
    \/ MoveHold(r, c)

Next ==
  \/ \E r \in Requests :
       \/ LookUp(r) \/ Calls(r) \/ Receive(r) \/ ReceivePart(r)
       \/ SaveTransfer(r) \/ SaveParticipant(r) \/ Ends(r)
  \/ \E c \in Connections : Serve(c)
  \/ \E i \in Ids : TimesOut(i)

Spec == Init /\ [][Next]_vars

\* Only the ledger's own clock is counted on: requests may stop anywhere.
FairSpec == Spec /\ \A i \in Ids : WF_vars(TimesOut(i))
=============================================================================
