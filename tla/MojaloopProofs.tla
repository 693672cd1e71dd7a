---------------------------- MODULE MojaloopProofs ----------------------------
(***************************************************************************)
(* Proofs about MojaloopTransfer, for any transfers, requests, connections,*)
(* identifiers and timeouts.  The argument: an identifier is drawn for one *)
(* transfer and stays with it; what an answer says was created is created, *)
(* so a request that goes on is right about its own hold or account unless *)
(* the answer was another call's, and then it is misled.                   *)
(***************************************************************************)
EXTENDS MojaloopProperties, SequenceTheorems, TLAPS

(***************************************************************************)
(* The inductive invariant: what is known of calls, answers and requests.  *)
(***************************************************************************)
\* An account that exists, or a hold that was placed.
Created(i) == i \in accounts \/ (i \in Ids /\ holds[i].of # None)

\* TigerBeetle is asked to create, under names that are the caller's own.
SoundCall ==
  {call \in LedgerCall :
     \/ call.kind = "register" /\ call.id \in Fsps
     \/ /\ call.kind = "prepare" /\ call.of \in Transfers /\ call.id \in Ids
        /\ drawn[call.id] = call.of /\ call.timeout # 0}
TrueAnswer == {answer \in Answer : answer.done /\ answer.of # None => Created(answer.of)}

Knows(r) ==
  LET q == requests[r]
  IN /\ q.kind = "idle" => q = Idle
     /\ q.kind = "register" => q.of \in Fsps /\ q.id = q.of
     /\ q.kind = "prepare" =>
          /\ q.of \in Transfers
          /\ \/ q.id = None /\ q.on = None /\ ~q.moved
             \/ q.id \in Ids /\ drawn[q.id] = q.of
     /\ q.kind \in {"fulfil", "abort"} => q.id = None /\ q.on = None /\ ~q.moved
     /\ q.moved /\ q.id \notin misled => Created(q.id)

HoldsKnow == \A i \in Ids : holds[i].of # None => holds[i].of = drawn[i]
RowKnows(t) ==
  LET i == rows[t].id
  IN rows[t] # Absent =>
       i \in Ids /\ drawn[i] = t /\ (i \notin misled => Created(i))

PoolKnows ==
  /\ calls \in [Connections -> Seq(SoundCall)] /\ answers \in [Connections -> Seq(TrueAnswer)]

IInv ==
  /\ TypeOK /\ PoolKnows /\ HoldsKnow
  /\ \A r \in Requests : Knows(r)
  /\ \A t \in Transfers : RowKnows(t)
  /\ registered \ misled \subseteq accounts

\* What no step takes back: a creation, and whom an identifier was drawn for.
Lasting ==
  /\ accounts \subseteq accounts' /\ misled \subseteq misled'
  /\ \A i \in Ids : holds[i].of # None => holds'[i].of = holds[i].of
  /\ \A i \in Ids : drawn[i] # None => drawn'[i] = drawn[i]

(***************************************************************************)
(* What each step does to the ledger and to the pool.                      *)
(***************************************************************************)

\* A prepare names its hold by an identifier nobody has drawn, and no other
\* request names any: the loaded transfer has no pending identifier.
LEMMA MoveHoldLemma ==
  ASSUME IInv, NEW r \in Requests, NEW c \in Connections, MoveHold(r, c)
  PROVE  /\ requests[r].kind = "prepare" /\ requests[r].of \in Transfers
         /\ \E i \in Ids, timeout \in (Nat \union {Never}) \ {0} :
              /\ drawn[i] = None /\ drawn' = [drawn EXCEPT ![i] = requests[r].of]
              /\ Send(r, c, [requests[r] EXCEPT !.id = i], timeout)
<1>1. PICK i \in Named(r), timeout \in UNION {Timeouts(s) : s \in Remaining} :
        /\ Send(r, c, [requests[r] EXCEPT !.id = i], timeout)
        /\ drawn' = [drawn EXCEPT ![i] = requests[r].of]
  BY DEF MoveHold
<1>2. Knows(r) /\ requests[r].kind \in Kinds \union {"idle"} /\ requests[r].kind # "register"
  BY DEF IInv, TypeOK, Requested, MoveHold
<1>3. requests[r].kind = "prepare"
  BY <1>1, <1>2 DEF Named, Knows, Idle, Kinds
<1>4. i \in Ids /\ drawn[i] = None /\ requests[r].of \in Transfers
  BY <1>1, <1>2, <1>3 DEF Named, Knows
<1>5. timeout \in Nat \union {Never} /\ timeout # 0
  BY <1>1, MojaloopAssumption DEF Timeouts, Never
<1> QED
  BY <1>1, <1>3, <1>4, <1>5

\* TigerBeetle performs a sound call by creating an account or placing a hold.
LEMMA PerformsLemma ==
  ASSUME IInv, NEW call \in SoundCall, Performs(call)
  PROVE  \/ /\ call.id \in Fsps /\ accounts' = accounts \union {call.id}
            /\ UNCHANGED holds
         \/ /\ call.id \in Ids /\ holds[call.id] = Unused /\ call.timeout # 0
            /\ holds' = [holds EXCEPT ![call.id] =
                           [of |-> call.of, state |-> "pending", timeout |-> call.timeout]]
            /\ call.of \in Transfers /\ drawn[call.id] = call.of
            /\ UNCHANGED accounts
<1>1. CASE call.kind = "register"
  BY <1>1 DEF Performs, Moves, Placed, Settled, SoundCall
<1>2. CASE call.kind = "prepare"
  <2>1. PICK i \in Ids : \E hold \in Moves(call, i) : holds' = [holds EXCEPT ![i] = hold]
    BY <1>2 DEF Performs
  <2>2. i = call.id /\ holds[i] = Unused
    BY <1>2, <2>1 DEF Moves, Placed, Settled
  <2>3. holds' = [holds EXCEPT ![i] =
                    [of |-> call.of, state |-> "pending", timeout |-> call.timeout]]
    BY <1>2, <2>1 DEF Moves, Placed, Settled
  <2> QED
    BY <1>2, <2>1, <2>2, <2>3 DEF Performs, SoundCall
<1> QED
  BY <1>1, <1>2 DEF SoundCall

\* TigerBeetle serves a sound call, and what it answers is true.
LEMMA ServeLemma ==
  ASSUME IInv, NEW c \in Connections, Serve(c)
  PROVE  \E call \in SoundCall, done \in BOOLEAN :
           /\ IF done THEN Performs(call) ELSE UNCHANGED ledger
           /\ answers' = [answers EXCEPT ![c] = Append(@, [done |-> done, of |-> call.id])]
           /\ calls' = [calls EXCEPT ![c] = Tail(@)] /\ Tail(calls[c]) \in Seq(SoundCall)
<1>1. calls[c] \in Seq(SoundCall) /\ calls[c] # <<>>
  BY DEF IInv, PoolKnows, Serve
<1>2. Head(calls[c]) \in SoundCall /\ Tail(calls[c]) \in Seq(SoundCall)
  BY <1>1, HeadTailProperties
<1> QED
  BY <1>2 DEF Serve

\* What is read is either this connection's oldest answer, which is true, or not
\* to be told from another's.
LEMMA ReceiveLemma ==
  ASSUME IInv, NEW r \in Requests, Receive(r)
  PROVE  /\ requests[r].on \in Connections /\ requests[r].kind \in {"register", "prepare"}
         /\ requests[r].id \in Ids \union Fsps
         /\ answers' = [answers EXCEPT ![requests[r].on] = Tail(@)]
         /\ Tail(answers[requests[r].on]) \in Seq(TrueAnswer)
         /\ \E answer \in TrueAnswer :
              IF answer.done
              THEN /\ requests' = [requests EXCEPT ![r] = [@ EXCEPT !.on = None, !.moved = TRUE]]
                   /\ misled' = IF answer.of # requests[r].id
                                THEN misled \union {requests[r].id} ELSE misled
              ELSE requests' = [requests EXCEPT ![r] = Idle] /\ UNCHANGED misled
<1> DEFINE c == requests[r].on
<1>1. requests[r] \in Requested /\ Knows(r) /\ c # None
  BY DEF IInv, TypeOK, Receive
<1>2. c \in Connections /\ requests[r].kind \in {"register", "prepare"}
      /\ requests[r].id \in Ids \union Fsps
  BY <1>1 DEF Requested, Kinds, Knows, Idle
<1>3. PICK answer \in Readable(c) :
        IF answer.done
        THEN /\ requests' = [requests EXCEPT ![r] = [@ EXCEPT !.on = None, !.moved = TRUE]]
             /\ misled' = IF answer.of # requests[r].id
                          THEN misled \union {requests[r].id} ELSE misled
        ELSE requests' = [requests EXCEPT ![r] = Idle] /\ UNCHANGED misled
  BY DEF Receive
<1>4. answers[c] \in Seq(TrueAnswer) /\ answers[c] # <<>>
  BY <1>2, <1>3 DEF IInv, PoolKnows, Readable
<1>5. Head(answers[c]) \in TrueAnswer /\ Tail(answers[c]) \in Seq(TrueAnswer)
  BY <1>4, HeadTailProperties
<1>6. answer \in TrueAnswer
  BY <1>3, <1>4, <1>5 DEF Readable, TrueAnswer, Answer
<1> QED
  BY <1>2, <1>3, <1>5, <1>6 DEF Receive

\* No step undoes a creation or gives an identifier to another transfer.
LEMMA LastingStep == IInv /\ [Next]_vars => Lasting
<1> SUFFICES ASSUME IInv, [Next]_vars PROVE Lasting
  OBVIOUS
<1> USE DEF ledger, tables, pool, history
<1>0. TypeOK
  BY DEF IInv
<1>1. ASSUME NEW c \in Connections, Serve(c) PROVE Lasting
  <2>1. PICK call \in SoundCall : Performs(call) \/ UNCHANGED ledger
    BY <1>1, ServeLemma
  <2>2. UNCHANGED history
    BY <1>1 DEF Serve
  <2>3. CASE accounts' = accounts \union {call.id} /\ UNCHANGED holds
    BY <2>2, <2>3 DEF Lasting
  <2>4. ASSUME NEW hold, call.id \in Ids, holds[call.id] = Unused, UNCHANGED accounts,
               holds' = [holds EXCEPT ![call.id] = hold]
        PROVE  Lasting
    <3>1. holds[call.id].of = None
      BY <2>4 DEF Unused
    <3>2. \A i \in Ids : holds[i].of # None => holds'[i].of = holds[i].of
      BY <1>0, <2>4, <3>1 DEF TypeOK
    <3> QED
      BY <2>2, <2>4, <3>2 DEF Lasting
  <2>5. CASE UNCHANGED ledger
    BY <2>2, <2>5 DEF Lasting
  <2> QED
    BY <2>1, <2>3, <2>4, <2>5, PerformsLemma
<1>2. ASSUME NEW i \in Ids, TimesOut(i) PROVE Lasting
  BY <1>0, <1>2 DEF TimesOut, Became, Lasting, TypeOK
<1>3. ASSUME NEW r \in Requests, Receive(r) PROVE Lasting
  BY <1>3, ReceiveLemma DEF Receive, Lasting
<1>4. ASSUME NEW r \in Requests, NEW c \in Connections, MoveHold(r, c) PROVE Lasting
  <2>1. PICK i \in Ids : drawn[i] = None /\ drawn' = [drawn EXCEPT ![i] = requests[r].of]
    BY <1>4, MoveHoldLemma
  <2>2. UNCHANGED <<ledger, misled>>
    BY <1>4 DEF MoveHold, Send
  <2> QED
    BY <1>0, <2>1, <2>2 DEF Lasting, TypeOK
<1>5. CASE UNCHANGED <<ledger, history>>
  BY <1>5 DEF Lasting
<1> QED
  BY <1>1, <1>2, <1>3, <1>4, <1>5
  DEF Next, vars, LookUp, LookUpNew, LookUpReserved, Start, Calls, CreateAccount, Send,
      ReceivePart, SaveTransfer, SaveParticipant, Ends

\* What was created stays created, and nobody misled is led back.
LEMMA CreatedStays ==
  ASSUME Lasting
  PROVE  /\ \A i : Created(i) => Created(i)'
         /\ \A i : (i \notin misled => Created(i)) => (i \notin misled' => Created(i)')
BY DEF Lasting, Created

\* Sound calls stay sound, true answers true.
LEMMA PoolStays ==
  ASSUME IInv, TypeOK', Lasting
  PROVE  SoundCall \subseteq SoundCall' /\ TrueAnswer \subseteq TrueAnswer'
<1>1. SoundCall \subseteq SoundCall'
  BY MojaloopAssumption DEF SoundCall, Lasting
<1>2. TrueAnswer \subseteq TrueAnswer'
  BY CreatedStays DEF TrueAnswer
<1> QED
  BY <1>1, <1>2

(***************************************************************************)
(* Every step keeps the invariant.                                         *)
(***************************************************************************)

\* A request that has just started, with nothing called yet.
LEMMA StartType ==
  ASSUME IInv, NEW r \in Requests, NEW t \in Transfers,
         \/ \E payer, payee \in Fsps : LookUpNew(r, t, payer, payee)
         \/ \E kind \in Kinds : LookUpReserved(r, kind, t)
  PROVE  \E kind \in {"prepare", "fulfil", "abort"}, parties \in SUBSET Fsps :
           Start(r, Request(kind, t, None, parties))
BY DEF LookUpNew, LookUpReserved, Loaded

\* A call is of the type of the calls.
LEMMA SendType ==
  ASSUME TypeOK, NEW r \in Requests, NEW c \in Connections, NEW request \in Requested,
         NEW timeout \in Nat \union {Never},
         request.kind \in Kinds, request.of \in Transfers \union Fsps,
         request.id \in Ids \union Fsps, Send(r, c, request, timeout)
  PROVE  requests' \in [Requests -> Requested] /\ calls' \in [Connections -> Seq(LedgerCall)]
<1>1. Call(request, timeout) \in LedgerCall
  BY DEF Call, LedgerCall, Requested
<1>2. calls[c] \in Seq(LedgerCall)
  BY DEF TypeOK
<1>3. Append(calls[c], Call(request, timeout)) \in Seq(LedgerCall)
  BY <1>1, <1>2, AppendProperties
<1>4. [request EXCEPT !.on = c] \in Requested
  BY DEF Requested
<1> QED
  BY <1>3, <1>4 DEF TypeOK, Send

\* Every step keeps every variable within its type.
LEMMA TypeStep == IInv /\ [Next]_vars => TypeOK'
<1> SUFFICES ASSUME IInv, [Next]_vars PROVE TypeOK'
  OBVIOUS
<1> USE DEF ledger, tables, pool, history
<1>0. TypeOK
  BY DEF IInv
<1>1. ASSUME NEW r \in Requests, NEW t \in Transfers, NEW parties \in SUBSET Fsps,
             NEW kind \in {"prepare", "fulfil", "abort"},
             Start(r, Request(kind, t, None, parties))
      PROVE  TypeOK'
  <2>1. Request(kind, t, None, parties) \in Requested
    BY DEF Request, Requested, Kinds
  <2> QED
    BY <1>0, <1>1, <2>1 DEF Start, TypeOK
<1>2. ASSUME NEW r \in Requests, NEW f \in Fsps, NEW c \in Connections, CreateAccount(r, f, c)
      PROVE  TypeOK'
  <2> DEFINE request == Request("register", f, f, {})
  <2>1. /\ request \in Requested /\ request.kind \in Kinds
        /\ request.of \in Fsps /\ request.id \in Fsps /\ 0 \in Nat
    BY DEF Request, Requested, Kinds
  <2>2. requests' \in [Requests -> Requested] /\ calls' \in [Connections -> Seq(LedgerCall)]
    BY <1>0, <1>2, <2>1, SendType DEF CreateAccount
  <2> QED
    BY <1>0, <1>2, <2>2 DEF CreateAccount, Send, TypeOK
<1>3. ASSUME NEW r \in Requests, NEW c \in Connections, MoveHold(r, c) PROVE TypeOK'
  <2>1. PICK i \in Ids, timeout \in (Nat \union {Never}) \ {0} :
          /\ drawn' = [drawn EXCEPT ![i] = requests[r].of]
          /\ Send(r, c, [requests[r] EXCEPT !.id = i], timeout)
    BY <1>3, MoveHoldLemma
  <2>2. requests[r].kind = "prepare" /\ requests[r].of \in Transfers
    BY <1>3, MoveHoldLemma
  <2> DEFINE request == [requests[r] EXCEPT !.id = i]
  <2>3. /\ request \in Requested /\ request.kind \in Kinds
        /\ request.of \in Transfers /\ request.id \in Ids
    BY <1>0, <2>2 DEF TypeOK, Requested, Kinds
  <2>4. requests' \in [Requests -> Requested] /\ calls' \in [Connections -> Seq(LedgerCall)]
    BY <1>0, <2>1, <2>3, SendType
  <2>5. drawn' \in [Ids -> Transfers \union {None}]
    BY <1>0, <2>1, <2>2 DEF TypeOK
  <2> QED
    BY <1>0, <1>3, <2>1, <2>4, <2>5 DEF Send, MoveHold, TypeOK
<1>4. ASSUME NEW r \in Requests, Receive(r) PROVE TypeOK'
  <2>1. /\ requests[r].on \in Connections /\ requests[r].id \in Ids \union Fsps
        /\ answers' = [answers EXCEPT ![requests[r].on] = Tail(@)]
        /\ misled' = misled \/ misled' = misled \union {requests[r].id}
        /\ \/ requests' = [requests EXCEPT ![r] = [@ EXCEPT !.on = None, !.moved = TRUE]]
           \/ requests' = [requests EXCEPT ![r] = Idle]
    BY <1>4, ReceiveLemma
  <2>2. answers' \in [Connections -> Seq(Answer)]
    <3>1. TrueAnswer \subseteq Answer /\ Tail(answers[requests[r].on]) \in Seq(TrueAnswer)
      BY <1>4, ReceiveLemma DEF TrueAnswer
    <3>2. Tail(answers[requests[r].on]) \in Seq(Answer)
      BY <3>1, SeqMonotonic
    <3> QED
      BY <1>0, <2>1, <3>2 DEF TypeOK
  <2>3. requests' \in [Requests -> Requested]
    <3>1. requests[r] \in Requested
      BY <1>0 DEF TypeOK
    <3>2. [requests[r] EXCEPT !.on = None, !.moved = TRUE] \in Requested /\ Idle \in Requested
      BY <3>1 DEF Requested, Idle
    <3> QED
      BY <1>0, <2>1, <3>2 DEF TypeOK
  <2>4. misled' \subseteq Ids \union Fsps
    BY <1>0, <2>1 DEF TypeOK
  <2> QED
    BY <1>0, <1>4, <2>2, <2>3, <2>4 DEF Receive, TypeOK
<1>5. ASSUME NEW r \in Requests, ReceivePart(r) \/ Ends(r) PROVE TypeOK'
  <2>1. requests' \in [Requests -> Requested]
    <3>1. requests' = [requests EXCEPT ![r] = Idle]
      BY <1>5 DEF ReceivePart, Ends
    <3> QED
      BY <1>0, <3>1 DEF TypeOK, Requested, Idle
  <2>2. torn' \subseteq Connections
    BY <1>0, <1>5 DEF TypeOK, Requested, ReceivePart, Ends
  <2>3. UNCHANGED <<ledger, tables, calls, answers, history>>
    BY <1>5 DEF ReceivePart, Ends
  <2> QED
    BY <1>0, <2>1, <2>2, <2>3 DEF TypeOK
<1>6. ASSUME NEW c \in Connections, Serve(c) PROVE TypeOK'
  <2>1. PICK call \in SoundCall, done \in BOOLEAN :
          /\ IF done THEN Performs(call) ELSE UNCHANGED ledger
          /\ answers' = [answers EXCEPT ![c] = Append(@, [done |-> done, of |-> call.id])]
          /\ calls' = [calls EXCEPT ![c] = Tail(@)] /\ Tail(calls[c]) \in Seq(SoundCall)
    BY <1>6, ServeLemma
  <2>2. SoundCall \subseteq LedgerCall
    BY DEF SoundCall
  <2>3. Tail(calls[c]) \in Seq(LedgerCall)
    BY <2>1, <2>2, SeqMonotonic
  <2>4. [done |-> done, of |-> call.id] \in Answer /\ answers[c] \in Seq(Answer)
    BY <1>0, <2>2 DEF LedgerCall, Answer, TypeOK
  <2>5. Append(answers[c], [done |-> done, of |-> call.id]) \in Seq(Answer)
    BY <2>4, AppendProperties
  <2>6. accounts' \subseteq Fsps /\ holds' \in [Ids -> Hold]
    <3>1. [of |-> call.of, state |-> "pending", timeout |-> call.timeout] \in Hold
          \/ call.of \notin Transfers
      BY <2>2 DEF LedgerCall, Hold
    <3> QED
      BY <1>0, <2>1, <3>1, PerformsLemma DEF TypeOK
  <2> QED
    BY <1>0, <1>6, <2>1, <2>3, <2>5, <2>6 DEF Serve, TypeOK
<1>7. ASSUME NEW i \in Ids, TimesOut(i) PROVE TypeOK'
  BY <1>0, <1>7 DEF TimesOut, Became, Hold, TypeOK
<1>8. ASSUME NEW r \in Requests, SaveTransfer(r) \/ SaveParticipant(r) PROVE TypeOK'
  <2>1. Knows(r) /\ requests[r] \in Requested /\ requests[r].moved
    BY <1>0, <1>8 DEF IInv, TypeOK, SaveTransfer, SaveParticipant
  <2>2. requests' \in [Requests -> Requested]
    <3>1. requests' = [requests EXCEPT ![r] = Idle]
      BY <1>8 DEF SaveTransfer, SaveParticipant
    <3> QED
      BY <1>0, <3>1 DEF TypeOK, Requested, Idle
  <2>3. CASE SaveParticipant(r)
    BY <1>0, <2>1, <2>2, <2>3 DEF SaveParticipant, Knows, TypeOK
  <2>4. CASE SaveTransfer(r)
    <3>1. requests[r].kind = "prepare" /\ requests[r].of \in Transfers
          /\ requests[r].id \in Ids \ Wide
      BY <2>1, <2>4 DEF SaveTransfer, Knows, Storable, Idle, Requested, Kinds
    <3>2. Upserted(r, rows[requests[r].of]).state = "RESERVED"
          /\ Upserted(r, rows[requests[r].of]).id \in (Ids \ Wide) \union {None}
      BY <1>0, <3>1 DEF Upserted, Saved, TypeOK
    <3>3. Upserted(r, rows[requests[r].of]) \in
            [state : {"absent", "RESERVED", "COMMITTED", "ABORTED"},
             id : (Ids \ Wide) \union {None}]
      BY <3>2 DEF Upserted
    <3> QED
      BY <1>0, <2>2, <2>4, <3>3 DEF SaveTransfer, TypeOK
  <2> QED
    BY <1>8, <2>3, <2>4
<1>9. CASE UNCHANGED vars
  BY <1>0, <1>9 DEF vars, TypeOK
<1> QED
  BY <1>1, <1>2, <1>3, <1>4, <1>5, <1>6, <1>7, <1>8, <1>9, StartType
  DEF Next, LookUp, Calls

\* Requests keep knowing what they have drawn and what was created for them.
LEMMA KnowsStep == IInv /\ [Next]_vars => \A r \in Requests : Knows(r)'
<1> SUFFICES ASSUME IInv, [Next]_vars, NEW p \in Requests PROVE Knows(p)'
  OBVIOUS
<1>0. TypeOK /\ Knows(p) /\ Lasting
  BY LastingStep DEF IInv
<1>1. CASE requests'[p] = requests[p]
  <2>1. /\ \A i : (i \notin misled => Created(i)) => (i \notin misled' => Created(i)')
        /\ \A i \in Ids : drawn[i] \in Transfers => drawn'[i] = drawn[i]
    BY <1>0, CreatedStays, MojaloopAssumption DEF Lasting
  <2> QED
    BY <1>0, <1>1, <2>1 DEF Knows
<1>2. CASE requests'[p] = Idle
  BY <1>2 DEF Knows, Idle
<1>3. ASSUME NEW r \in Requests, NEW t \in Transfers, NEW parties \in SUBSET Fsps,
             NEW kind \in {"prepare", "fulfil", "abort"},
             Start(r, Request(kind, t, None, parties))
      PROVE  Knows(p)'
  BY <1>0, <1>1, <1>3 DEF Start, Request, Knows, TypeOK
<1>4. ASSUME NEW r \in Requests, NEW f \in Fsps, NEW c \in Connections, CreateAccount(r, f, c)
      PROVE  Knows(p)'
  BY <1>0, <1>1, <1>4 DEF CreateAccount, Send, Request, Knows, TypeOK
<1>5. ASSUME NEW r \in Requests, NEW c \in Connections, MoveHold(r, c) PROVE Knows(p)'
  <2>1. PICK i \in Ids, timeout \in (Nat \union {Never}) \ {0} :
          /\ drawn' = [drawn EXCEPT ![i] = requests[r].of]
          /\ Send(r, c, [requests[r] EXCEPT !.id = i], timeout)
    BY <1>5, MoveHoldLemma
  <2>2. requests[r].kind = "prepare" /\ requests[r].of \in Transfers /\ ~requests[r].moved
    BY <1>5, MoveHoldLemma DEF MoveHold
  <2>3. requests[r] \in Requested /\ drawn'[i] = requests[r].of
    BY <1>0, <2>1 DEF TypeOK
  <2>4. requests'[r] = [[requests[r] EXCEPT !.id = i] EXCEPT !.on = c]
    BY <1>0, <2>1 DEF Send, TypeOK
  <2>5. requests'[r].kind = "prepare" /\ requests'[r].of = requests[r].of
        /\ requests'[r].id = i /\ ~requests'[r].moved
    BY <2>2, <2>3, <2>4 DEF Requested
  <2>6. CASE p = r
    BY <2>2, <2>3, <2>5, <2>6 DEF Knows
  <2>7. CASE p # r
    BY <1>0, <1>1, <2>1, <2>7 DEF Send, TypeOK
  <2> QED
    BY <2>6, <2>7
<1>6. ASSUME NEW r \in Requests, Receive(r) PROVE Knows(p)'
  <2>1. PICK answer \in TrueAnswer :
          IF answer.done
          THEN /\ requests' = [requests EXCEPT ![r] = [@ EXCEPT !.on = None, !.moved = TRUE]]
               /\ misled' = IF answer.of # requests[r].id
                            THEN misled \union {requests[r].id} ELSE misled
          ELSE requests' = [requests EXCEPT ![r] = Idle] /\ UNCHANGED misled
    BY <1>6, ReceiveLemma
  <2>2. CASE p # r
    BY <1>0, <1>1, <2>1, <2>2 DEF TypeOK
  <2>3. CASE p = r /\ ~answer.done
    BY <1>0, <1>2, <2>1, <2>3 DEF TypeOK
  <2>4. CASE p = r /\ answer.done
    <3>1. /\ requests[r].kind \in {"register", "prepare"} /\ requests[r].id \in Ids \union Fsps
          /\ requests[r].on \in Connections /\ requests[r] \in Requested
      BY <1>0, <1>6, ReceiveLemma DEF TypeOK
    <3>2. requests'[r] = [requests[r] EXCEPT !.on = None, !.moved = TRUE]
      BY <1>0, <2>1, <2>4 DEF TypeOK
    <3>3. /\ requests'[r].kind = requests[r].kind /\ requests'[r].of = requests[r].of
          /\ requests'[r].id = requests[r].id
      BY <3>1, <3>2 DEF Requested
    <3>4. requests[r].id \notin misled' => Created(requests[r].id)
      BY <2>1, <2>4, <3>1, MojaloopAssumption DEF TrueAnswer
    <3>5. \A i : i = requests[r].id => (i \notin misled' => Created(i)')
      BY <1>0, <3>4, CreatedStays
    <3>6. requests[r].kind = "prepare" =>
            requests[r].of \in Transfers /\ requests[r].id \in Ids
            /\ drawn'[requests[r].id] = requests[r].of
      BY <1>0, <2>4, <3>1, MojaloopAssumption DEF Knows, Lasting
    <3> QED
      BY <1>0, <2>4, <3>1, <3>3, <3>5, <3>6 DEF Knows
  <2> QED
    BY <2>2, <2>3, <2>4
<1>7. ASSUME NEW r \in Requests, requests' = [requests EXCEPT ![r] = Idle] PROVE Knows(p)'
  BY <1>0, <1>1, <1>2, <1>7 DEF TypeOK
<1>8. ASSUME NEW r \in Requests, ReceivePart(r) \/ SaveTransfer(r) \/ SaveParticipant(r) \/ Ends(r)
      PROVE  Knows(p)'
  BY <1>7, <1>8 DEF ReceivePart, SaveTransfer, SaveParticipant, Ends
<1>9. CASE UNCHANGED requests
  BY <1>1, <1>9
<1> QED
  BY <1>3, <1>4, <1>5, <1>6, <1>8, <1>9, StartType
  DEF Next, vars, LookUp, Calls, Serve, TimesOut

\* What waits on the connections stays sound and true.
LEMMA PoolStep == IInv /\ [Next]_vars => PoolKnows'
<1> SUFFICES ASSUME IInv, [Next]_vars PROVE PoolKnows'
  OBVIOUS
<1>0. /\ SoundCall \subseteq SoundCall' /\ TrueAnswer \subseteq TrueAnswer'
      /\ PoolKnows /\ TypeOK /\ TypeOK' /\ Lasting
  BY LastingStep, TypeStep, PoolStays DEF IInv
<1>1. \A s : s \in Seq(SoundCall) => s \in Seq(SoundCall')
  BY <1>0, SeqMonotonic
<1>2. \A s : s \in Seq(TrueAnswer) => s \in Seq(TrueAnswer')
  BY <1>0, SeqMonotonic
<1>3. ASSUME NEW r \in Requests, NEW c \in Connections, NEW request, NEW timeout,
             Call(request, timeout) \in SoundCall', Send(r, c, request, timeout)
      PROVE  PoolKnows'
  <2>1. calls[c] \in Seq(SoundCall')
    BY <1>0, <1>1 DEF PoolKnows
  <2>2. Append(calls[c], Call(request, timeout)) \in Seq(SoundCall')
    BY <1>3, <2>1, AppendProperties
  <2>3. calls' = [calls EXCEPT ![c] = Append(calls[c], Call(request, timeout))]
    BY <1>3 DEF Send
  <2>4. calls' \in [Connections -> Seq(SoundCall')]
    BY <1>0, <1>1, <2>2, <2>3 DEF PoolKnows
  <2>5. answers' \in [Connections -> Seq(TrueAnswer')]
    BY <1>0, <1>2, <1>3 DEF PoolKnows, Send
  <2> QED
    BY <2>4, <2>5 DEF PoolKnows
<1>4. ASSUME NEW r \in Requests, NEW f \in Fsps, NEW c \in Connections, CreateAccount(r, f, c)
      PROVE  PoolKnows'
  <2>1. Call(Request("register", f, f, {}), 0) \in SoundCall'
    BY DEF Call, Request, SoundCall, LedgerCall, Kinds
  <2> QED
    BY <1>3, <1>4, <2>1 DEF CreateAccount
<1>5. ASSUME NEW r \in Requests, NEW c \in Connections, MoveHold(r, c) PROVE PoolKnows'
  <2>1. PICK i \in Ids, timeout \in (Nat \union {Never}) \ {0} :
          /\ drawn' = [drawn EXCEPT ![i] = requests[r].of]
          /\ Send(r, c, [requests[r] EXCEPT !.id = i], timeout)
    BY <1>5, MoveHoldLemma
  <2> DEFINE request == [requests[r] EXCEPT !.id = i]
             call == Call(request, timeout)
  <2>2. requests[r].kind = "prepare" /\ requests[r].of \in Transfers /\ requests[r] \in Requested
    BY <1>0, <1>5, MoveHoldLemma DEF TypeOK
  <2>3. call \in LedgerCall /\ call.kind = "prepare" /\ call.of = requests[r].of
        /\ call.id = i /\ call.timeout = timeout
    BY <2>2 DEF Call, LedgerCall, Requested, Kinds
  <2>4. drawn'[i] = requests[r].of
    BY <1>0, <2>1 DEF TypeOK
  <2>5. call \in SoundCall'
    BY <2>2, <2>3, <2>4 DEF SoundCall
  <2> HIDE DEF request
  <2> QED
    BY <1>3, <2>1, <2>5 DEF request
<1>6. ASSUME NEW r \in Requests, Receive(r) PROVE PoolKnows'
  <2>1. /\ answers' = [answers EXCEPT ![requests[r].on] = Tail(@)]
        /\ Tail(answers[requests[r].on]) \in Seq(TrueAnswer) /\ UNCHANGED calls
    BY <1>6, ReceiveLemma DEF Receive
  <2>2. answers' \in [Connections -> Seq(TrueAnswer)]
    BY <1>0, <2>1 DEF PoolKnows
  <2> QED
    BY <1>0, <1>1, <1>2, <2>1, <2>2 DEF PoolKnows
<1>7. ASSUME NEW c \in Connections, Serve(c) PROVE PoolKnows'
  <2>1. PICK call \in SoundCall, done \in BOOLEAN :
          /\ IF done THEN Performs(call) ELSE UNCHANGED ledger
          /\ answers' = [answers EXCEPT ![c] = Append(@, [done |-> done, of |-> call.id])]
          /\ calls' = [calls EXCEPT ![c] = Tail(@)] /\ Tail(calls[c]) \in Seq(SoundCall)
    BY <1>7, ServeLemma
  <2>2. calls' \in [Connections -> Seq(SoundCall)]
    BY <1>0, <2>1 DEF PoolKnows
  <2>3. done => Created(call.id)'
    <3>1. CASE call.id \in Fsps /\ accounts' = accounts \union {call.id}
      BY <3>1 DEF Created
    <3>2. CASE call.id \in Ids /\ call.of \in Transfers
               /\ holds' = [holds EXCEPT ![call.id] =
                              [of |-> call.of, state |-> "pending", timeout |-> call.timeout]]
      <4>1. holds'[call.id].of = call.of
        BY <1>0, <3>2 DEF TypeOK
      <4> QED
        BY <3>2, <4>1, MojaloopAssumption DEF Created
    <3> QED
      BY <2>1, <3>1, <3>2, PerformsLemma
  <2>4. [done |-> done, of |-> call.id] \in TrueAnswer'
    BY <2>3 DEF TrueAnswer, Answer, SoundCall, LedgerCall
  <2>5. Append(answers[c], [done |-> done, of |-> call.id]) \in Seq(TrueAnswer')
    BY <1>0, <1>2, <2>4, AppendProperties DEF PoolKnows
  <2>6. answers' \in [Connections -> Seq(TrueAnswer')]
    BY <1>0, <1>2, <2>1, <2>5 DEF PoolKnows
  <2> QED
    BY <1>0, <1>1, <2>2, <2>6 DEF PoolKnows
<1>8. CASE UNCHANGED <<calls, answers>>
  BY <1>0, <1>1, <1>2, <1>8 DEF PoolKnows
<1> QED
  BY <1>4, <1>5, <1>6, <1>7, <1>8
  DEF Next, vars, pool, LookUp, LookUpNew, LookUpReserved, Start, Calls, ReceivePart,
      SaveTransfer, SaveParticipant, Ends, TimesOut

\* A hold belongs to the transfer its identifier was drawn for.
LEMMA HoldsStep == IInv /\ [Next]_vars => HoldsKnow'
<1> SUFFICES ASSUME IInv, [Next]_vars PROVE HoldsKnow'
  OBVIOUS
<1> USE DEF ledger, tables, pool, history
<1>0. TypeOK /\ HoldsKnow /\ Lasting
  BY LastingStep DEF IInv
<1>1. CASE UNCHANGED holds
  BY <1>0, <1>1 DEF HoldsKnow, Lasting
<1>2. ASSUME NEW c \in Connections, Serve(c) PROVE HoldsKnow'
  <2>1. PICK call \in SoundCall : Performs(call) \/ UNCHANGED ledger
    BY <1>2, ServeLemma
  <2>2. UNCHANGED drawn
    BY <1>2 DEF Serve
  <2>3. ASSUME NEW hold, call.id \in Ids, hold.of = drawn[call.id],
               holds' = [holds EXCEPT ![call.id] = hold]
        PROVE  HoldsKnow'
    BY <1>0, <2>2, <2>3 DEF HoldsKnow, TypeOK
  <2> QED
    BY <1>1, <2>1, <2>3, PerformsLemma
<1>3. ASSUME NEW i \in Ids, TimesOut(i) PROVE HoldsKnow'
  BY <1>0, <1>3 DEF TimesOut, Became, HoldsKnow, TypeOK
<1> QED
  BY <1>1, <1>2, <1>3
  DEF Next, vars, LookUp, LookUpNew, LookUpReserved, Start, Calls, CreateAccount, MoveHold, Send,
      Receive, ReceivePart, SaveTransfer, SaveParticipant, Ends

\* Every row stays backed, and the row a request saves is, or it is misled.
LEMMA RowsStep ==
  IInv /\ [Next]_vars => (\A t \in Transfers : RowKnows(t)') /\ (registered \ misled \subseteq accounts)'
<1> DEFINE Backs == (\A t \in Transfers : RowKnows(t)') /\ (registered \ misled \subseteq accounts)'
<1> SUFFICES ASSUME IInv, [Next]_vars PROVE Backs
  OBVIOUS
<1>0. /\ TypeOK /\ Lasting /\ registered \ misled \subseteq accounts
      /\ \A t \in Transfers : RowKnows(t)
  BY LastingStep DEF IInv
<1>1. ASSUME NEW t \in Transfers, rows'[t] = rows[t] PROVE RowKnows(t)'
  <2>1. rows[t] # Absent => rows[t].id \in Ids /\ drawn[rows[t].id] = t
    BY <1>0 DEF RowKnows
  <2>2. \A i : (i \notin misled => Created(i)) => (i \notin misled' => Created(i)')
    BY <1>0, CreatedStays
  <2>3. rows[t] # Absent => drawn'[rows[t].id] = t
    BY <1>0, <2>1, MojaloopAssumption DEF Lasting
  <2> QED
    BY <1>0, <1>1, <2>1, <2>2, <2>3 DEF RowKnows
<1>2. ASSUME UNCHANGED registered PROVE (registered \ misled \subseteq accounts)'
  BY <1>0, <1>2 DEF Lasting
<1>3. ASSUME NEW r \in Requests, SaveTransfer(r) PROVE Backs
  <2>1. Knows(r) /\ requests[r].moved /\ requests[r].kind \in Kinds \union {"idle"}
        /\ requests[r].kind # "register"
    BY <1>0, <1>3 DEF IInv, SaveTransfer, TypeOK, Requested
  <2>2. /\ requests[r].of \in Transfers /\ requests[r].id \in Ids
        /\ drawn[requests[r].id] = requests[r].of
        /\ requests[r].id \notin misled => Created(requests[r].id)
    BY <2>1 DEF Knows, Idle, Kinds
  <2>3. UNCHANGED <<registered, accounts, holds, drawn, misled>>
    BY <1>3 DEF SaveTransfer, ledger, history
  <2>4. ASSUME NEW t \in Transfers PROVE RowKnows(t)'
    <3>1. CASE t # requests[r].of
      BY <1>0, <1>1, <1>3, <3>1 DEF SaveTransfer, TypeOK
    <3>2. CASE t = requests[r].of
      <4>1. rows'[t].id = IF rows[t] = Absent THEN requests[r].id ELSE rows[t].id
        BY <1>0, <1>3, <2>2, <3>2 DEF SaveTransfer, Upserted, TypeOK
      <4>2. /\ rows'[t].id \in Ids /\ drawn[rows'[t].id] = t
            /\ rows'[t].id \notin misled => Created(rows'[t].id)
        BY <1>0, <2>2, <3>2, <4>1 DEF RowKnows
      <4> QED
        BY <2>3, <4>2 DEF RowKnows, Created
    <3> QED
      BY <3>1, <3>2
  <2> QED
    BY <1>2, <2>3, <2>4
<1>4. ASSUME NEW r \in Requests, SaveParticipant(r) PROVE Backs
  <2>1. requests[r].of \in Fsps /\ requests[r].id = requests[r].of
        /\ (requests[r].id \notin misled => Created(requests[r].id))
    BY <1>4 DEF SaveParticipant, IInv, Knows
  <2>2. requests[r].of \notin misled => requests[r].of \in accounts
    BY <2>1, MojaloopAssumption DEF Created
  <2>3. registered' = registered \union {requests[r].of} /\ UNCHANGED <<accounts, misled, rows>>
    BY <1>4 DEF SaveParticipant, ledger, history
  <2> QED
    BY <1>0, <1>1, <2>2, <2>3
<1>5. CASE UNCHANGED <<registered, rows>>
  BY <1>1, <1>2, <1>5
<1> QED
  BY <1>3, <1>4, <1>5
  DEF Next, vars, tables, LookUp, LookUpNew, LookUpReserved, Start, Calls, CreateAccount, MoveHold,
      Send, Receive, ReceivePart, Serve, Ends, TimesOut

\* The invariant holds in every reachable state.
LEMMA Invariance == Spec => []IInv
<1>1. Init => IInv
  <2> SUFFICES ASSUME Init PROVE IInv
    OBVIOUS
  <2>1. TypeOK
    BY EmptySeq, MojaloopAssumption DEF Init, TypeOK, Hold, Requested, Unused, Absent, Idle
  <2>2. PoolKnows
    BY EmptySeq DEF Init, PoolKnows
  <2>3. HoldsKnow /\ (\A r \in Requests : Knows(r)) /\ (\A t \in Transfers : RowKnows(t))
    BY DEF Init, HoldsKnow, Knows, RowKnows, Unused, Idle
  <2> QED
    BY <2>1, <2>2, <2>3 DEF Init, IInv
<1>2. IInv /\ [Next]_vars => IInv'
  BY TypeStep, PoolStep, HoldsStep, KnowsStep, RowsStep DEF IInv
<1> QED
  BY <1>1, <1>2, PTL DEF Spec

\* Every variable keeps its type, and no row names an identifier PostgreSQL's
\* BIGINT does not hold.
THEOREM TypeCorrect == Spec => []TypeOK
BY Invariance, PTL DEF IInv

\* A transfer row names a hold placed for that transfer, a participant row an
\* account that exists, wherever requests end; a request that took another's
\* answer for its own may name one that does not exist, but none of another's.
THEOREM Backed == Spec => []RowsAreBacked
<1>1. IInv => RowsAreBacked
  <2> SUFFICES ASSUME IInv PROVE RowsAreBacked
    OBVIOUS
  <2>1. ASSUME NEW t \in Transfers, rows[t] # Absent
        PROVE  /\ rows[t].id \in Ids /\ holds[rows[t].id].of \in {t, None}
               /\ rows[t].id \notin misled => holds[rows[t].id].of = t
    <3>1. rows[t].id \in Ids /\ drawn[rows[t].id] = t
          /\ (rows[t].id \notin misled => Created(rows[t].id))
      BY <2>1 DEF IInv, RowKnows
    <3>2. holds[rows[t].id].of \in {t, None}
      BY <3>1 DEF IInv, HoldsKnow
    <3>3. Created(rows[t].id) => holds[rows[t].id].of # None
      BY <3>1, MojaloopAssumption DEF Created, IInv, TypeOK
    <3> QED
      BY <3>1, <3>2, <3>3
  <2> QED
    BY <2>1 DEF RowsAreBacked, IInv
<1> QED
  BY <1>1, Invariance, PTL

(***************************************************************************)
(* What UnpostedFulfilment shows of one fulfilment, for all of them.       *)
(***************************************************************************)
NothingSettled ==
  /\ \A i \in Ids : holds[i].state \in {"unused", "pending", "timed out"}
  /\ \A t \in Transfers : rows[t].state \in {"absent", "RESERVED"}

\* The only calls TigerBeetle gets are those of prepare and of a registration,
\* so no step settles.
LEMMA SettlesStep == IInv /\ NothingSettled /\ [Next]_vars => NothingSettled'
<1> SUFFICES ASSUME IInv, NothingSettled, [Next]_vars PROVE NothingSettled'
  OBVIOUS
<1> USE DEF ledger, tables, pool, history
<1>0. TypeOK
  BY DEF IInv
<1>1. ASSUME NEW c \in Connections, Serve(c) PROVE NothingSettled'
  <2>1. PICK call \in SoundCall : Performs(call) \/ UNCHANGED ledger
    BY <1>1, ServeLemma
  <2>2. UNCHANGED rows
    BY <1>1 DEF Serve
  <2>3. CASE holds' = [holds EXCEPT ![call.id] =
                         [of |-> call.of, state |-> "pending", timeout |-> call.timeout]]
    BY <1>0, <2>2, <2>3 DEF NothingSettled, TypeOK
  <2>4. CASE UNCHANGED holds
    BY <2>2, <2>4 DEF NothingSettled
  <2> QED
    BY <2>1, <2>3, <2>4, PerformsLemma
<1>2. ASSUME NEW r \in Requests, SaveTransfer(r) PROVE NothingSettled'
  <2>1. Knows(r) /\ requests[r].moved /\ requests[r].kind \in Kinds \union {"idle"}
        /\ requests[r].kind # "register" /\ UNCHANGED holds
    BY <1>0, <1>2 DEF IInv, SaveTransfer, TypeOK, Requested
  <2>2. requests[r].kind = "prepare" /\ requests[r].of \in Transfers
    BY <2>1 DEF Knows, Idle, Kinds
  <2>3. Upserted(r, rows[requests[r].of]).state = "RESERVED"
    BY <2>2 DEF Upserted, Saved
  <2> QED
    BY <1>0, <1>2, <2>1, <2>2, <2>3 DEF SaveTransfer, NothingSettled, TypeOK
<1>3. ASSUME NEW i \in Ids, TimesOut(i) PROVE NothingSettled'
  BY <1>0, <1>3 DEF TimesOut, Became, NothingSettled, TypeOK
<1>4. CASE UNCHANGED <<holds, rows>>
  BY <1>4 DEF NothingSettled
<1> QED
  BY <1>1, <1>2, <1>3, <1>4
  DEF Next, vars, LookUp, LookUpNew, LookUpReserved, Start, Calls, CreateAccount, MoveHold, Send,
      Receive, ReceivePart, SaveParticipant, Ends

\* No hold is ever posted or voided and no transfer row is COMMITTED or ABORTED:
\* the row GetTransfer loads has no pending_transfer_id to post or void.
THEOREM NothingSettles == Spec => []NothingSettled
<1>1. Init => NothingSettled
  <2>1. Init => holds = [i \in Ids |-> Unused] /\ rows = [t \in Transfers |-> Absent]
    BY DEF Init
  <2>2. Unused.state = "unused" /\ Absent.state = "absent"
    BY DEF Unused, Absent
  <2> QED
    BY <2>1, <2>2 DEF NothingSettled
<1> QED
  BY <1>1, SettlesStep, Invariance, PTL DEF Spec

(***************************************************************************)
(* What HoldsEnd needs in every state.                                     *)
(***************************************************************************)
HoldsCanEnd == \A i \in Ids : holds[i].state = "pending" => holds[i].timeout # 0

\* A hold is placed with a timeout, and nothing changes the timeout of a hold.
LEMMA TimeoutsStep == IInv /\ HoldsCanEnd /\ [Next]_vars => HoldsCanEnd'
<1> SUFFICES ASSUME IInv, HoldsCanEnd, [Next]_vars PROVE HoldsCanEnd'
  OBVIOUS
<1> USE DEF ledger, tables, pool, history
<1>0. TypeOK
  BY DEF IInv
<1>1. ASSUME NEW c \in Connections, Serve(c) PROVE HoldsCanEnd'
  <2>1. PICK call \in SoundCall : Performs(call) \/ UNCHANGED ledger
    BY <1>1, ServeLemma
  <2>2. CASE /\ call.timeout # 0
             /\ holds' = [holds EXCEPT ![call.id] =
                            [of |-> call.of, state |-> "pending", timeout |-> call.timeout]]
    BY <1>0, <2>2 DEF HoldsCanEnd, TypeOK
  <2>3. CASE UNCHANGED holds
    BY <2>3 DEF HoldsCanEnd
  <2> QED
    BY <2>1, <2>2, <2>3, PerformsLemma
<1>2. ASSUME NEW i \in Ids, TimesOut(i) PROVE HoldsCanEnd'
  BY <1>0, <1>2 DEF TimesOut, Became, HoldsCanEnd, TypeOK
<1>3. CASE UNCHANGED holds
  BY <1>3 DEF HoldsCanEnd
<1> QED
  BY <1>1, <1>2, <1>3
  DEF Next, vars, LookUp, LookUpNew, LookUpReserved, Start, Calls, CreateAccount, MoveHold, Send,
      Receive, ReceivePart, SaveTransfer, SaveParticipant, Ends

\* No pending hold has the timeout zero, which TigerBeetle takes for none: each one
\* times out unless its expiration passed while prepare was computing the timeout.
THEOREM NoHoldForever ==
  Spec => [](\A i \in Ids : holds[i].state = "pending" =>
               holds[i].timeout > 0 \/ holds[i].timeout = Never)
<1> DEFINE Ending == \A i \in Ids : holds[i].state = "pending" =>
                       holds[i].timeout > 0 \/ holds[i].timeout = Never
<1>1. Init => HoldsCanEnd
  <2>1. Init => holds = [i \in Ids |-> Unused]
    BY DEF Init
  <2> QED
    BY <2>1 DEF HoldsCanEnd, Unused
<1>2. IInv /\ HoldsCanEnd => Ending
  <2> SUFFICES ASSUME IInv, HoldsCanEnd, NEW i \in Ids, holds[i].state = "pending"
               PROVE  holds[i].timeout > 0 \/ holds[i].timeout = Never
    OBVIOUS
  <2>1. holds[i].timeout \in Nat \union {Never}
    BY DEF IInv, TypeOK, Hold
  <2>2. holds[i].timeout # 0
    BY DEF HoldsCanEnd
  <2> QED
    BY <2>1, <2>2
<1> QED
  BY <1>1, <1>2, TimeoutsStep, Invariance, PTL DEF Spec
=============================================================================
