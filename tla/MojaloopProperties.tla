-------------------------- MODULE MojaloopProperties --------------------------
(***************************************************************************)
(* Properties of MojaloopTransfer.                                         *)
(***************************************************************************)
EXTENDS MojaloopTransfer

Hold == [of : Transfers \union {None}, timeout : Nat \union {Never},
         state : {"unused", "pending", "posted", "voided", "timed out"}]
Requested == [kind : Kinds \union {"idle"}, of : Transfers \union Fsps \union {None},
              id : Ids \union Fsps \union {None}, parties : SUBSET Fsps,
              on : Connections \union {None}, moved : BOOLEAN]
LedgerCall == [kind : Kinds, of : Transfers \union Fsps, id : Ids \union Fsps,
               parties : SUBSET Fsps, timeout : Nat \union {Never}]
Answer == [done : BOOLEAN, of : Ids \union Fsps \union {None}]

\* Every variable keeps its type, and no row holds an identifier its BIGINT
\* column cannot.
TypeOK ==
  /\ accounts \subseteq Fsps /\ holds \in [Ids -> Hold]
  /\ registered \subseteq Fsps
  /\ rows \in [Transfers -> [state : {"absent", "RESERVED", "COMMITTED", "ABORTED"},
                             id : (Ids \ Wide) \union {None}]]
  /\ requests \in [Requests -> Requested]
  /\ calls \in [Connections -> Seq(LedgerCall)] /\ answers \in [Connections -> Seq(Answer)]
  /\ torn \subseteq Connections
  /\ drawn \in [Ids -> Transfers \union {None}] /\ misled \subseteq Ids \union Fsps

\* A transfer row names a hold that was placed for that very transfer, and a
\* participant row an account that exists, whichever request died or lost a
\* race on the way, except where a request took the late answer to another's
\* call for its own: such a row may name a hold that TigerBeetle refused or has
\* not placed yet, but never one of another transfer.
RowsAreBacked ==
  /\ \A t \in Transfers :
       LET i == rows[t].id
       IN rows[t] # Absent =>
            /\ i \in Ids /\ holds[i].of \in {t, None}
            /\ i \notin misled => holds[i].of = t
  /\ registered \ misled \subseteq accounts

\* Every hold ends, unless its expiration passed between the handler's check and
\* the computation of its timeout: what prepare leaves behind by dying, by giving
\* up on an answer or by losing the race is released, because no timeout is zero.
HoldsEnd ==
  \A i \in Ids :
    holds[i].state = "pending" /\ holds[i].timeout # Never ~> holds[i].state # "pending"

\* "Valid fulfill: One post transfer; exactly one committed row": a matching
\* fulfilment that meets a pending hold can be posted.
ValidFulfilmentPosts ==
  \A r \in Requests :
    LET q == requests[r]
    IN q.kind = "fulfil" /\ ~q.moved /\ holds[rows[q.of].id].state = "pending" =>
         \E i \in Named(r) : Moves(Call([q EXCEPT !.id = i], 0), i) # {}
=============================================================================
