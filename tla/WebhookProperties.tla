--------------------------- MODULE WebhookProperties ---------------------------
(***************************************************************************)
(* Properties of WebhookDelivery.                                          *)
(***************************************************************************)
EXTENDS WebhookDelivery

\* Every variable keeps its type (the columns, and what a process read of them).
TypeOK ==
  /\ log \in [Deliveries -> [status : {"absent", "pending", "delivered", "failed"},
                             attempts : Nat,
                             due : {"never", "later", "now"}]]
  /\ hook \in Hooks
  /\ sender \in [Deliveries -> {"idle", "posting"} \union Answers]
  /\ asking \in [Requests -> Deliveries \union {None}]
  /\ queue \in [Schedulers -> SUBSET Deliveries]
  /\ run \in [Schedulers ->
       [phase : {"idle", "posting", "logging", "counting", "catching", "rewriting"},
        delivery : Deliveries \union {None}, attempts : Nat,
        hook : Hooks \union {None}, ok : BOOLEAN]]
  /\ acked \subseteq Deliveries /\ posts \in [Deliveries -> Nat]
  /\ running \subseteq Schedulers /\ asks \in Nat /\ faults \in Nat

\* A delivery is never recorded as delivered unless the receiver accepted it, with
\* any number of processes on stale rows and any failure of the database.
DeliveredIsAccepted ==
  \A d \in Deliveries : log[d].status = "delivered" => d \in acked

\* Until a statement of the database fails, every attempt that is counted was
\* made, even when several processes retry the same delivery.
CountedAttemptsWereMade ==
  faults = 0 => \A d \in Deliveries : log[d].attempts <= posts[d]

\* With one process the attempts pass the highest limit by no more than one for each
\* request of the operator, whatever fails and however the limit changes meanwhile.
\* (Three processes pass it: each that has the delivery listed adds one, and one that
\* writes back a count from before the others makes them list it again.)
AttemptsAreLimited ==
  Cardinality(running) = 1 =>
    \A d \in Deliveries :
      log[d].attempts <= (IF HighestLimit > 1 THEN HighestLimit ELSE 1) + asks

\* With one process and no failure only an operator opens a delivered delivery
\* again: the retries themselves neither list it nor overwrite it.
OnlyOperatorsReopen ==
  [][faults = 0 /\ Cardinality(running) = 1 =>
       \A d \in Deliveries : log[d].status = "delivered" /\ log'[d].status # "delivered" =>
         asks' > asks \/ \E q \in Requests : asking[q] = d /\ asking'[q] = None]_vars

\* Every retry that is due comes to an end: the delivery is delivered or given up,
\* also when processes overlap, the limit changes or the webhook is deleted.
Retrying(d) == log[d].status = "pending" /\ log[d].due # "never"
RetriesComeToRest == \A d \in Deliveries : Retrying(d) ~> ~Retrying(d)
=============================================================================
