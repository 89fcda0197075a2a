----------------------------- MODULE KafkaRetry -----------------------------
(***************************************************************************)
(* KafkaRetryInterceptor of libs-events around the handlers of one         *)
(* partition: retries, the dead letter topic and the offsets.  The messages*)
(* of the partition are numbered by their offsets.  The partition belongs  *)
(* to one consumer of the group at a time; one that loses it while it      *)
(* waits or handles goes on with the message in hand.  Broker and client   *)
(* are modelled from how the interceptor relies on them.                   *)
(***************************************************************************)
EXTENDS Integers, FiniteSets

CONSTANTS
  Consumer,     \* members of the consumer group
  Messages,     \* number of messages in the partition
  Empty,        \* the messages without data
  FailedCount,  \* ConsumerConfigStore.failedCount
  MaxFaults     \* bound: failed publishes, crashes and rebalances

Message == 1..Messages

ASSUME MessageAssumption == Messages \in Nat /\ Empty \subseteq Message
ASSUME ConsumerAssumption == IsFiniteSet(Consumer)
ASSUME CountAssumption   == FailedCount \in Nat /\ MaxFaults \in Nat

VARIABLES
  owner,      \* the consumer the partition is assigned to
  committed,  \* the offset a new owner starts from
  next,       \* per consumer, the offset it fetches next
  work,       \* per consumer, what it does and with which message
  copies,     \* per message, its copies in the dead letter topic
  faults,     \* faults so far
  (* auxiliary *)
  moves,      \* crashes and rebalances so far
  handled,    \* the messages a handler has processed
  failures,   \* per consumer, how often the handler has failed on this delivery,
              \* counted up to one more than failedCount
  swallowed   \* the messages whose failed publish was only logged

vars == <<owner, committed, next, work, copies, faults, moves, handled, failures, swallowed>>

\* The attempts a delivery gets: the first one is made whatever failedCount says.
LastAttempt == IF FailedCount = 0 THEN 1 ELSE FailedCount

Delivery == [at : {"idle", "handling", "waiting", "publishing"},
             msg : 0..Messages, attempt : 0..LastAttempt]

Idle == [at |-> "idle", msg |-> 0, attempt |-> 0]

Init ==
  /\ owner \in Consumer
  /\ committed = 1
  /\ next = [c \in Consumer |-> 1]
  /\ work = [c \in Consumer |-> Idle]
  /\ copies = [m \in Message |-> 0]
  /\ faults = 0
  /\ moves = 0
  /\ handled = {}
  /\ failures = [c \in Consumer |-> 0]
  /\ swallowed = {}

-----------------------------------------------------------------------------
(* One delivery                                                            *)

Deliver(c) ==
  /\ owner = c
  /\ work[c].at = "idle"
  /\ next[c] \in Message
  /\ work' = [work EXCEPT ![c] = [at |-> "handling", msg |-> next[c], attempt |-> 1]]
  /\ failures' = [failures EXCEPT ![c] = 0]
  /\ UNCHANGED <<owner, committed, next, copies, faults, moves, handled, swallowed>>

\* The interceptor has answered: for the client the message is processed.
Settle(c) ==
  /\ work' = [work EXCEPT ![c] = Idle]
  /\ next' = IF owner = c THEN [next EXCEPT ![c] = work[c].msg + 1] ELSE next

Succeed(c) ==
  /\ work[c].at = "handling"
  /\ handled' = handled \cup {work[c].msg}
  /\ Settle(c)
  /\ UNCHANGED <<owner, committed, copies, faults, moves, failures, swallowed>>

\* Mutant: one retry more than the loop makes.
AfterOneMore(c) == IF work[c].attempt <= FailedCount THEN "waiting" ELSE "publishing"

\* What a failed attempt leads to.
AfterFailure(c) == IF work[c].attempt < FailedCount THEN "waiting" ELSE "publishing"

\* The handler throws before it has an effect.  Without data the error leaves the
\* interceptor: the client does not take the message for processed and delivers it again.
Fail(c) ==
  LET m == work[c].msg
  IN  /\ work[c].at = "handling"
      /\ failures' = [failures EXCEPT ![c] = IF @ > FailedCount THEN @ ELSE @ + 1]
      /\ \/ /\ m \in Empty
            /\ work' = [work EXCEPT ![c] = Idle]
         \/ /\ m \notin Empty
            /\ work' = [work EXCEPT ![c].at = AfterFailure(c)]
      /\ UNCHANGED <<owner, committed, next, copies, faults, moves, handled, swallowed>>

\* Mutant: the retry is not counted.
RetryForEver(c) ==
  /\ work[c].at = "waiting"
  /\ work' = [work EXCEPT ![c].at = "handling"]
  /\ UNCHANGED <<owner, committed, next, copies, faults, moves, handled, failures, swallowed>>

\* Mutant: the delivery goes to the dead letter topic after one retry too few.
RetryLess(c) ==
  /\ work[c].at = "waiting"
  /\ work' = [work EXCEPT ![c].at = IF work[c].attempt + 1 < FailedCount
                                    THEN "handling" ELSE "publishing",
                          ![c].attempt = @ + 1]
  /\ UNCHANGED <<owner, committed, next, copies, faults, moves, handled, failures, swallowed>>

\* retryDelayMs is over.
Retry(c) ==
  /\ work[c].at = "waiting"
  /\ work' = [work EXCEPT ![c] =
       [at |-> "handling", msg |-> @.msg, attempt |-> @.attempt + 1]]
  /\ UNCHANGED <<owner, committed, next, copies, faults, moves, handled, failures, swallowed>>

Copy(c) == copies' = [copies EXCEPT ![work[c].msg] = @ + 1]

\* Mutant: the publish is not awaited, and what becomes of it is not known.
PublishUnawaited(c) ==
  /\ work[c].at = "publishing"
  /\ Copy(c) \/ UNCHANGED copies
  /\ Settle(c)
  /\ UNCHANGED <<owner, committed, faults, moves, handled, failures, swallowed>>

Publish(c) ==
  /\ work[c].at = "publishing"
  /\ Copy(c)
  /\ Settle(c)
  /\ UNCHANGED <<owner, committed, faults, moves, handled, failures, swallowed>>

\* Mutant: a publish that failed is tried again.
PublishAgain(c) ==
  /\ work[c].at = "publishing"
  /\ faults < MaxFaults
  /\ faults' = faults + 1
  /\ Copy(c)
  /\ UNCHANGED <<owner, committed, next, work, moves, handled, failures, swallowed>>

\* The dead letter topic does not take the copy, or takes it and the answer is lost.
\* The error is logged, and the delivery ends as if nothing had happened.
PublishFails(c) ==
  /\ work[c].at = "publishing"
  /\ faults < MaxFaults
  /\ faults' = faults + 1
  /\ \/ Copy(c) /\ UNCHANGED swallowed
     \/ swallowed' = swallowed \cup {work[c].msg} /\ UNCHANGED copies
  /\ Settle(c)
  /\ UNCHANGED <<owner, committed, moves, handled, failures>>

-----------------------------------------------------------------------------
(* Offsets and the consumer group                                          *)

\* The client commits on its own, now and then.
CommitOffset(c) ==
  /\ owner = c
  /\ committed # next[c]
  /\ committed' = next[c]
  /\ UNCHANGED <<owner, next, work, copies, faults, moves, handled, failures, swallowed>>

\* The group takes the partition from its owner, who has been silent for too long
\* perhaps, and gives it to another member.
Rebalance(c) ==
  /\ owner # c
  /\ work[c].at = "idle"
  /\ faults < MaxFaults
  /\ faults' = faults + 1
  /\ moves' = moves + 1
  /\ owner' = c
  /\ next' = [next EXCEPT ![c] = committed]
  /\ UNCHANGED <<committed, work, copies, handled, failures, swallowed>>

Crash(c) ==
  /\ faults < MaxFaults
  /\ faults' = faults + 1
  /\ moves' = moves + 1
  /\ work' = [work EXCEPT ![c] = Idle]
  /\ next' = [next EXCEPT ![c] = committed]
  /\ UNCHANGED <<owner, committed, copies, handled, failures, swallowed>>

Step(c) ==
  \/ Deliver(c) \/ Succeed(c) \/ Fail(c) \/ Retry(c) \/ Publish(c) \/ PublishFails(c)

Next == \E c \in Consumer : Step(c) \/ CommitOffset(c) \/ Rebalance(c) \/ Crash(c)

\* Handlers end, timers fire, the broker answers, and offsets are committed.
Spec ==
  /\ Init /\ [][Next]_vars
  /\ \A c \in Consumer : WF_vars(Step(c)) /\ WF_vars(CommitOffset(c))

-----------------------------------------------------------------------------
\* Types; a consumer at work is beyond what is committed unless it lost the partition.
TypeOK ==
  /\ owner \in Consumer
  /\ committed \in 1..(Messages + 1)
  /\ next \in [Consumer -> 1..(Messages + 1)]
  /\ work \in [Consumer -> Delivery]
  /\ copies \in [Message -> Nat]
  /\ faults \in 0..MaxFaults /\ moves \in 0..faults
  /\ handled \subseteq Message /\ swallowed \subseteq Message
  /\ failures \in [Consumer -> Nat]
  /\ committed <= next[owner]

Dead == {m \in Message : copies[m] > 0}
Settled == handled \cup Dead \cup swallowed

\* An offset is committed only over messages that were processed, copied to the dead
\* letter topic, or whose copy failed and was logged: crashes and rebalances lose nothing.
NothingSkipped == \A m \in Message : m < committed => m \in Settled

\* A message reaches a handler only when every earlier one has been settled by some
\* consumer: retries and redeliveries never overtake, although a consumer that has
\* lost the partition may still be at work on an earlier message.  This is the order
\* the code keeps; specs/007-libs-events asks for another, see NonBlocking.
InOrder == \A c \in Consumer : work[c].at # "idle" => 1..(work[c].msg - 1) \subseteq Settled

\* The dead letter topic gets a message only after as many failures of the same
\* delivery as a failedCount above 0 says, and not more.
DeadAfterAllAttempts ==
  [][\A c \in Consumer : Publish(c) /\ FailedCount > 0 => failures[c] = FailedCount]_vars

\* Redelivery is the only source of further copies: one for each crash or rebalance.
CopiesBounded == \A m \in Message : copies[m] <= 1 + moves

\* A message with data never holds the partition up, however often its handler fails:
\* once deliveries have begun all messages are consumed in the end, unless the handler
\* of a message without data fails for ever.
PartitionDrains ==
  \/ (\E c \in Consumer : work[c].at # "idle") ~> committed = Messages + 1
  \/ \E m \in Empty : []<><<\E c \in Consumer : Fail(c) /\ work[c].msg = m>>_vars

-----------------------------------------------------------------------------
(* What specs/007-libs-events/spec.md says, and the code does not do.      *)

\* A failed message is not lost when the dead letter topic cannot be written: the
\* consumer halts instead.
NoMessageLost == \A m \in Message : m < committed => m \in handled \cup Dead

\* Retries do not block the partition: while a failed message waits for its retry, its
\* consumer has gone on to the messages after it.
NonBlocking ==
  \A c \in Consumer : owner = c /\ work[c].at = "waiting" => next[c] > work[c].msg

\* A failedCount of 0 stands for a safe value: no message is given up at its first failure.
SafeDefault == [][\A c \in Consumer : Publish(c) => failures[c] > 1]_vars
=============================================================================
