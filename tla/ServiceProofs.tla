---------------------------- MODULE ServiceProofs ----------------------------
(***************************************************************************)
(* What a running service does beside its requests: it consumes events,    *)
(* answers health checks and reloads its configuration.  No message is     *)
(* skipped, order is kept, and a message dies only after all its attempts; *)
(* a check shows the faults it met; the environment overrides the files.   *)
(* For every number of consumers, messages, attempts, checks and files.    *)
(***************************************************************************)
EXTENDS KafkaRetry, Health, Configuration, FiniteSetTheorems, SequenceTheorems, TLAPS

-----------------------------------------------------------------------------
(* Event consumption. *)

AtWork(c) == work[c].at # "idle"

\* A consumer at work has a message, the one it fetched last if it is the owner.
InHand == \A c \in Consumer : AtWork(c) =>
  work[c].msg \in Message /\ (owner = c => work[c].msg = next[c])

\* The owner has left nothing behind.
Behind == \A m \in Message : m < next[owner] => m \in Settled

\* The attempts made and the failures seen on a delivery go together.
Attempts == \A c \in Consumer :
  /\ work[c].at = "handling" =>
       /\ work[c].attempt = failures[c] + 1
       /\ work[c].attempt <= FailedCount \/ work[c].attempt = 1
  /\ work[c].at = "waiting" =>
       work[c].attempt = failures[c] /\ work[c].attempt < FailedCount
  /\ work[c].at = "publishing" =>
       failures[c] = LastAttempt

Flow == TypeOK /\ InHand /\ Behind /\ InOrder /\ Attempts

-----------------------------------------------------------------------------
(* The flow of messages                                                    *)

LEMMA InitFlow == Init => Flow
  BY MessageAssumption, CountAssumption
     DEF Init, Flow, TypeOK, InHand, Behind, InOrder, Attempts, AtWork, Idle, Delivery,
         LastAttempt, Message, Settled, Dead

\* What is settled stays settled.
LEMMA SettledGrows ==
  ASSUME TypeOK, handled \subseteq handled', swallowed \subseteq swallowed',
         copies' \in [Message -> Nat], \A m \in Message : copies'[m] >= copies[m]
  PROVE  Settled \subseteq Settled'
<1>1. Dead \subseteq Dead'
  <2>1. ASSUME NEW m \in Message, copies[m] > 0
        PROVE  copies'[m] > 0
    BY <2>1 DEF TypeOK
  <2>2. QED
    BY <2>1 DEF Dead
<1>2. QED
  BY <1>1 DEF Settled

\* A delivery ends with its message settled.
LEMMA SettleFlow ==
  ASSUME Flow, NEW c \in Consumer, AtWork(c), Settle(c), UNCHANGED <<owner, committed>>,
         Settled \subseteq Settled', work[c].msg \in Settled'
  PROVE  /\ work' \in [Consumer -> Delivery]
         /\ next' \in [Consumer -> 1..(Messages + 1)]
         /\ committed' <= next'[owner']
         /\ InHand' /\ Behind' /\ InOrder'
<1> USE MessageAssumption, CountAssumption
<1>1. Idle \in Delivery
  BY DEF Idle, Delivery, LastAttempt
<1>2. work' \in [Consumer -> Delivery]
  BY <1>1 DEF Settle, Flow, TypeOK
<1>3. work[c].msg \in Message /\ (owner = c => work[c].msg = next[c])
  BY DEF Flow, InHand
<1>4. next' \in [Consumer -> 1..(Messages + 1)] /\ committed' <= next'[owner']
  BY <1>3 DEF Settle, Flow, TypeOK, Message
<1>5. InHand'
  BY <1>3 DEF Settle, Flow, TypeOK, InHand, AtWork, Idle
<1>6. Behind'
  <2>1. ASSUME NEW m \in Message, m < next'[owner']
        PROVE  m < next[owner] \/ m = work[c].msg
    BY <1>3, <2>1 DEF Settle, Flow, TypeOK, Message
  <2>2. QED
    BY <2>1 DEF Flow, Behind
<1>7. InOrder'
  BY DEF Settle, Flow, TypeOK, InOrder, Idle
<1>8. QED
  BY <1>2, <1>4, <1>5, <1>6, <1>7

LEMMA DeliverFlow ==
  ASSUME Flow, NEW c \in Consumer, Deliver(c)
  PROVE  Flow'
<1> USE MessageAssumption, CountAssumption
<1>1. TypeOK'
  <2>1. LastAttempt \in Nat \ {0}
    BY DEF LastAttempt
  <2>2. [at |-> "handling", msg |-> next[c], attempt |-> 1] \in Delivery
    BY <2>1 DEF Deliver, Flow, TypeOK, Message, Delivery
  <2>3. QED
    BY <2>2 DEF Deliver, Flow, TypeOK
<1>2. InHand'
  BY DEF Deliver, Flow, TypeOK, InHand, AtWork, Message
<1>3. Behind'
  BY DEF Deliver, Flow, TypeOK, InHand, Behind, AtWork, Message, Settled, Dead
<1>4. InOrder'
  BY DEF Deliver, Flow, TypeOK, InHand, Behind, InOrder, AtWork, Message, Settled, Dead
<1>5. Attempts'
  BY DEF Deliver, Flow, TypeOK, Attempts
<1>6. QED
  BY <1>1, <1>2, <1>3, <1>4, <1>5 DEF Flow

LEMMA SucceedFlow ==
  ASSUME Flow, NEW c \in Consumer, Succeed(c)
  PROVE  Flow'
<1> USE MessageAssumption, CountAssumption
<1>1. AtWork(c) /\ work[c].msg \in Message
  BY DEF Succeed, AtWork, Flow, InHand
<1>2. Settled \subseteq Settled'
  BY SettledGrows DEF Succeed, Flow, TypeOK
<1>3. work[c].msg \in Settled'
  BY DEF Succeed, Settled
<1>4. /\ work' \in [Consumer -> Delivery]
      /\ next' \in [Consumer -> 1..(Messages + 1)]
      /\ committed' <= next'[owner']
      /\ InHand' /\ Behind' /\ InOrder'
  BY <1>1, <1>2, <1>3, SettleFlow DEF Succeed
<1>5. Attempts'
  BY DEF Succeed, Settle, Idle, Flow, TypeOK, Attempts
<1>6. TypeOK'
  BY <1>1, <1>4 DEF Succeed, Flow, TypeOK
<1>7. QED
  BY <1>4, <1>5, <1>6 DEF Flow

LEMMA FailFlow ==
  ASSUME Flow, NEW c \in Consumer, Fail(c)
  PROVE  Flow'
<1> USE MessageAssumption, CountAssumption
<1> DEFINE m == work[c].msg
<1>1. AtWork(c) /\ m \in Message /\ work[c] \in Delivery
  BY DEF Fail, AtWork, Flow, InHand, TypeOK
<1>2. Settled \subseteq Settled'
  BY SettledGrows DEF Fail, Flow, TypeOK
<1>3. failures' \in [Consumer -> Nat]
  BY DEF Fail, Flow, TypeOK
<1>4. Attempts'
  BY DEF Fail, AfterFailure, Settle, Idle, Flow, TypeOK, Attempts, Delivery, LastAttempt
<1>5. CASE m \in Empty
  <2>1. work' = [work EXCEPT ![c] = Idle]
    BY <1>5 DEF Fail
  <2>2. UNCHANGED <<owner, committed, next, copies, faults, moves, handled, swallowed>>
    BY <1>5 DEF Fail
  <2>3. Idle \in Delivery
    BY DEF Idle, Delivery, Message, LastAttempt
  <2>4. TypeOK'
    BY <1>3, <2>1, <2>2, <2>3 DEF Flow, TypeOK
  <2>5. \A d \in Consumer : AtWork(d)' => work'[d] = work[d] /\ AtWork(d)
    BY <2>1 DEF Flow, TypeOK, AtWork, Idle
  <2>6. InHand' /\ Behind' /\ InOrder'
    BY <2>2, <2>5 DEF Flow, TypeOK, InHand, Behind, InOrder, Settled, Dead, AtWork
  <2>7. QED
    BY <1>4, <2>4, <2>6 DEF Flow
<1>6. CASE m \notin Empty
  <2>1. PICK s \in {"waiting", "publishing"} : work' = [work EXCEPT ![c].at = s]
    BY <1>6 DEF Fail, AfterFailure
  <2>2. UNCHANGED <<owner, committed, next, copies, faults, moves, handled, swallowed>>
    BY <1>6 DEF Fail
  <2>3. [work[c] EXCEPT !.at = s] \in Delivery
    BY <1>1 DEF Delivery
  <2>4. TypeOK'
    BY <1>3, <2>1, <2>2, <2>3 DEF Flow, TypeOK
  <2>5. \A d \in Consumer : work'[d].msg = work[d].msg /\ (AtWork(d)' => AtWork(d))
    BY <1>1, <2>1 DEF Flow, TypeOK, AtWork
  <2>6. InHand' /\ Behind' /\ InOrder'
    BY <2>2, <2>5 DEF Flow, TypeOK, InHand, Behind, InOrder, Settled, Dead, AtWork
  <2>7. QED
    BY <1>4, <2>4, <2>6 DEF Flow
<1>7. QED
  BY <1>5, <1>6

LEMMA RetryFlow ==
  ASSUME Flow, NEW c \in Consumer, Retry(c)
  PROVE  Flow'
<1> USE MessageAssumption, CountAssumption
<1>1. [at |-> "handling", msg |-> work[c].msg, attempt |-> work[c].attempt + 1] \in Delivery
  <2>1. work[c] \in Delivery /\ work[c].attempt < FailedCount
    BY DEF Retry, Flow, TypeOK, Attempts
  <2>2. QED
    BY <2>1 DEF Delivery, LastAttempt
<1>2. TypeOK'
  BY <1>1 DEF Retry, Flow, TypeOK
<1>3. InHand'
  BY DEF Retry, Flow, TypeOK, InHand, AtWork, Message, Delivery
<1>4. Behind'
  BY DEF Retry, Flow, Behind, Settled, Dead
<1>5. InOrder'
  BY DEF Retry, Flow, TypeOK, InOrder, Settled, Dead, Delivery
<1>6. Attempts'
  BY DEF Retry, Flow, TypeOK, Attempts, Delivery
<1>7. QED
  BY <1>2, <1>3, <1>4, <1>5, <1>6 DEF Flow

LEMMA PublishFlow ==
  ASSUME Flow, NEW c \in Consumer, Publish(c)
  PROVE  Flow'
<1> USE MessageAssumption, CountAssumption
<1>1. AtWork(c) /\ work[c].msg \in Message
  BY DEF Publish, AtWork, Flow, InHand
<1>2. copies' \in [Message -> Nat] /\ \A m \in Message : copies'[m] >= copies[m]
  BY <1>1 DEF Publish, Copy, Flow, TypeOK
<1>3. Settled \subseteq Settled'
  BY <1>2, SettledGrows DEF Publish, Flow, TypeOK
<1>4. work[c].msg \in Settled'
  BY <1>1 DEF Publish, Copy, Settled, Dead, Flow, TypeOK
<1>5. /\ work' \in [Consumer -> Delivery]
      /\ next' \in [Consumer -> 1..(Messages + 1)]
      /\ committed' <= next'[owner']
      /\ InHand' /\ Behind' /\ InOrder'
  BY <1>1, <1>3, <1>4, SettleFlow DEF Publish
<1>6. Attempts'
  BY DEF Publish, Settle, Idle, Flow, TypeOK, Attempts
<1>7. TypeOK'
  BY <1>1, <1>2, <1>5 DEF Publish, Flow, TypeOK
<1>8. QED
  BY <1>5, <1>6, <1>7 DEF Flow

LEMMA PublishFailsFlow ==
  ASSUME Flow, NEW c \in Consumer, PublishFails(c)
  PROVE  Flow'
<1> USE MessageAssumption, CountAssumption
<1>1. AtWork(c) /\ work[c].msg \in Message
  BY DEF PublishFails, AtWork, Flow, InHand
<1>2. copies' \in [Message -> Nat] /\ \A m \in Message : copies'[m] >= copies[m]
  BY <1>1 DEF PublishFails, Copy, Flow, TypeOK
<1>3. Settled \subseteq Settled'
  BY <1>2, SettledGrows DEF PublishFails, Flow, TypeOK
<1>4. work[c].msg \in Settled'
  BY <1>1 DEF PublishFails, Copy, Settled, Dead, Flow, TypeOK
<1>5. /\ work' \in [Consumer -> Delivery]
      /\ next' \in [Consumer -> 1..(Messages + 1)]
      /\ committed' <= next'[owner']
      /\ InHand' /\ Behind' /\ InOrder'
  BY <1>1, <1>3, <1>4, SettleFlow DEF PublishFails
<1>6. Attempts'
  BY DEF PublishFails, Settle, Idle, Flow, TypeOK, Attempts
<1>7. TypeOK'
  BY <1>1, <1>2, <1>5 DEF PublishFails, Flow, TypeOK
<1>8. QED
  BY <1>5, <1>6, <1>7 DEF Flow

LEMMA CommitFlow ==
  ASSUME Flow, NEW c \in Consumer, CommitOffset(c)
  PROVE  Flow'
<1> USE MessageAssumption, CountAssumption
<1>1. TypeOK'
  BY DEF CommitOffset, Flow, TypeOK, InHand, AtWork, Message
<1>2. InHand'
  BY DEF CommitOffset, Flow, TypeOK, InHand, AtWork, Message
<1>3. Behind'
  BY DEF CommitOffset, Flow, TypeOK, InHand, Behind, AtWork, Message, Settled, Dead
<1>4. InOrder'
  BY DEF CommitOffset, Flow, TypeOK, InHand, Behind, InOrder, AtWork, Message, Settled, Dead
<1>5. Attempts'
  BY DEF CommitOffset, Flow, TypeOK, Attempts
<1>6. QED
  BY <1>1, <1>2, <1>3, <1>4, <1>5 DEF Flow

LEMMA RebalanceFlow ==
  ASSUME Flow, NEW c \in Consumer, Rebalance(c)
  PROVE  Flow'
<1> USE MessageAssumption, CountAssumption
<1>1. TypeOK'
  <2>1. owner' = c /\ next'[c] = committed /\ next' \in [Consumer -> 1..(Messages + 1)]
    BY DEF Rebalance, Flow, TypeOK
  <2>2. faults' \in 0..MaxFaults /\ moves' \in 0..faults'
    BY DEF Rebalance, Flow, TypeOK
  <2> QED
    BY <2>1, <2>2 DEF Rebalance, Flow, TypeOK
<1>2. InHand'
  BY DEF Rebalance, Flow, TypeOK, InHand, AtWork, Message
<1>3. Behind'
  BY DEF Rebalance, Flow, TypeOK, InHand, Behind, AtWork, Message, Settled, Dead
<1>4. InOrder'
  BY DEF Rebalance, Flow, TypeOK, InHand, Behind, InOrder, AtWork, Message, Settled, Dead
<1>5. Attempts'
  BY DEF Rebalance, Flow, TypeOK, Attempts
<1>6. QED
  BY <1>1, <1>2, <1>3, <1>4, <1>5 DEF Flow

LEMMA CrashFlow ==
  ASSUME Flow, NEW c \in Consumer, Crash(c)
  PROVE  Flow'
<1> USE MessageAssumption, CountAssumption
<1>1. TypeOK'
  <2>1. Idle \in Delivery
    BY DEF Idle, Delivery, Message, LastAttempt
  <2>2. work' \in [Consumer -> Delivery] /\ next' \in [Consumer -> 1..(Messages + 1)]
    BY <2>1 DEF Crash, Flow, TypeOK
  <2>3. committed <= next'[owner] /\ faults' \in 0..MaxFaults /\ moves' \in 0..faults'
    BY DEF Crash, Flow, TypeOK
  <2> QED
    BY <2>2, <2>3 DEF Crash, Flow, TypeOK
<1>2. InHand'
  BY DEF Crash, Idle, Flow, TypeOK, InHand, AtWork, Message
<1>3. Behind'
  BY DEF Crash, Idle, Flow, TypeOK, InHand, Behind, AtWork, Message, Settled, Dead
<1>4. InOrder'
  BY DEF Crash, Idle, Flow, TypeOK, InHand, Behind, InOrder, AtWork, Message, Settled, Dead
<1>5. Attempts'
  BY DEF Crash, Idle, Flow, TypeOK, Attempts
<1>6. QED
  BY <1>1, <1>2, <1>3, <1>4, <1>5 DEF Flow

-----------------------------------------------------------------------------
(* Copies in the dead letter topic                                         *)

\* The consumers at work on message m, and whether the owner has it still to come.
At(m) == {c \in Consumer : AtWork(c) /\ work[c].msg = m}

Due(m) == IF next[owner] <= m /\ owner \notin At(m) THEN 1 ELSE 0

\* Every copy, every delivery under way and every delivery to come of a message is
\* its first, or there has been a crash or a rebalance for it.
Potential == \A m \in Message : copies[m] + Cardinality(At(m)) + Due(m) <= 1 + moves

IInv == Flow /\ Potential

LEMMA Consumers ==
  ASSUME NEW S \in SUBSET Consumer
  PROVE  IsFiniteSet(S) /\ Cardinality(S) \in Nat
  BY ConsumerAssumption, FS_Subset, FS_CardinalityType

LEMMA InitPotential == Init => Potential
<1> SUFFICES ASSUME Init, NEW m \in Message
             PROVE  copies[m] + Cardinality(At(m)) + Due(m) <= 1 + moves
  BY DEF Potential
<1>1. At(m) = {}
  BY DEF Init, At, AtWork, Idle
<1>2. Cardinality(At(m)) = 0
  BY <1>1, FS_EmptySet
<1>3. QED
  BY <1>2 DEF Init, Due

\* Steps that leave every delivery where it is.
LEMMA StillPotential ==
  ASSUME Potential, UNCHANGED <<owner, next, copies, moves>>,
         \A c \in Consumer : (AtWork(c)' <=> AtWork(c)) /\ work'[c].msg = work[c].msg
  PROVE  Potential'
<1>1. \A m : At(m)' = At(m)
  BY DEF At
<1>2. \A m : Due(m)' = Due(m)
  BY <1>1 DEF Due
<1>3. QED
  BY <1>1, <1>2 DEF Potential

\* Crashes and rebalances, which may bring every message back once.
LEMMA MovePotential ==
  ASSUME Flow, Potential, copies' = copies, moves' = moves + 1,
         \A c \in Consumer : AtWork(c)' => AtWork(c) /\ work'[c].msg = work[c].msg
  PROVE  Potential'
<1> SUFFICES ASSUME NEW m \in Message
             PROVE  copies'[m] + Cardinality(At(m)') + Due(m)' <= 1 + moves'
  BY DEF Potential
<1>1. At(m)' \subseteq At(m) /\ At(m) \in SUBSET Consumer
  BY DEF At
<1>2. /\ Cardinality(At(m)') <= Cardinality(At(m))
      /\ Cardinality(At(m)) \in Nat /\ Cardinality(At(m)') \in Nat
  BY <1>1, Consumers, FS_Subset
<1>3. Due(m)' <= 1 /\ Due(m) >= 0 /\ Due(m) \in Nat /\ Due(m)' \in Nat
  BY DEF Due
<1>4. copies[m] \in Nat /\ moves \in Nat
  BY CountAssumption DEF Flow, TypeOK
<1>5. copies[m] + Cardinality(At(m)) + Due(m) <= 1 + moves
  BY DEF Potential
<1>6. QED
  BY <1>2, <1>3, <1>4, <1>5

\* The end of a delivery, which may leave one copy.
LEMMA SettlePotential ==
  ASSUME Flow, Potential, NEW c \in Consumer, AtWork(c), Settle(c),
         UNCHANGED <<owner, moves>>, copies' \in [Message -> Nat],
         \A m \in Message : copies'[m] <= copies[m] + IF m = work[c].msg THEN 1 ELSE 0
  PROVE  Potential'
<1> SUFFICES ASSUME NEW m \in Message
             PROVE  copies'[m] + Cardinality(At(m)') + Due(m)' <= 1 + moves'
  BY DEF Potential
<1>1. /\ work[c].msg \in Message
      /\ owner = c => work[c].msg = next[c]
      /\ next \in [Consumer -> 1..(Messages + 1)] /\ owner \in Consumer
  BY DEF Flow, InHand, TypeOK
<1>2. At(m)' = At(m) \ {c} /\ At(m) \in SUBSET Consumer
  BY DEF Settle, Idle, At, AtWork, Flow, TypeOK
<1>3. c \in At(m) <=> m = work[c].msg
  BY DEF At
<1>4. Cardinality(At(m)') = Cardinality(At(m)) - IF m = work[c].msg THEN 1 ELSE 0
  BY <1>2, <1>3, Consumers, FS_RemoveElement
<1>5. Due(m)' = Due(m)
  <2>1. CASE owner = c
    <3>1. next'[owner'] = work[c].msg + 1 /\ next[owner] = work[c].msg
      BY <1>1, <2>1 DEF Settle
    <3>2. owner' \notin At(m)'
      BY <1>2, <2>1
    <3>3. next'[owner'] <= m <=> next[owner] <= m /\ m # work[c].msg
      BY <1>1, <3>1, MessageAssumption DEF Message
    <3>4. QED
      BY <1>3, <2>1, <3>2, <3>3 DEF Due
  <2>2. CASE owner # c
    BY <1>2, <2>2 DEF Due, Settle
  <2>3. QED
    BY <2>1, <2>2
<1>6. /\ Cardinality(At(m)) \in Nat /\ Due(m) \in Nat
      /\ copies[m] \in Nat /\ moves \in Nat /\ copies'[m] \in Nat
  BY <1>2, Consumers, CountAssumption DEF Flow, TypeOK, Due
<1>7. copies[m] + Cardinality(At(m)) + Due(m) <= 1 + moves
  BY DEF Potential
<1>8. QED
  BY <1>4, <1>5, <1>6, <1>7

\* A delivery given up for the client to make again: it leaves the consumers at work
\* and is, if its consumer is the owner, one to come.
LEMMA ReturnPotential ==
  ASSUME Flow, Potential, NEW c \in Consumer, AtWork(c), work' = [work EXCEPT ![c] = Idle],
         UNCHANGED <<owner, next, copies, moves>>
  PROVE  Potential'
<1> SUFFICES ASSUME NEW m \in Message
             PROVE  copies'[m] + Cardinality(At(m)') + Due(m)' <= 1 + moves'
  BY DEF Potential
<1>1. owner = c => work[c].msg = next[c]
  BY DEF Flow, InHand
<1>2. At(m)' = At(m) \ {c} /\ At(m) \in SUBSET Consumer
  BY DEF Idle, At, AtWork, Flow, TypeOK
<1>3. c \in At(m) <=> m = work[c].msg
  BY DEF At
<1>4. Cardinality(At(m)') = Cardinality(At(m)) - IF m = work[c].msg THEN 1 ELSE 0
  BY <1>2, <1>3, Consumers, FS_RemoveElement
<1>5. Due(m)' <= Due(m) + IF m = work[c].msg THEN 1 ELSE 0
  <2>1. CASE m = work[c].msg
    BY <2>1 DEF Due
  <2>2. CASE m # work[c].msg
    <3>1. At(m)' = At(m)
      BY <1>2, <1>3, <2>2
    <3>2. QED
      BY <2>2, <3>1 DEF Due
  <2>3. QED
    BY <2>1, <2>2
<1>6. /\ Cardinality(At(m)) \in Nat /\ Due(m) \in Nat /\ Due(m)' \in Nat
      /\ copies[m] \in Nat /\ moves \in Nat
  BY <1>2, Consumers, CountAssumption DEF Flow, TypeOK, Due
<1>7. copies[m] + Cardinality(At(m)) + Due(m) <= 1 + moves
  BY DEF Potential
<1>8. QED
  BY <1>4, <1>5, <1>6, <1>7

LEMMA DeliverPotential ==
  ASSUME Flow, Potential, NEW c \in Consumer, Deliver(c)
  PROVE  Potential'
<1> SUFFICES ASSUME NEW m \in Message
             PROVE  copies'[m] + Cardinality(At(m)') + Due(m)' <= 1 + moves'
  BY DEF Potential
<1>1. owner = c /\ ~AtWork(c) /\ UNCHANGED <<owner, next, copies, moves>>
  BY DEF Deliver, AtWork
<1>2. At(m) \in SUBSET Consumer /\ c \notin At(m)
  BY <1>1 DEF At
<1>3. At(m)' = IF m = next[c] THEN At(m) \cup {c} ELSE At(m)
  BY <1>1 DEF Deliver, At, AtWork, Flow, TypeOK
<1>4. Cardinality(At(m)') = Cardinality(At(m)) + IF m = next[c] THEN 1 ELSE 0
  BY <1>2, <1>3, Consumers, FS_AddElement
<1>5. Due(m)' = Due(m) - IF m = next[c] THEN 1 ELSE 0
  <2>1. next[c] \in Nat /\ m \in Nat
    BY MessageAssumption DEF Flow, TypeOK, Message
  <2>2. QED
    BY <1>1, <1>2, <1>3, <2>1 DEF Due
<1>6. Cardinality(At(m)) \in Nat /\ Due(m) \in Nat /\ copies[m] \in Nat /\ moves \in Nat
  BY <1>2, Consumers, CountAssumption DEF Flow, TypeOK, Due
<1>7. copies[m] + Cardinality(At(m)) + Due(m) <= 1 + moves
  BY DEF Potential
<1>8. QED
  BY <1>1, <1>4, <1>5, <1>6, <1>7

LEMMA NextPotential ==
  ASSUME Flow, Potential, NEW c \in Consumer,
         Step(c) \/ CommitOffset(c) \/ Rebalance(c) \/ Crash(c)
  PROVE  Potential'
<1> USE DEF AtWork
<1>0. /\ work \in [Consumer -> Delivery] /\ copies \in [Message -> Nat]
      /\ AtWork(c) => work[c].msg \in Message
  BY DEF Flow, TypeOK, InHand
<1>1. CASE Deliver(c)
  BY <1>1, DeliverPotential
<1>2. CASE Succeed(c)
  <2>1. AtWork(c) /\ Settle(c) /\ UNCHANGED <<owner, moves, copies>>
    BY <1>2 DEF Succeed
  <2>2. QED
    BY <1>0, <2>1, SettlePotential
<1>3. CASE Fail(c)
  <2>1. AtWork(c) /\ UNCHANGED <<owner, next, copies, moves>>
    BY <1>3 DEF Fail
  <2>2. CASE work[c].msg \in Empty
    <3>1. work' = [work EXCEPT ![c] = Idle]
      BY <1>3, <2>2 DEF Fail
    <3>2. QED
      BY <2>1, <3>1, ReturnPotential
  <2>3. CASE work[c].msg \notin Empty
    <3>1. PICK s \in {"waiting", "publishing"} : work' = [work EXCEPT ![c].at = s]
      BY <1>3, <2>3 DEF Fail, AfterFailure
    <3>2. \A d \in Consumer : (AtWork(d)' <=> AtWork(d)) /\ work'[d].msg = work[d].msg
      BY <1>0, <2>1, <3>1 DEF Delivery
    <3>3. QED
      BY <2>1, <3>2, StillPotential
  <2>4. QED
    BY <2>2, <2>3
<1>4. CASE Retry(c)
  <2>1. \A d \in Consumer : (AtWork(d)' <=> AtWork(d)) /\ work'[d].msg = work[d].msg
    BY <1>0, <1>4 DEF Retry, Delivery
  <2>2. QED
    BY <1>4, <2>1, StillPotential DEF Retry
<1>5. CASE Publish(c)
  <2>1. AtWork(c) /\ Settle(c) /\ Copy(c) /\ UNCHANGED <<owner, moves>>
    BY <1>5 DEF Publish
  <2>2. /\ copies' \in [Message -> Nat]
        /\ \A m \in Message : copies'[m] <= copies[m] + IF m = work[c].msg THEN 1 ELSE 0
    BY <1>0, <2>1 DEF Copy
  <2>3. QED
    BY <2>1, <2>2, SettlePotential
<1>6. CASE PublishFails(c)
  <2>1. AtWork(c) /\ Settle(c) /\ (Copy(c) \/ copies' = copies) /\ UNCHANGED <<owner, moves>>
    BY <1>6 DEF PublishFails
  <2>2. /\ copies' \in [Message -> Nat]
        /\ \A m \in Message : copies'[m] <= copies[m] + IF m = work[c].msg THEN 1 ELSE 0
    BY <1>0, <2>1 DEF Copy
  <2>3. QED
    BY <2>1, <2>2, SettlePotential
<1>7. CASE CommitOffset(c)
  BY <1>7, StillPotential DEF CommitOffset
<1>8. CASE Rebalance(c)
  BY <1>8, MovePotential DEF Rebalance
<1>9. CASE Crash(c)
  <2>1. \A d \in Consumer : AtWork(d)' => AtWork(d) /\ work'[d].msg = work[d].msg
    BY <1>0, <1>9 DEF Crash, Idle
  <2>2. QED
    BY <1>9, <2>1, MovePotential DEF Crash
<1>10. QED
  BY <1>1, <1>2, <1>3, <1>4, <1>5, <1>6, <1>7, <1>8, <1>9 DEF Step

-----------------------------------------------------------------------------
(* Theorems                                                                *)

LEMMA NextInv == IInv /\ [Next]_vars => IInv'
<1>1. ASSUME IInv, NEW c \in Consumer, Step(c) \/ CommitOffset(c) \/ Rebalance(c) \/ Crash(c)
      PROVE  Flow'
  BY <1>1, DeliverFlow, SucceedFlow, FailFlow, RetryFlow, PublishFlow, PublishFailsFlow,
     CommitFlow, RebalanceFlow, CrashFlow DEF IInv, Step
<1>2. ASSUME IInv, UNCHANGED vars
      PROVE  IInv'
  BY <1>2 DEF vars, IInv, Flow, TypeOK, InHand, Behind, InOrder, Attempts, Potential,
     AtWork, At, Due, Settled, Dead
<1>3. QED
  BY <1>1, <1>2, NextPotential DEF IInv, Next

THEOREM Invariance == Spec => []IInv
<1>1. Init => IInv
  BY InitFlow, InitPotential DEF IInv
<1>2. QED
  BY <1>1, NextInv, PTL DEF Spec

\* Every reachable state has its types, for any group, partition and failedCount.
THEOREM TypeCorrect == Spec => []TypeOK
<1>1. IInv => TypeOK
  BY DEF IInv, Flow
<1>2. QED
  BY <1>1, Invariance, PTL

\* No offset is committed over a message that was not settled.
THEOREM Complete == Spec => []NothingSkipped
<1>1. IInv => NothingSkipped
  BY MessageAssumption DEF IInv, Flow, TypeOK, Behind, NothingSkipped, Message
<1>2. QED
  BY <1>1, Invariance, PTL

\* No message is handled before all earlier ones are settled.
THEOREM Ordered == Spec => []InOrder
<1>1. IInv => InOrder
  BY DEF IInv, Flow
<1>2. QED
  BY <1>1, Invariance, PTL

\* A message is copied once, and once more for a crash or rebalance at most.
THEOREM FewCopies == Spec => []CopiesBounded
<1>1. ASSUME IInv, NEW m \in Message
      PROVE  copies[m] <= 1 + moves
  <2>1. At(m) \in SUBSET Consumer
    BY DEF At
  <2>2. /\ Cardinality(At(m)) \in Nat /\ Due(m) \in Nat
        /\ copies[m] \in Nat /\ moves \in Nat
    BY <1>1, <2>1, Consumers, CountAssumption DEF IInv, Flow, TypeOK, Due
  <2>3. copies[m] + Cardinality(At(m)) + Due(m) <= 1 + moves
    BY <1>1 DEF IInv, Potential
  <2>4. QED
    BY <2>2, <2>3
<1>2. IInv => CopiesBounded
  BY <1>1 DEF CopiesBounded
<1>3. QED
  BY <1>2, Invariance, PTL

\* Where failedCount is above 0, the dead letter topic gets a message after exactly as
\* many failures of its delivery.
THEOREM AllAttemptsMade == Spec => DeadAfterAllAttempts
<1>1. IInv /\ [Next]_vars =>
        [\A c \in Consumer : Publish(c) /\ FailedCount > 0 => failures[c] = FailedCount]_vars
  BY CountAssumption DEF IInv, Flow, Attempts, Publish, LastAttempt
<1>2. QED
  BY <1>1, Invariance, PTL DEF Spec, DeadAfterAllAttempts

-----------------------------------------------------------------------------
(* Health. *)

HealthShapes ==
  /\ indicators \in Seq(Indicator)
  /\ at \in [Check -> Nat]
  /\ overall \in [Check -> {"up", "down"}]
  /\ components \in [Check -> [Name -> {"unknown", "up", "down"}]]
  /\ answer \in [Check -> [code : {0, 200, 503}, statuses : [Name -> {"unknown", "up", "down"}]]]
  /\ asked \in [Check -> [Indicator -> {"unknown", "up", "down"}]]

\* No indicator is registered twice, so that no check asks one twice.
Distinct == \A m, n \in DOMAIN indicators : indicators[m] = indicators[n] => m = n

\* A check has asked the indicators before the one it has come to, and those only.
InTurn(c) ==
  at[c] # 0 => /\ answer[c].code = 0
               /\ \A i \in Indicator : asked[c][i] # "unknown" =>
                    \E n \in DOMAIN indicators : n < at[c] /\ indicators[n] = i

Shared(i) == \E j \in Indicator \ {i} : NameOf[j] = NameOf[i]

\* What it has put down is what it was told.
PutDown(c) ==
  /\ overall[c] = "down" <=> \E i \in Indicator : asked[c][i] = "down"
  /\ \A i \in Indicator : asked[c][i] = "down" => components[c][NameOf[i]] = "down" \/ Shared(i)

Reported(c) ==
  answer[c].code # 0 =>
    /\ answer[c].code = 503 <=> \E i \in Indicator : asked[c][i] = "down"
    /\ \A i \in Indicator : asked[c][i] = "down" => answer[c].statuses[NameOf[i]] = "down" \/ Shared(i)

\* Inductive: statuses are overwritten by name while a check goes on, and indicators may
\* be registered under it.
HealthInv == HealthShapes /\ Distinct /\ \A c \in Check : InTurn(c) /\ PutDown(c) /\ Reported(c)

LEMMA HealthInitInv == HealthInit => HealthInv
<1> SUFFICES ASSUME HealthInit PROVE HealthInv
  OBVIOUS
<1>1. HealthShapes /\ Distinct
  BY DEF HealthInit, HealthShapes, Distinct, Unknown, NoAnswer, NotAsked
<1>2. ASSUME NEW c \in Check
      PROVE  at[c] = 0 /\ overall[c] = "up" /\ answer[c].code = 0 /\ \A i \in Indicator : asked[c][i] = "unknown"
  BY DEF HealthInit, NoAnswer, NotAsked
<1>3. \A c \in Check : InTurn(c) /\ PutDown(c) /\ Reported(c)
  BY <1>2 DEF InTurn, PutDown, Reported
<1> QED
  BY <1>1, <1>3 DEF HealthInv

\* What concerns one check leaves the others as they are.
LEMMA OtherChecks ==
  ASSUME HealthInv, HealthShapes', UNCHANGED indicators, NEW c \in Check,
         InTurn(c)', PutDown(c)', Reported(c)',
         \A d \in Check \ {c} : /\ at'[d] = at[d] /\ overall'[d] = overall[d] /\ components'[d] = components[d]
                                /\ answer'[d] = answer[d] /\ asked'[d] = asked[d]
  PROVE  HealthInv'
<1>1. \A d \in Check \ {c} : InTurn(d)' /\ PutDown(d)' /\ Reported(d)'
  BY DEF HealthInv, InTurn, PutDown, Reported, Shared
<1>2. Distinct'
  BY DEF HealthInv, Distinct
<1> QED
  BY <1>1, <1>2 DEF HealthInv

LEMMA AwaitInv == ASSUME HealthInv, NEW c \in Check, Await(c) PROVE HealthInv'
<1>1. PICK i, status :
        /\ at[c] \in DOMAIN indicators /\ i = indicators[at[c]] /\ status \in {"up", "down"}
        /\ at' = [at EXCEPT ![c] = @ + 1]
        /\ overall' = [overall EXCEPT ![c] = IF status = "down" THEN "down" ELSE @]
        /\ components' = [components EXCEPT ![c][NameOf[i]] = status]
        /\ asked' = [asked EXCEPT ![c][i] = status]
        /\ UNCHANGED <<indicators, answer>>
  BY DEF Await, Pending
<1>2. /\ at[c] \in Nat \ {0} /\ i \in Indicator /\ NameOf[i] \in Name
      /\ overall[c] \in {"up", "down"}
  BY <1>1 DEF HealthInv, HealthShapes, Name
<1>3. /\ at'[c] = at[c] + 1 /\ overall'[c] = (IF status = "down" THEN "down" ELSE overall[c])
      /\ components'[c] = [components[c] EXCEPT ![NameOf[i]] = status]
      /\ asked'[c] = [asked[c] EXCEPT ![i] = status]
      /\ answer' = answer /\ indicators' = indicators
  BY <1>1 DEF HealthInv, HealthShapes
<1>4. HealthShapes'
  <2>1. [components[c] EXCEPT ![NameOf[i]] = status] \in [Name -> {"unknown", "up", "down"}]
    BY <1>1, <1>2 DEF HealthInv, HealthShapes
  <2>2. [asked[c] EXCEPT ![i] = status] \in [Indicator -> {"unknown", "up", "down"}]
    BY <1>1, <1>2 DEF HealthInv, HealthShapes
  <2>3. at' \in [Check -> Nat] /\ overall' \in [Check -> {"up", "down"}]
    BY <1>1, <1>2 DEF HealthInv, HealthShapes
  <2>4. components' \in [Check -> [Name -> {"unknown", "up", "down"}]]
    BY <1>1, <2>1 DEF HealthInv, HealthShapes
  <2>5. asked' \in [Check -> [Indicator -> {"unknown", "up", "down"}]]
    BY <1>1, <2>2 DEF HealthInv, HealthShapes
  <2> QED
    BY <1>3, <2>3, <2>4, <2>5 DEF HealthInv, HealthShapes
<1>5. /\ asked'[c][i] = status /\ components'[c][NameOf[i]] = status
      /\ \A j \in Indicator \ {i} : asked'[c][j] = asked[c][j]
      /\ \A n \in Name \ {NameOf[i]} : components'[c][n] = components[c][n]
  BY <1>2, <1>3 DEF HealthInv, HealthShapes
<1>6. InTurn(c) /\ PutDown(c) /\ answer[c].code = 0
  BY <1>2 DEF HealthInv, InTurn
<1>7. asked[c][i] = "unknown"
  <2>1. ASSUME NEW n \in DOMAIN indicators, n < at[c], indicators[n] = i
        PROVE  FALSE
    BY <1>1, <1>2, <2>1 DEF HealthInv, Distinct
  <2> QED
    BY <1>2, <1>6, <2>1 DEF InTurn
<1>8. InTurn(c)'
  <2>1. ASSUME NEW j \in Indicator, asked'[c][j] # "unknown"
        PROVE  \E n \in DOMAIN indicators : n < at[c] + 1 /\ indicators[n] = j
    <3>1. CASE j = i
      BY <1>1, <1>2, <3>1
    <3>2. CASE j # i
      <4>1. PICK n \in DOMAIN indicators : n < at[c] /\ indicators[n] = j
        BY <1>2, <1>5, <1>6, <2>1, <3>2 DEF InTurn
      <4>2. n \in Nat
        BY DEF HealthInv, HealthShapes
      <4> QED
        BY <1>2, <4>1, <4>2
    <3> QED
      BY <3>1, <3>2
  <2> QED
    BY <1>3, <1>6, <2>1 DEF InTurn
<1>9. PutDown(c)'
  <2>1. overall'[c] = "down" <=> \E j \in Indicator : asked'[c][j] = "down"
    BY <1>1, <1>2, <1>3, <1>5, <1>6, <1>7 DEF PutDown
  <2>2. ASSUME NEW j \in Indicator, asked'[c][j] = "down"
        PROVE  components'[c][NameOf[j]] = "down" \/ Shared(j)
    <3>1. CASE j = i
      BY <1>5, <2>2, <3>1
    <3>2. CASE j # i /\ NameOf[j] = NameOf[i]
      BY <1>2, <3>2 DEF Shared
    <3>3. CASE j # i /\ NameOf[j] # NameOf[i]
      <4>1. NameOf[j] \in Name
        BY DEF Name
      <4> QED
        BY <1>5, <1>6, <2>2, <3>3, <4>1 DEF PutDown
    <3> QED
      BY <3>1, <3>2, <3>3
  <2> QED
    BY <2>1, <2>2 DEF PutDown, Shared
<1>10. Reported(c)'
  BY <1>3, <1>6 DEF Reported
<1>11. \A d \in Check \ {c} : /\ at'[d] = at[d] /\ overall'[d] = overall[d] /\ components'[d] = components[d]
                              /\ answer'[d] = answer[d] /\ asked'[d] = asked[d]
  BY <1>1 DEF HealthInv, HealthShapes
<1> QED
  BY <1>3, <1>4, <1>8, <1>9, <1>10, <1>11, OtherChecks

LEMMA HealthNextInv == HealthInv /\ [HealthNext]_healthVars => HealthInv'
<1> SUFFICES ASSUME HealthInv, [HealthNext]_healthVars PROVE HealthInv'
  OBVIOUS
<1>1. CASE UNCHANGED healthVars \/ \E i, o : Change(i, o)
  BY <1>1 DEF healthVars, checkVars, Change, HealthInv, HealthShapes, Distinct, InTurn, PutDown, Reported, Shared
<1>2. ASSUME NEW i \in Indicator, RegisterIndicator(i) PROVE HealthInv'
  <2>1. /\ \A n \in DOMAIN indicators : indicators[n] # i
        /\ indicators' = Append(indicators, i) /\ UNCHANGED <<at, overall, components, answer, asked>>
    BY <1>2 DEF RegisterIndicator, checkVars
  <2>2. /\ indicators' \in Seq(Indicator) /\ DOMAIN indicators \subseteq DOMAIN indicators'
        /\ \A n \in DOMAIN indicators : indicators'[n] = indicators[n]
    BY <2>1 DEF HealthInv, HealthShapes
  <2>3. Distinct'
    BY <2>1 DEF HealthInv, HealthShapes, Distinct
  <2>4. \A c \in Check : InTurn(c)' /\ PutDown(c)' /\ Reported(c)'
    BY <2>1, <2>2 DEF HealthInv, InTurn, PutDown, Reported, Shared
  <2> QED
    BY <2>1, <2>2, <2>3, <2>4 DEF HealthInv, HealthShapes
<1>3. ASSUME NEW c \in Check, BeginCheck(c) PROVE HealthInv'
  <2>1. /\ at' = [at EXCEPT ![c] = 1] /\ overall' = [overall EXCEPT ![c] = "up"]
        /\ components' = [components EXCEPT ![c] = Unknown] /\ answer' = [answer EXCEPT ![c] = NoAnswer]
        /\ asked' = [asked EXCEPT ![c] = NotAsked] /\ indicators' = indicators
    BY <1>3 DEF BeginCheck
  <2>2. /\ Unknown \in [Name -> {"unknown", "up", "down"}]
        /\ NoAnswer \in [code : {0, 200, 503}, statuses : [Name -> {"unknown", "up", "down"}]]
        /\ NotAsked \in [Indicator -> {"unknown", "up", "down"}]
    BY DEF Unknown, NoAnswer, NotAsked
  <2>3. HealthShapes'
    BY <2>1, <2>2 DEF HealthInv, HealthShapes
  <2>4. at'[c] = 1 /\ overall'[c] = "up" /\ answer'[c].code = 0 /\ \A i \in Indicator : asked'[c][i] = "unknown"
    BY <2>1 DEF HealthInv, HealthShapes, NoAnswer, NotAsked
  <2>5. InTurn(c)' /\ PutDown(c)' /\ Reported(c)'
    BY <2>4 DEF InTurn, PutDown, Reported
  <2>6. \A d \in Check \ {c} : /\ at'[d] = at[d] /\ overall'[d] = overall[d] /\ components'[d] = components[d]
                               /\ answer'[d] = answer[d] /\ asked'[d] = asked[d]
    BY <2>1 DEF HealthInv, HealthShapes
  <2> QED
    BY <2>1, <2>3, <2>5, <2>6, OtherChecks
<1>4. ASSUME NEW c \in Check, Answer(c) PROVE HealthInv'
  <2>0. PICK code : code = IF overall[c] = "up" THEN 200 ELSE 503
    OBVIOUS
  <2>1. PICK given : given = [code |-> code, statuses |-> components[c]]
    OBVIOUS
  <2>2. /\ at' = [at EXCEPT ![c] = 0] /\ answer' = [answer EXCEPT ![c] = given]
        /\ UNCHANGED <<indicators, overall, components, asked>>
    BY <1>4, <2>0, <2>1 DEF Answer
  <2>3. given \in [code : {0, 200, 503}, statuses : [Name -> {"unknown", "up", "down"}]]
    BY <2>0, <2>1 DEF HealthInv, HealthShapes
  <2>4. HealthShapes'
    BY <2>2, <2>3 DEF HealthInv, HealthShapes
  <2>5. /\ at'[c] = 0 /\ answer'[c] = given /\ (given.code = 503 <=> overall[c] = "down")
        /\ given.statuses = components[c]
    BY <2>0, <2>1, <2>2 DEF HealthInv, HealthShapes
  <2>6. InTurn(c)' /\ PutDown(c)' /\ Reported(c)'
    BY <2>2, <2>5 DEF HealthInv, InTurn, PutDown, Reported, Shared
  <2>7. \A d \in Check \ {c} : /\ at'[d] = at[d] /\ overall'[d] = overall[d] /\ components'[d] = components[d]
                               /\ answer'[d] = answer[d] /\ asked'[d] = asked[d]
    BY <2>2 DEF HealthInv, HealthShapes
  <2> QED
    BY <2>2, <2>4, <2>6, <2>7, OtherChecks
<1> QED
  BY <1>1, <1>2, <1>3, <1>4, AwaitInv DEF HealthNext

\* Whatever indicators do while checks overlap, and whenever they are registered, a check
\* reports a fault exactly if it met one (health.service.ts, checkAll;
\* health.controller.ts, check).
THEOREM FaultsAreShown == HealthSpec => []FaultShown
<1>1. HealthInv => FaultShown
  BY DEF HealthInv, Reported, Shared, FaultShown
<1> QED
  BY <1>1, HealthInitInv, HealthNextInv, PTL DEF HealthSpec

-----------------------------------------------------------------------------
(* Configuration. *)

\* Inductive: the configuration served is stale in one of two ways only, that no reload
\* was asked for since an edit, or that the last one was refused.
ServedIsMerged == running /\ fresh => served = Merged(files, env)

LEMMA ConfigurationNextInv ==
  ServedIsMerged /\ [ConfigurationNext]_configurationVars => ServedIsMerged'
<1> SUFFICES ASSUME ServedIsMerged, [ConfigurationNext]_configurationVars
             PROVE  ServedIsMerged'
  OBVIOUS
<1>1. CASE Start
  BY <1>1 DEF Start, ServedIsMerged
<1>2. CASE Stop
  BY <1>2 DEF Stop, ServedIsMerged
<1>3. CASE Reload
  BY <1>3 DEF Reload, ServedIsMerged
<1>4. ASSUME NEW n \in DOMAIN files, NEW doc \in Documents, EditFile(n, doc)
      PROVE  ServedIsMerged'
  BY <1>4 DEF EditFile, ServedIsMerged
<1>5. ASSUME NEW entries \in EnvFiles, EditEnvFile(entries)
      PROVE  ServedIsMerged'
  BY <1>5 DEF EditEnvFile, ServedIsMerged
<1>6. CASE UNCHANGED configurationVars
  BY <1>6 DEF configurationVars, ServedIsMerged
<1> QED
  BY <1>1, <1>2, <1>3, <1>4, <1>5, <1>6 DEF ConfigurationNext

\* What the environment says of a key is merged over what the files say, whether they
\* have the section or not: only a section that is a scalar swallows it.
LEMMA MergedHasTheEntry ==
  ASSUME NEW docs, NEW entries, NEW x \in Section, NEW k \in Key,
         Last(entries, <<x, k>>) # Unset,
         yamlConfig[docs][x].shape # "scalar"
  PROVE  Merged(docs, entries)[x].of[k] = Last(entries, <<x, k>>)
<1> DEFINE given == [j \in Key |-> Last(entries, <<x, j>>)]
<1>1. Named(entries, <<x, k>>) # {}
  BY DEF Last
<1>2. ParseEnvVariables(entries)[x] = Object(given)
  BY <1>1 DEF ParseEnvVariables
<1>3. given[k] = Last(entries, <<x, k>>)
  OBVIOUS
<1>4. Merged(docs, entries)[x] = MergeSection(yamlConfig[docs][x], Object(given))
  BY <1>2 DEF Merged, DeepMerge
<1> HIDE DEF given
<1>5. Object(given).shape = "object" /\ Object(given).of = given
  BY DEF Object
<1>6. CASE yamlConfig[docs][x].shape = "absent"
  BY <1>3, <1>4, <1>5, <1>6 DEF MergeSection
<1>7. CASE yamlConfig[docs][x].shape # "absent"
  <2> DEFINE both == [j \in Key |-> IF given[j] = Unset THEN yamlConfig[docs][x].of[j] ELSE given[j]]
  <2>1. MergeSection(yamlConfig[docs][x], Object(given)) = Object(both)
    BY <1>5, <1>7 DEF MergeSection
  <2>2. both[k] = given[k]
    BY <1>3
  <2> HIDE DEF both
  <2> QED
    BY <1>3, <1>4, <2>1, <2>2 DEF Object
<1> QED
  BY <1>6, <1>7

\* A process that has loaded its configuration lets its environment have the last word
\* on every key, for every schema, every set of files and every environment, and however
\* often either was edited and reloaded (configuration.loader.ts, loadAndValidateConfig).
THEOREM TheEnvironmentOverrides == ConfigurationSpec => []EnvironmentWins
<1>1. ConfigurationInit => ServedIsMerged
  BY DEF ConfigurationInit, ServedIsMerged
<1>2. ServedIsMerged => EnvironmentWins
  <2> SUFFICES ASSUME ServedIsMerged, running, fresh,
                      NEW path \in Section \X Key,
                      Last(env, path) # Unset,
                      yamlConfig[files][path[1]].shape # "scalar"
               PROVE  ResolvePath(path) = Last(env, path)
    BY DEF EnvironmentWins
  <2>1. PICK x \in Section, k \in Key : path = <<x, k>>
    OBVIOUS
  <2>2. path[1] = x /\ path[2] = k
    BY <2>1
  <2>3. Merged(files, env)[x].of[k] = Last(env, <<x, k>>)
    BY <2>1, <2>2, MergedHasTheEntry
  <2> QED
    BY <2>1, <2>2, <2>3 DEF ResolvePath, ServedIsMerged
<1> QED
  BY <1>1, <1>2, ConfigurationNextInv, PTL DEF ConfigurationSpec

-----------------------------------------------------------------------------
(* A reload and a restart read the same environment. *)

Environment == {entries \in Seq(EnvEntry) : OneValue(entries)}

LEMMA LookupIs ==
  ASSUME NEW entries \in Environment, NEW n \in DOMAIN entries, NEW v, entries[n].name = v
  PROVE  Lookup(entries, v) = entries[n].value /\ Lookup(entries, v) # Unset
<1> DEFINE m == CHOOSE m \in DOMAIN entries : entries[m].name = v
<1>1. m \in DOMAIN entries /\ entries[m].name = v
  OBVIOUS
<1>2. m = n
  BY <1>1 DEF Environment, OneValue
<1>3. Lookup(entries, v) = entries[m].value
  BY DEF Lookup
<1>4. entries[n] \in EnvEntry
  BY DEF Environment
<1>5. entries[n].value # Unset
  BY <1>4, UnsetAssumption DEF EnvEntry
<1> HIDE DEF m
<1> QED
  BY <1>2, <1>3, <1>5

LEMMA LookupNone ==
  ASSUME NEW entries, NEW v, \A n \in DOMAIN entries : entries[n].name # v
  PROVE  Lookup(entries, v) = Unset
  BY DEF Lookup

LEMMA LookupSome ==
  ASSUME NEW entries, NEW v, Lookup(entries, v) # Unset
  PROVE  \E n \in DOMAIN entries : entries[n].name = v
  BY DEF Lookup

\* What Picked selects are the entries at the places, each once.
LEMMA PickedOnce ==
  ASSUME NEW file \in Environment, NEW places \in SUBSET DOMAIN file, NEW added,
         added \in Picked(file, places)
  PROVE  /\ added \in Environment
         /\ \A n \in DOMAIN added : \E place \in places : added[n] = file[place]
         /\ \A place \in places : \E n \in DOMAIN added : added[n] = file[place]
<1>1. PICK f \in [1..Cardinality(places) -> places] :
        /\ \A m, n \in DOMAIN f : m < n => f[m] < f[n]
        /\ \A place \in places : \E n \in DOMAIN f : f[n] = place
        /\ added = [n \in DOMAIN f |-> file[f[n]]]
  BY DEF Picked
<1>2. IsFiniteSet(places)
  <2>1. file \in Seq(EnvEntry)
    BY DEF Environment
  <2>2. DOMAIN file = 1..Len(file) /\ Len(file) \in Nat
    BY <2>1
  <2>3. IsFiniteSet(1..Len(file))
    BY <2>2, FS_Interval
  <2> QED
    BY <2>2, <2>3, FS_Subset
<1>3. PICK c \in Nat : c = Cardinality(places)
  BY <1>2, FS_CardinalityType
<1>4. DOMAIN f = 1..c /\ \A n \in 1..c : f[n] \in places
  BY <1>1, <1>3
<1>5. \A n \in 1..c : file[f[n]] \in EnvEntry
  BY <1>4 DEF Environment
<1>6. added = [n \in 1..c |-> file[f[n]]]
  BY <1>1, <1>4
<1>7. added \in Seq(EnvEntry) /\ DOMAIN added = 1..c
  BY <1>5, <1>6
<1>8. OneValue(added)
  <2> SUFFICES ASSUME NEW m \in 1..c, NEW n \in 1..c, added[m].name = added[n].name, m # n
               PROVE  FALSE
    BY <1>7 DEF OneValue
  <2>1. file[f[m]].name = file[f[n]].name /\ f[m] \in DOMAIN file /\ f[n] \in DOMAIN file
    BY <1>4, <1>6
  <2>2. f[m] = f[n]
    BY <2>1 DEF Environment, OneValue
  <2>3. f[m] \in Int
    BY <2>1 DEF Environment
  <2>4. m < n \/ n < m
    OBVIOUS
  <2>5. f[m] < f[n] \/ f[n] < f[m]
    BY <1>1, <1>4, <2>4
  <2> QED
    BY <2>2, <2>3, <2>5
<1>9. added \in Environment
  BY <1>7, <1>8 DEF Environment
<1>10. \A n \in 1..c : f[n] \in places /\ added[n] = file[f[n]]
  BY <1>4, <1>6
<1>11. ASSUME NEW place \in places
       PROVE  \E n \in DOMAIN added : added[n] = file[place]
  <2>1. PICK n \in 1..c : f[n] = place
    BY <1>1, <1>4
  <2> QED
    BY <1>7, <1>10, <2>1
<1> QED
  BY <1>7, <1>9, <1>10, <1>11

\* What dotenv.config leaves in the environment, name by name.
LEMMA DotenvLookup ==
  ASSUME NEW entries \in Environment, NEW file \in Environment, NEW override \in BOOLEAN,
         NEW after \in Dotenv(entries, file, override)
  PROVE  /\ after \in Environment
         /\ \A v : Lookup(after, v) =
              IF override /\ Lookup(file, v) # Unset THEN Lookup(file, v)
              ELSE IF Lookup(entries, v) # Unset THEN Lookup(entries, v)
              ELSE Lookup(file, v)
<1> DEFINE new == {n \in DOMAIN file : Lookup(entries, file[n].name) = Unset}
           value(e) == IF override /\ Lookup(file, e.name) # Unset THEN Lookup(file, e.name) ELSE e.value
           kept == [n \in DOMAIN entries |-> [entries[n] EXCEPT !.value = value(entries[n])]]
<1>1. PICK added \in Picked(file, new) : after = kept \o added
  BY DEF Dotenv
<1>2. new \in SUBSET DOMAIN file
  OBVIOUS
<1>3. /\ added \in Environment
      /\ \A n \in DOMAIN added : \E place \in new : added[n] = file[place]
      /\ \A place \in new : \E n \in DOMAIN added : added[n] = file[place]
  <2> HIDE DEF new
  <2> QED
    BY <1>1, <1>2, PickedOnce
<1>4. entries \in Seq(EnvEntry) /\ added \in Seq(EnvEntry)
  BY <1>3 DEF Environment
<1>5. PICK c \in Nat : c = Len(entries) /\ DOMAIN entries = 1..c
  BY <1>4
<1>6. PICK d \in Nat : d = Len(added) /\ DOMAIN added = 1..d
  BY <1>4
<1>7. \A v : Lookup(file, v) # Unset => Lookup(file, v) \in Setting \cup {Blank}
  <2> SUFFICES ASSUME NEW v, Lookup(file, v) # Unset
               PROVE  Lookup(file, v) \in Setting \cup {Blank}
    OBVIOUS
  <2>1. PICK n \in DOMAIN file : file[n].name = v
    BY LookupSome
  <2>2. Lookup(file, v) = file[n].value
    BY <2>1, LookupIs
  <2>3. file[n] \in EnvEntry
    BY DEF Environment
  <2> QED
    BY <2>2, <2>3 DEF EnvEntry
<1>8. \A n \in 1..c : /\ kept[n] \in EnvEntry /\ kept[n].name = entries[n].name
                      /\ kept[n].value = value(entries[n])
  <2> SUFFICES ASSUME NEW n \in 1..c
               PROVE  /\ kept[n] \in EnvEntry /\ kept[n].name = entries[n].name
                      /\ kept[n].value = value(entries[n])
    OBVIOUS
  <2>1. PICK e \in EnvEntry : e = entries[n]
    BY <1>4, <1>5
  <2>2. PICK z : z = value(e)
    OBVIOUS
  <2>3. z \in Setting \cup {Blank}
    BY <1>7, <2>1, <2>2 DEF EnvEntry
  <2>4. PICK r : r = [e EXCEPT !.value = z]
    OBVIOUS
  <2>5. r \in EnvEntry /\ r.name = e.name /\ r.value = z
    BY <2>3, <2>4 DEF EnvEntry
  <2>6. kept[n] = r
    BY <1>5, <2>1, <2>2, <2>4
  <2> QED
    BY <2>1, <2>2, <2>5, <2>6
<1>9. kept = [n \in 1..c |-> kept[n]]
  BY <1>5
<1> HIDE DEF kept
<1>10. kept \in Seq(EnvEntry) /\ Len(kept) = c
  <2>1. PICK g : g = [n \in 1..c |-> kept[n]]
    OBVIOUS
  <2>2. \A n \in 1..c : kept[n] \in EnvEntry
    BY <1>8
  <2>3. g \in Seq(EnvEntry) /\ Len(g) = c
    BY <2>1, <2>2
  <2> QED
    BY <1>9, <2>1, <2>3
<1>11. /\ after \in Seq(EnvEntry) /\ DOMAIN after = 1..(c + d)
       /\ \A n \in 1..c : after[n] = kept[n]
       /\ \A n \in 1..d : after[c + n] = added[n]
  <2>1. after \in Seq(EnvEntry) /\ Len(after) = c + d
    BY <1>1, <1>4, <1>6, <1>10, ConcatProperties
  <2>2. \A n \in 1..(c + d) : after[n] = IF n <= c THEN kept[n] ELSE added[n - c]
    BY <1>1, <1>4, <1>6, <1>10, ConcatProperties
  <2>3. \A n \in 1..c : after[n] = kept[n]
    BY <2>2
  <2>4. \A n \in 1..d : after[c + n] = added[n]
    <3> SUFFICES ASSUME NEW n \in 1..d
                 PROVE  after[c + n] = added[n]
      OBVIOUS
    <3>1. c + n \in 1..(c + d) /\ ~(c + n <= c) /\ (c + n) - c = n
      OBVIOUS
    <3> QED
      BY <2>2, <3>1
  <2> QED
    BY <2>1, <2>3, <2>4
<1>12. \A n \in 1..(c + d) : n \in 1..c \/ \E m \in 1..d : n = c + m
  <2> SUFFICES ASSUME NEW n \in 1..(c + d), ~(n \in 1..c)
               PROVE  \E m \in 1..d : n = c + m
    OBVIOUS
  <2>1. n - c \in 1..d /\ n = c + (n - c)
    OBVIOUS
  <2> QED
    BY <2>1
<1>13. \A m \in 1..c, n \in 1..d : kept[m].name # added[n].name
  <2> SUFFICES ASSUME NEW m \in 1..c, NEW n \in 1..d, kept[m].name = added[n].name
               PROVE  FALSE
    OBVIOUS
  <2>1. PICK place \in new : added[n] = file[place]
    BY <1>3, <1>6
  <2>2. Lookup(entries, added[n].name) = Unset
    BY <2>1
  <2>3. Lookup(entries, entries[m].name) # Unset
    BY <1>5, LookupIs
  <2> QED
    BY <1>8, <2>2, <2>3
<1>14. OneValue(after)
  <2> SUFFICES ASSUME NEW m \in 1..(c + d), NEW n \in 1..(c + d), after[m].name = after[n].name
               PROVE  m = n
    BY <1>11 DEF OneValue
  <2>1. CASE m \in 1..c /\ n \in 1..c
    <3>1. entries[m].name = entries[n].name
      BY <1>8, <1>11, <2>1
    <3> QED
      BY <1>5, <2>1, <3>1 DEF Environment, OneValue
  <2>2. ASSUME NEW i \in 1..d, NEW j \in 1..d, m = c + i, n = c + j
        PROVE  m = n
    <3>1. added[i].name = added[j].name
      BY <1>11, <2>2
    <3>2. i = j
      BY <1>3, <1>6, <3>1 DEF Environment, OneValue
    <3> QED
      BY <2>2, <3>2
  <2>3. ASSUME NEW j \in 1..d, m \in 1..c, n = c + j
        PROVE  FALSE
    BY <1>11, <1>13, <2>3
  <2>4. ASSUME NEW i \in 1..d, n \in 1..c, m = c + i
        PROVE  FALSE
    BY <1>11, <1>13, <2>4
  <2> QED
    BY <1>12, <2>1, <2>2, <2>3, <2>4
<1>15. after \in Environment
  BY <1>11, <1>14 DEF Environment
<1>16. ASSUME NEW v
       PROVE  Lookup(after, v) =
                IF override /\ Lookup(file, v) # Unset THEN Lookup(file, v)
                ELSE IF Lookup(entries, v) # Unset THEN Lookup(entries, v)
                ELSE Lookup(file, v)
  <2>1. CASE Lookup(entries, v) # Unset
    <3>1. PICK n \in 1..c : entries[n].name = v
      BY <1>5, <2>1, LookupSome
    <3>2. Lookup(entries, v) = entries[n].value
      BY <1>5, <3>1, LookupIs
    <3>3. after[n].name = v /\ after[n].value = value(entries[n]) /\ n \in DOMAIN after
      BY <1>8, <1>11, <3>1
    <3>4. Lookup(after, v) = after[n].value
      BY <1>15, <3>3, LookupIs
    <3> QED
      BY <2>1, <3>1, <3>2, <3>3, <3>4
  <2>2. CASE Lookup(entries, v) = Unset /\ Lookup(file, v) # Unset
    <3>1. PICK place \in DOMAIN file : file[place].name = v
      BY <2>2, LookupSome
    <3>2. Lookup(file, v) = file[place].value
      BY <3>1, LookupIs
    <3>3. place \in new
      BY <2>2, <3>1
    <3>4. PICK n \in 1..d : added[n] = file[place]
      BY <1>3, <1>6, <3>3
    <3>5. c + n \in DOMAIN after /\ after[c + n] = file[place]
      BY <1>11, <3>4
    <3>6. Lookup(after, v) = file[place].value
      <4>1. PICK k \in DOMAIN after : k = c + n
        BY <3>5
      <4>2. after[k].name = v /\ after[k].value = file[place].value
        BY <3>1, <3>5, <4>1
      <4> QED
        BY <1>15, <4>2, LookupIs
    <3> QED
      BY <2>2, <3>2, <3>6
  <2>3. CASE Lookup(entries, v) = Unset /\ Lookup(file, v) = Unset
    <3>1. ASSUME NEW n \in DOMAIN after, after[n].name = v
          PROVE  FALSE
      <4>1. CASE n \in 1..c
        <5>1. entries[n].name = v
          BY <1>8, <1>11, <3>1, <4>1
        <5> QED
          BY <1>5, <2>3, <4>1, <5>1, LookupIs
      <4>2. ASSUME NEW m \in 1..d, n = c + m
            PROVE  FALSE
        <5>1. PICK place \in new : added[m] = file[place]
          BY <1>3, <1>6
        <5>2. file[place].name = v /\ place \in DOMAIN file
          BY <1>11, <3>1, <4>2, <5>1
        <5> QED
          BY <2>3, <5>2, LookupIs
      <4> QED
        BY <1>11, <1>12, <3>1, <4>1, <4>2
    <3>2. Lookup(after, v) = Unset
      BY <3>1, LookupNone
    <3> QED
      BY <2>3, <3>2
  <2> QED
    BY <2>1, <2>2, <2>3
<1> QED
  BY <1>15, <1>16

LEMMA DotenvKeeps ==
  ASSUME NEW entries \in Environment, NEW file \in Environment,
         NEW after \in Dotenv(entries, file, FALSE)
  PROVE  /\ after \in Environment
         /\ \A v : Lookup(after, v) =
              IF Lookup(entries, v) # Unset THEN Lookup(entries, v) ELSE Lookup(file, v)
<1>1. PICK override \in BOOLEAN : override = FALSE
  OBVIOUS
<1>2. after \in Dotenv(entries, file, override)
  BY <1>1
<1>3. /\ after \in Environment
      /\ \A v : Lookup(after, v) =
           IF override /\ Lookup(file, v) # Unset THEN Lookup(file, v)
           ELSE IF Lookup(entries, v) # Unset THEN Lookup(entries, v)
           ELSE Lookup(file, v)
  BY <1>2, DotenvLookup
<1> QED
  BY <1>1, <1>3

LEMMA DotenvOverrides ==
  ASSUME NEW entries \in Environment, NEW file \in Environment,
         NEW after \in Dotenv(entries, file, TRUE)
  PROVE  /\ after \in Environment
         /\ \A v : Lookup(file, v) # Unset => Lookup(after, v) = Lookup(file, v)
<1>1. PICK override \in BOOLEAN : override = TRUE
  OBVIOUS
<1>2. after \in Dotenv(entries, file, override)
  BY <1>1
<1>3. /\ after \in Environment
      /\ \A v : Lookup(after, v) =
           IF override /\ Lookup(file, v) # Unset THEN Lookup(file, v)
           ELSE IF Lookup(entries, v) # Unset THEN Lookup(entries, v)
           ELSE Lookup(file, v)
  BY <1>2, DotenvLookup
<1> QED
  BY <1>1, <1>3

\* Inductive: the environment of a process that has loaded its configuration holds what
\* the .env file says, except where the environment it was started in had its own word.
ConfigInv ==
  /\ env \in Environment /\ base \in Environment /\ envFile \in EnvFiles
  /\ running /\ fresh =>
       /\ Loads(files, env) /\ served = Merged(files, env)
       /\ \A v : Lookup(envFile, v) # Unset =>
            \/ Lookup(env, v) = Lookup(envFile, v)
            \/ Lookup(base, v) # Unset /\ Lookup(env, v) = Lookup(base, v)

LEMMA EnvironmentsAre == Environments \cup EnvFiles \subseteq Environment
  BY EnvironmentsAssumption DEF Environment

LEMMA ConfigInitInv == ConfigurationInit => ConfigInv
<1>1. <<>> \in Environment
  BY DEF Environment, OneValue
<1> QED
  BY <1>1 DEF ConfigurationInit, ConfigInv

LEMMA ConfigNextInv ==
  ConfigInv /\ [ConfigurationNext]_configurationVars => ConfigInv'
<1> SUFFICES ASSUME ConfigInv, [ConfigurationNext]_configurationVars
             PROVE  ConfigInv'
  OBVIOUS
<1>1. CASE Start
  <2>1. base' \in Environment /\ envFile \in Environment /\ envFile \in EnvFiles
    BY <1>1, EnvironmentsAre DEF Start, ConfigInv
  <2>2. env' \in Dotenv(base', envFile, FALSE)
    BY <1>1 DEF Start
  <2>3. PICK b, e : b = base' /\ e = env'
    OBVIOUS
  <2>4. /\ e \in Environment
        /\ \A v : Lookup(e, v) = IF Lookup(b, v) # Unset THEN Lookup(b, v) ELSE Lookup(envFile, v)
    <3>1. b \in Environment /\ e \in Dotenv(b, envFile, FALSE)
      BY <2>1, <2>2, <2>3
    <3> QED
      BY <2>1, <3>1, DotenvKeeps
  <2>5. /\ envFile' = envFile /\ files' = files /\ running' = Loads(files, e)
        /\ running' => served' = Merged(files, e)
    BY <1>1, <2>3 DEF Start
  <2> QED
    BY <2>1, <2>3, <2>4, <2>5 DEF ConfigInv
<1>2. CASE Stop
  <2>1. <<>> \in Environment
    BY DEF Environment, OneValue
  <2> QED
    BY <1>2, <2>1 DEF Stop, ConfigInv
<1>3. CASE Reload
  <2>1. env \in Environment /\ envFile \in Environment /\ envFile \in EnvFiles
    BY EnvironmentsAre DEF ConfigInv
  <2>2. env' \in Dotenv(env, envFile, TRUE)
    BY <1>3 DEF Reload
  <2>3. PICK e : e = env'
    OBVIOUS
  <2>4. /\ e \in Environment
        /\ \A v : Lookup(envFile, v) # Unset => Lookup(e, v) = Lookup(envFile, v)
    <3>1. e \in Dotenv(env, envFile, TRUE)
      BY <2>2, <2>3
    <3> QED
      BY <2>1, <3>1, DotenvOverrides
  <2>5. /\ envFile' = envFile /\ files' = files /\ base' = base
        /\ fresh' = Loads(files, e)
        /\ fresh' => served' = Merged(files, e)
    BY <1>3, <2>3 DEF Reload
  <2> QED
    BY <2>1, <2>3, <2>4, <2>5 DEF ConfigInv
<1>4. ASSUME NEW n \in DOMAIN files, NEW doc \in Documents, EditFile(n, doc)
      PROVE  ConfigInv'
  BY <1>4 DEF EditFile, ConfigInv
<1>5. ASSUME NEW entries \in EnvFiles, EditEnvFile(entries)
      PROVE  ConfigInv'
  BY <1>5 DEF EditEnvFile, ConfigInv
<1>6. CASE UNCHANGED configurationVars
  BY <1>6 DEF configurationVars, ConfigInv
<1> QED
  BY <1>1, <1>2, <1>3, <1>4, <1>5, <1>6 DEF ConfigurationNext

\* No path of the schema is given by two names.
OneName(entries) ==
  \A v, w \in Variable : v # w /\ PathOf[v] = PathOf[w] =>
    Unset \in {PathOf[v], Lookup(entries, v), Lookup(entries, w)}

LEMMA NamedOnce ==
  ASSUME NEW entries \in Environment, OneName(entries),
         NEW path, path # Unset, NEW n \in Named(entries, path)
  PROVE  Named(entries, path) = {n} /\ Last(entries, path) = entries[n].value
<1>1. \A m \in Named(entries, path) :
        /\ m \in DOMAIN entries /\ m \in Int
        /\ entries[m].name \in Variable /\ PathOf[entries[m].name] = path
        /\ Lookup(entries, entries[m].name) # Unset
  <2> SUFFICES ASSUME NEW m \in Named(entries, path)
               PROVE  /\ m \in DOMAIN entries /\ m \in Int
                      /\ entries[m].name \in Variable /\ PathOf[entries[m].name] = path
                      /\ Lookup(entries, entries[m].name) # Unset
    OBVIOUS
  <2>1. m \in DOMAIN entries /\ PathOf[entries[m].name] = path
    BY DEF Named
  <2>2. entries[m] \in EnvEntry /\ m \in Int
    BY <2>1 DEF Environment
  <2> QED
    BY <2>1, <2>2, LookupIs DEF EnvEntry
<1>2. ASSUME NEW m \in Named(entries, path)
      PROVE  m = n
  <2>1. entries[m].name = entries[n].name
    BY <1>1 DEF OneName
  <2> QED
    BY <1>1, <2>1 DEF Environment, OneValue
<1>3. Named(entries, path) = {n}
  BY <1>2
<1>4. (CHOOSE k \in {n} : \A m \in {n} : m <= k) = n
  BY <1>1
<1> QED
  BY <1>3, <1>4 DEF Last

\* An environment is to the configuration what it answers for each name, as long as no
\* path has two names: the order of its entries tells them apart only then.
LEMMA SameLast ==
  ASSUME NEW e \in Environment, NEW f \in Environment, OneName(e), OneName(f),
         \A v \in Variable : Lookup(e, v) = Lookup(f, v),
         NEW path, path # Unset
  PROVE  /\ Named(e, path) # {} => Named(f, path) # {}
         /\ Last(e, path) = Last(f, path)
<1>1. ASSUME NEW a \in Environment, NEW b \in Environment, OneName(a), OneName(b),
             \A v \in Variable : Lookup(a, v) = Lookup(b, v), NEW n \in Named(a, path)
      PROVE  Named(b, path) # {} /\ Last(a, path) = Last(b, path)
  <2>1. n \in DOMAIN a /\ PathOf[a[n].name] = path /\ a[n].value # Blank
    BY DEF Named
  <2>2. a[n] \in EnvEntry
    BY <2>1, <1>1 DEF Environment
  <2>3. PICK v \in Variable : v = a[n].name
    BY <2>2 DEF EnvEntry
  <2>4. Lookup(a, v) = a[n].value /\ Lookup(a, v) # Unset
    BY <1>1, <2>1, <2>3, LookupIs
  <2>5. Lookup(b, v) = a[n].value /\ Lookup(b, v) # Unset
    BY <1>1, <2>4
  <2>6. PICK m \in DOMAIN b : b[m].name = v
    BY <2>5, LookupSome
  <2>7. b[m].value = a[n].value
    BY <1>1, <2>5, <2>6, LookupIs
  <2>8. m \in Named(b, path)
    BY <2>1, <2>3, <2>6, <2>7 DEF Named
  <2>9. Last(b, path) = b[m].value
    BY <1>1, <2>8, NamedOnce
  <2>10. Last(a, path) = a[n].value
    BY <1>1, NamedOnce
  <2> QED
    BY <2>7, <2>8, <2>9, <2>10
<1>2. CASE Named(e, path) # {}
  BY <1>1, <1>2
<1>3. CASE Named(f, path) # {}
  BY <1>1, <1>3
<1>4. CASE Named(e, path) = {} /\ Named(f, path) = {}
  BY <1>4 DEF Last
<1> QED
  BY <1>2, <1>3, <1>4

LEMMA SameMerged ==
  ASSUME NEW e \in Environment, NEW f \in Environment, OneName(e), OneName(f),
         \A v \in Variable : Lookup(e, v) = Lookup(f, v), NEW docs
  PROVE  Merged(docs, e) = Merged(docs, f) /\ (Loads(docs, e) <=> Loads(docs, f))
<1>1. \A x \in Section, k \in Key :
        /\ Named(e, <<x, k>>) # {} <=> Named(f, <<x, k>>) # {}
        /\ Last(e, <<x, k>>) = Last(f, <<x, k>>)
  <2> SUFFICES ASSUME NEW x \in Section, NEW k \in Key
               PROVE  /\ Named(e, <<x, k>>) # {} <=> Named(f, <<x, k>>) # {}
                      /\ Last(e, <<x, k>>) = Last(f, <<x, k>>)
    OBVIOUS
  <2>1. PICK path \in Section \X Key : path = <<x, k>>
    OBVIOUS
  <2>2. path # Unset
    BY UnsetAssumption
  <2>3. Named(e, path) # {} => Named(f, path) # {}
    BY <2>2, SameLast
  <2>4. Named(f, path) # {} => Named(e, path) # {}
    BY <2>2, SameLast
  <2>5. Last(e, path) = Last(f, path)
    BY <2>2, SameLast
  <2> QED
    BY <2>1, <2>3, <2>4, <2>5
<1>2. ParseEnvVariables(e) = ParseEnvVariables(f)
  <2>1. \A x \in Section :
          (IF \E k \in Key : Named(e, <<x, k>>) # {}
           THEN Object([k \in Key |-> Last(e, <<x, k>>)]) ELSE AbsentSection) =
          (IF \E k \in Key : Named(f, <<x, k>>) # {}
           THEN Object([k \in Key |-> Last(f, <<x, k>>)]) ELSE AbsentSection)
    <3> SUFFICES ASSUME NEW x \in Section
                 PROVE  (IF \E k \in Key : Named(e, <<x, k>>) # {}
                         THEN Object([k \in Key |-> Last(e, <<x, k>>)]) ELSE AbsentSection) =
                        (IF \E k \in Key : Named(f, <<x, k>>) # {}
                         THEN Object([k \in Key |-> Last(f, <<x, k>>)]) ELSE AbsentSection)
      OBVIOUS
    <3>1. [k \in Key |-> Last(e, <<x, k>>)] = [k \in Key |-> Last(f, <<x, k>>)]
      BY <1>1
    <3>2. (\E k \in Key : Named(e, <<x, k>>) # {}) <=> (\E k \in Key : Named(f, <<x, k>>) # {})
      BY <1>1
    <3> QED
      BY <3>1, <3>2
  <2> QED
    BY <2>1 DEF ParseEnvVariables
<1>3. Merged(docs, e) = Merged(docs, f)
  BY <1>2 DEF Merged
<1> QED
  BY <1>3 DEF Loads

\* A process that reloads serves what a new one would serve, for every schema, every set
\* of files and every environment, unless the .env file contradicts what the process was
\* started with, has dropped a variable, or two names stand for one path
\* (configuration.service.ts, constructor and reload).
THEOREM ReloadsAreRestarts == ConfigurationSpec => []ReloadLikeRestart
<1>1. ConfigInv => ReloadLikeRestart
  <2> SUFFICES ASSUME ConfigInv, NEW again \in Dotenv(base, envFile, FALSE),
                      running, fresh,
                      ~\E v \in Variable : Unset \notin {Lookup(base, v), Lookup(envFile, v)}
                                           /\ Lookup(base, v) # Lookup(envFile, v),
                      ~\E v \in Variable : Lookup(env, v) # Lookup(again, v)
                                           /\ Lookup(envFile, v) = Unset,
                      ~\E v, w \in Variable :
                          /\ v # w /\ PathOf[v] = PathOf[w]
                          /\ Unset \notin {PathOf[v], Lookup(env, v), Lookup(env, w)}
               PROVE  Loads(files, again) /\ served = Merged(files, again)
    BY DEF ReloadLikeRestart
  <2>1. env \in Environment /\ base \in Environment /\ envFile \in Environment
    BY EnvironmentsAre DEF ConfigInv
  <2>2. /\ again \in Environment
        /\ \A v : Lookup(again, v) =
             IF Lookup(base, v) # Unset THEN Lookup(base, v) ELSE Lookup(envFile, v)
    BY <2>1, DotenvKeeps
  <2>3. \A v \in Variable : Lookup(env, v) = Lookup(again, v)
    BY <2>2 DEF ConfigInv
  <2>4. OneName(env)
    BY DEF OneName
  <2>5. OneName(again)
    BY <2>3, <2>4 DEF OneName
  <2>6. Merged(files, env) = Merged(files, again) /\ (Loads(files, env) <=> Loads(files, again))
    BY <2>1, <2>2, <2>3, <2>4, <2>5, SameMerged
  <2> QED
    BY <2>6 DEF ConfigInv
<1> QED
  BY <1>1, ConfigInitInv, ConfigNextInv, PTL DEF ConfigurationSpec
=============================================================================
