------------------------------- MODULE Health -------------------------------
(***************************************************************************)
(* GET /health: HealthService of libs-core asks the registered indicators  *)
(* one after another, HealthController of libs-apis answers.  Checks run   *)
(* concurrently, and what an indicator looks at changes while they do.     *)
(***************************************************************************)
EXTENDS Integers, Sequences

CONSTANTS
  Check,       \* concurrent requests
  Indicator,
  NameOf,      \* names of the indicators; two connections of a kind share one
  Outcomes     \* what an indicator may do: be up or down, throw, or hang

LOCAL Outcome == {"up", "down", "throws", "hangs"}
ASSUME OutcomesAssumption == Outcomes \in [Indicator -> (SUBSET Outcome) \ {{}}]

VARIABLES
  indicators,   \* the set of the service, in order of registration
  outcome,      \* what each indicator does when it is asked now
  at,           \* per check, the position it has come to, 0 when there is none
  overall,      \* overallStatus
  components,   \* per check and name, the status put down last
  answer,       \* per check, the last answer: the status code and the statuses by name
  (* auxiliary *)
  asked         \* per check, the statuses its indicators gave

checkVars == <<at, overall, components, answer, asked>>
healthVars == <<indicators, outcome, checkVars>>

Name == {NameOf[i] : i \in Indicator}
Unknown == [n \in Name |-> "unknown"]
NoAnswer == [code |-> 0, statuses |-> Unknown]
NotAsked == [i \in Indicator |-> "unknown"]

HealthInit ==
  /\ indicators = <<>>
  /\ outcome \in [Indicator -> Outcome] /\ \A i \in Indicator : outcome[i] \in Outcomes[i]
  /\ at = [c \in Check |-> 0]
  /\ overall = [c \in Check |-> "up"]
  /\ components = [c \in Check |-> Unknown]
  /\ answer = [c \in Check |-> NoAnswer]
  /\ asked = [c \in Check |-> NotAsked]

\* An indicator that is registered again stays where it is.
RegisterIndicator(i) ==
  /\ \A n \in DOMAIN indicators : indicators[n] # i
  /\ indicators' = Append(indicators, i)
  /\ UNCHANGED <<outcome, checkVars>>

Change(i, o) ==
  /\ o \in Outcomes[i] /\ o # outcome[i]
  /\ outcome' = [outcome EXCEPT ![i] = o]
  /\ UNCHANGED <<indicators, checkVars>>

BeginCheck(c) ==
  /\ at[c] = 0
  /\ at' = [at EXCEPT ![c] = 1]
  /\ overall' = [overall EXCEPT ![c] = "up"]
  /\ components' = [components EXCEPT ![c] = Unknown]
  /\ answer' = [answer EXCEPT ![c] = NoAnswer]
  /\ asked' = [asked EXCEPT ![c] = NotAsked]
  /\ UNCHANGED <<indicators, outcome>>

Pending(c) == at[c] \in DOMAIN indicators

Hangs(c) == Pending(c) /\ outcome[indicators[at[c]]] = "hangs"

\* Mutant: what an indicator throws is put down and does not count.
AwaitIgnoringErrors(c) ==
  LET i == indicators[at[c]]
      status == IF outcome[i] = "up" THEN "up" ELSE "down"
  IN  /\ Pending(c) /\ ~Hangs(c)
      /\ at' = [at EXCEPT ![c] = @ + 1]
      /\ overall' = [overall EXCEPT ![c] = IF outcome[i] = "down" THEN "down" ELSE @]
      /\ components' = [components EXCEPT ![c][NameOf[i]] = status]
      /\ asked' = [asked EXCEPT ![c][i] = status]
      /\ UNCHANGED <<indicators, outcome, answer>>

\* Mutant: an indicator that is down is asked again.
AwaitUntilUp(c) ==
  LET i == indicators[at[c]]
      status == IF outcome[i] = "up" THEN "up" ELSE "down"
  IN  /\ Pending(c) /\ ~Hangs(c)
      /\ at' = [at EXCEPT ![c] = IF status = "up" THEN @ + 1 ELSE @]
      /\ overall' = [overall EXCEPT ![c] = IF status = "down" THEN "down" ELSE @]
      /\ components' = [components EXCEPT ![c][NameOf[i]] = status]
      /\ asked' = [asked EXCEPT ![c][i] = status]
      /\ UNCHANGED <<indicators, outcome, answer>>

\* One indicator answers or throws; an indicator that hangs is waited for.
Await(c) ==
  LET i == indicators[at[c]]
      status == IF outcome[i] = "up" THEN "up" ELSE "down"
  IN  /\ Pending(c) /\ ~Hangs(c)
      /\ at' = [at EXCEPT ![c] = @ + 1]
      /\ overall' = [overall EXCEPT ![c] = IF status = "down" THEN "down" ELSE @]
      /\ components' = [components EXCEPT ![c][NameOf[i]] = status]
      /\ asked' = [asked EXCEPT ![c][i] = status]
      /\ UNCHANGED <<indicators, outcome, answer>>

Answer(c) ==
  /\ at[c] > Len(indicators)
  /\ at' = [at EXCEPT ![c] = 0]
  /\ answer' = [answer EXCEPT ![c] = [code |-> IF overall[c] = "up" THEN 200 ELSE 503,
                                      statuses |-> components[c]]]
  /\ UNCHANGED <<indicators, outcome, overall, components, asked>>

HealthNext ==
  \/ \E i \in Indicator : RegisterIndicator(i) \/ \E o \in Outcome : Change(i, o)
  \/ \E c \in Check : BeginCheck(c) \/ Await(c) \/ Answer(c)

\* Calls under way go on; nobody need ask, and nothing need recover.
HealthFairness == \A c \in Check : WF_healthVars(Await(c) \/ Answer(c))

HealthSpec == HealthInit /\ [][HealthNext]_healthVars /\ HealthFairness

-----------------------------------------------------------------------------
\* An answer is 503 exactly if an indicator asked was down or threw, and then its
\* statuses show it unless indicators share names, as two SqlHealthServices do: the
\* later one's status replaces the earlier one's (health.service.ts, checkAll;
\* health.controller.ts, check).
FaultShown ==
  \A c \in Check :
    answer[c].code # 0 =>
      LET faulty == {i \in Indicator : asked[c][i] = "down"}
      IN  /\ answer[c].code = 503 <=> faulty # {}
          /\ \A i \in faulty : \/ answer[c].statuses[NameOf[i]] = "down"
                               \/ \E j \in Indicator \ {i} : NameOf[j] = NameOf[i]

\* Every check is answered, or comes to an indicator that hangs: there is no timeout
\* and one such indicator keeps the others from being reported (health.service.ts,
\* checkAll; sql-health.service.ts, checkHealth waits for a connection of the pool).
CheckEnds == \A c \in Check : at[c] > 0 ~> (at[c] = 0 \/ Hangs(c))
=============================================================================
