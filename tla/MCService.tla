----------------------------- MODULE MCService -----------------------------
(* For TLC: the retries, with the instance of MCKafkaRetry, and the parts   *)
(* of a service, from its publication to its health, that share no state    *)
(* with the others or with one another.  A behaviour is one of one part, so *)
(* that the state spaces add up instead of multiplying.                     *)
EXTENDS MCKafkaRetry, Configuration, Health, Publish, TLC

CONSTANTS
  database, host, user, x, y, HOST, NESTED_HOST, USER,
  c1, c2, primary, replica, mongo,
  j1, j2, core, apis, aws, typo

MCSection == {database}
MCKey == {host, user}
MCRequired == {<<database, user>>}
MCVariable == {HOST, NESTED_HOST, USER}
MCPathOf == [v \in MCVariable |-> IF v = USER THEN <<database, user>> ELSE <<database, host>>]

Document(h, name) == [s \in MCSection |-> Object((host :> h) @@ (user :> name))]
MCDocuments ==
  {Malformed, [s \in MCSection |-> ScalarSection], Document(x, y), Document(Unset, x), Document(Bad, Unset)}

Set(name, value) == [name |-> name, value |-> value]
MCEnvironments == {<<Set(HOST, y)>>, <<Set(USER, x), Set(HOST, Blank)>>, <<Set(NESTED_HOST, x)>>}
MCEnvFiles ==
  {<<>>, <<Set(HOST, Bad)>>, <<Set(NESTED_HOST, y), Set(HOST, x)>>, <<Set(USER, y)>>,
   <<Set(USER, x), Set(HOST, y)>>}

\* Two SQL connections share the name postgres; the third indicator is one of the
\* application's own, which may throw.
MCIndicator == {primary, replica, mongo}
MCNameOf == (primary :> "postgres") @@ (replica :> "postgres") @@ (mongo :> "mongodb")
MCOutcomes ==
  (primary :> {"up", "down", "hangs"}) @@ (replica :> {"up", "down"}) @@ (mongo :> {"up", "throws"})

MCPackage == {apis, aws, core}
MCDirectories == <<apis, aws, core>>
MCOrder == <<core, apis>>

\* The package.json of aws is broken at one commit, that of the core at the other.
MCBroken == <<{aws}, {core}>>
MCVersionAt == <<[p \in MCPackage |-> 1], [p \in MCPackage |-> IF p = aws THEN 1 ELSE 2]>>

-----------------------------------------------------------------------------
VARIABLE part

ServiceInit ==
  /\ part \in {"retries", "configuration", "health", "publish"}
  /\ Init
  /\ part = "retries" \/ owner = a
  /\ ConfigurationInit
  /\ part = "configuration" \/ (files = <<Malformed, Malformed>> /\ envFile = <<>>)
  /\ HealthInit
  /\ part = "health" \/ outcome = [i \in Indicator |-> "up"]
  /\ PublishInit

ServiceNext ==
  /\ UNCHANGED part
  /\ \/ part = "retries" /\ Next /\ UNCHANGED <<configurationVars, healthVars, publishVars>>
     \/ part = "configuration" /\ ConfigurationNext /\ UNCHANGED <<vars, healthVars, publishVars>>
     \/ part = "health" /\ HealthNext /\ UNCHANGED <<vars, configurationVars, publishVars>>
     \/ part = "publish" /\ PublishNext /\ UNCHANGED <<vars, configurationVars, healthVars>>

\* The fairness of the retries asks nothing of the behaviours of other parts; that of
\* the health checks has nothing to ask as long as no check begins.
ServiceSpec ==
  /\ ServiceInit
  /\ [][ServiceNext]_<<part, vars, configurationVars, healthVars, publishVars>>
  /\ \A c \in Consumer :
       WF_vars(part = "retries" /\ Step(c)) /\ WF_vars(part = "retries" /\ CommitOffset(c))
  /\ HealthFairness
=============================================================================
