--------------------------- MODULE PlatformProofs ---------------------------
(***************************************************************************)
(* The two parts of the platform that work against systems outside of it,  *)
(* the Cognito client and the publication script.  Temporary passwords     *)
(* sign nobody in, challenges are resumed with the session the pool waits  *)
(* for, a session is given up only for a reason, and a successful run has  *)
(* published what it could read, core first: for every set of users,       *)
(* calls, jobs and packages.                                               *)
(***************************************************************************)
EXTENDS Cognito, Publish, FiniteSetTheorems, TLAPS

Status == {"none", "UNCONFIRMED", "CONFIRMED", "FORCE_CHANGE_PASSWORD"}
Pair == Nat \X Nat
Waiting == [name : ChallengeName, session : Nat] \cup {None}
Command == {"none", "GetTokensFromRefreshToken", "InitiateAuth"}
Flight == [user : User \cup {None}, token : Pair \cup {None}, command : Command, hash : BOOLEAN,
           answer : {"none", "tokens", "refused", "lost"}]

Shapes ==
  /\ account \in [User -> [status : Status, enabled : BOOLEAN]]
  /\ accepted \in [User -> SUBSET Pair]
  /\ count \in [User -> Nat]
  /\ since \in [User -> Nat \cup {None}]
  /\ pending \in [User -> Waiting]
  /\ challenge \in [User -> Waiting]
  /\ tokens \in [User -> Pair \cup {None}]
  /\ flight \in [Call -> Flight]
  /\ \A k \in Call : flight[k].answer = "tokens" => flight[k].token \in Pair

OptionsFine == options \in [secret : BOOLEAN, rotates : BOOLEAN, mfa : BOOLEAN, rotation : BOOLEAN]

\* A user who may sign in, or is one message short of it, has chosen the password.
Chosen(u) ==
  /\ account[u].status \in {"UNCONFIRMED", "CONFIRMED"} => since[u] = None
  /\ pending[u] # None /\ pending[u].name = "SMS_MFA" => since[u] = None

\* Who is not there is not signing in.
Nobody(u) == account[u].status = "none" => ~account[u].enabled /\ pending[u] = None

\* Sign-ins are numbered in order, and those of a user whose password is temporary are
\* older than that password.
Numbered(u) ==
  \A token \in accepted[u] : token[1] <= count[u] /\ (since[u] # None => token[1] <= since[u])

Fine(u) == Chosen(u) /\ Nobody(u) /\ Numbered(u)

\* Inductive: the pool grants tokens when a challenge is answered, and what was true of
\* the password when the challenge was posed must still hold then.
CognitoInv == Shapes /\ (\A u \in User : Fine(u)) /\ ChallengeResumable

-----------------------------------------------------------------------------
LEMMA CognitoInitInv == CognitoInit => CognitoInv
<1> SUFFICES ASSUME CognitoInit PROVE CognitoInv
  OBVIOUS
<1>1. Shapes
  BY DEF CognitoInit, Shapes, NoAccount, NoFlight, Status, Waiting, Flight, Command, Pair
<1>2. \A u \in User : Fine(u)
  BY DEF CognitoInit, Fine, Chosen, Nobody, Numbered, NoAccount
<1>3. ChallengeResumable
  BY DEF CognitoInit, ChallengeResumable
<1> QED
  BY <1>1, <1>2, <1>3 DEF CognitoInv

\* A step about one user, which takes tokens or the challenge away or leaves them, and
\* hands out none.
LEMMA AdminInv ==
  ASSUME CognitoInv, NEW u \in User,
         NEW status \in Status, NEW enabled \in BOOLEAN, NEW given \in {since[u], None, count[u]},
         account' = [account EXCEPT ![u] = [status |-> status, enabled |-> enabled]],
         since' = [since EXCEPT ![u] = given],
         accepted' = accepted \/ accepted' = [accepted EXCEPT ![u] = {}],
         pending' = pending \/ (pending' = [pending EXCEPT ![u] = None] /\ u \in behind'),
         behind \subseteq behind', UNCHANGED <<count, tokens, challenge, flight>>,
         status \in {"UNCONFIRMED", "CONFIRMED"} => given = None,
         status = "none" => ~enabled /\ pending'[u] = None,
         given \in {since[u], None} \/ pending'[u] = None
  PROVE  CognitoInv'
<1>1. Shapes'
  <2>1. account' \in [User -> [status : Status, enabled : BOOLEAN]] /\ since' \in [User -> Nat \cup {None}]
    BY DEF CognitoInv, Shapes
  <2>2. accepted' \in [User -> SUBSET Pair] /\ pending' \in [User -> Waiting]
    BY DEF CognitoInv, Shapes, Waiting
  <2> QED
    BY <2>1, <2>2 DEF CognitoInv, Shapes
<1>2. ASSUME NEW v \in User
      PROVE  Fine(v)'
  <2>1. CASE v # u
    <3>1. /\ account'[v] = account[v] /\ since'[v] = since[v] /\ accepted'[v] = accepted[v]
          /\ pending'[v] = pending[v] /\ count'[v] = count[v]
      BY <2>1 DEF CognitoInv, Shapes
    <3> QED
      BY <3>1 DEF CognitoInv, Fine, Chosen, Nobody, Numbered
  <2>2. CASE v = u
    <3>1. /\ account'[v].status = status /\ account'[v].enabled = enabled /\ since'[v] = given
          /\ accepted'[v] \in {accepted[v], {}} /\ pending'[v] \in {pending[v], None}
          /\ count'[v] = count[v]
      BY <2>2 DEF CognitoInv, Shapes
    <3>2. Chosen(v)'
      BY <2>2, <3>1 DEF CognitoInv, Fine, Chosen
    <3>3. Nobody(v)'
      BY <2>2, <3>1 DEF Nobody
    <3>4. Numbered(v)'
      BY <2>2, <3>1 DEF CognitoInv, Fine, Numbered
    <3> QED
      BY <3>2, <3>3, <3>4 DEF Fine
  <2> QED
    BY <2>1, <2>2
<1>3. ChallengeResumable'
  BY DEF CognitoInv, Shapes, ChallengeResumable
<1> QED
  BY <1>1, <1>2, <1>3 DEF CognitoInv

\* A step that leaves the accounts and the challenges, and hands out no sign-in that
\* was not there.
LEMMA QuietInv ==
  ASSUME CognitoInv, Shapes',
         UNCHANGED <<account, since, pending, count, challenge, behind>>,
         \A u \in User : \A token \in accepted'[u] : \E other \in accepted[u] : other[1] = token[1]
  PROVE  CognitoInv'
<1>1. \A u \in User : Fine(u)'
  BY DEF CognitoInv, Fine, Chosen, Nobody, Numbered
<1>2. ChallengeResumable'
  BY DEF CognitoInv, ChallengeResumable
<1> QED
  BY <1>1, <1>2 DEF CognitoInv

\* The pool goes on with a user whose password it has taken.
LEMMA ProceedInv ==
  ASSUME CognitoInv, NEW u \in User, NEW next \in ChallengeName \cup {"tokens"}, Proceed(u, next),
         since' = since \/ since' = [since EXCEPT ![u] = None],
         next \in {"tokens", "SMS_MFA"} => since'[u] = None,
         account' \in [User -> [status : Status, enabled : BOOLEAN]],
         \A v \in User \ {u} : account'[v] = account[v],
         account'[u].status # "none",
         account'[u].status \in {"UNCONFIRMED", "CONFIRMED"} => since'[u] = None
  PROVE  CognitoInv'
<1>1. /\ count' = [count EXCEPT ![u] = @ + 1] /\ flight' = flight
      /\ next = "tokens" => /\ accepted' = [accepted EXCEPT ![u] = @ \cup {<<count'[u], 1>>}]
                            /\ pending' = [pending EXCEPT ![u] = None]
      /\ next # "tokens" => /\ accepted' = accepted
                            /\ pending' = [pending EXCEPT ![u] = [name |-> next, session |-> count'[u]]]
  BY DEF Proceed, Grant, Ask, ChallengeName
<1>2. /\ count' \in [User -> Nat] /\ count'[u] = count[u] + 1
      /\ \A v \in User \ {u} : count'[v] = count[v]
  BY <1>1 DEF CognitoInv, Shapes
<1>3. pending' \in [User -> Waiting] /\ accepted' \in [User -> SUBSET Pair]
  <2>1. CASE next = "tokens"
    <3>1. <<count'[u], 1>> \in Pair
      BY <1>2 DEF Pair
    <3>2. accepted' \in [User -> SUBSET Pair]
      <4> DEFINE after == accepted[u] \cup {<<count'[u], 1>>}
      <4>1. after \in SUBSET Pair
        BY <3>1 DEF CognitoInv, Shapes
      <4>2. accepted' = [accepted EXCEPT ![u] = after]
        BY <1>1, <2>1
      <4> HIDE DEF after
      <4>3. accepted \in [User -> SUBSET Pair]
        BY DEF CognitoInv, Shapes
      <4> QED
        BY <4>1, <4>2, <4>3
    <3>3. pending \in [User -> Waiting] /\ None \in Waiting
      BY DEF CognitoInv, Shapes, Waiting
    <3>4. pending' \in [User -> Waiting]
      BY <1>1, <2>1, <3>3
    <3> QED
      BY <3>2, <3>4
  <2>2. CASE next # "tokens"
    <3>1. next \in ChallengeName /\ count'[u] \in Nat
      BY <1>2, <2>2
    <3>2. PICK posed \in Waiting : posed = [name |-> next, session |-> count'[u]]
      BY <3>1 DEF Waiting
    <3>3. pending' = [pending EXCEPT ![u] = posed] /\ accepted' = accepted
      BY <1>1, <2>2, <3>2
    <3> QED
      BY <3>3 DEF CognitoInv, Shapes
  <2> QED
    BY <2>1, <2>2
<1>4. \/ /\ challenge' = [challenge EXCEPT ![u] = IF next = "tokens" THEN None ELSE pending'[u]]
         /\ behind' = behind \ {u}
      \/ challenge' = challenge /\ behind' = behind \cup {u}
  BY DEF Proceed, Tell, LoseAnswer, Told
<1>5. challenge' \in [User -> Waiting] /\ since' \in [User -> Nat \cup {None}]
  <2>1. challenge' \in [User -> Waiting]
    BY <1>3, <1>4 DEF CognitoInv, Shapes, Waiting
  <2>2. since' \in [User -> Nat \cup {None}]
    BY <1>3 DEF CognitoInv, Shapes
  <2> QED
    BY <2>1, <2>2
<1>6. Shapes'
  <2>1. <<count'[u], 1>> \in Pair
    BY <1>2 DEF Pair
  <2>2. tokens' = tokens \/ tokens' = [tokens EXCEPT ![u] = <<count'[u], 1>>]
    BY DEF Proceed, Tell, LoseAnswer
  <2>3. tokens' \in [User -> Pair \cup {None}]
    BY <2>1, <2>2 DEF CognitoInv, Shapes
  <2> QED
    BY <1>1, <1>2, <1>3, <1>5, <2>3 DEF CognitoInv, Shapes
<1>7. ASSUME NEW v \in User
      PROVE  Fine(v)'
  <2>1. CASE v # u
    <3>1. /\ account'[v] = account[v] /\ since'[v] = since[v] /\ accepted'[v] = accepted[v]
          /\ pending'[v] = pending[v] /\ count'[v] = count[v]
      BY <1>1, <1>2, <2>1 DEF CognitoInv, Shapes
    <3> QED
      BY <3>1 DEF CognitoInv, Fine, Chosen, Nobody, Numbered
  <2>2. CASE v = u
    <3>1. pending'[u] = None \/ (pending'[u].name = next /\ next # "tokens")
      BY <1>1 DEF CognitoInv, Shapes
    <3>2. Chosen(u)'
      BY <3>1 DEF Chosen, ChallengeName
    <3>3. Nobody(u)'
      BY DEF Nobody
    <3>4. Numbered(u)'
      <4>1. CASE next = "tokens"
        <5>1. accepted'[u] = accepted[u] \cup {<<count'[u], 1>>} /\ since'[u] = None
          BY <1>1, <4>1 DEF CognitoInv, Shapes
        <5>2. \A token \in accepted[u] : token[1] \in Nat /\ token[1] <= count[u]
          BY DEF CognitoInv, Fine, Numbered, Shapes, Pair
        <5>3. count[u] \in Nat
          BY DEF CognitoInv, Shapes
        <5> QED
          BY <1>2, <5>1, <5>2, <5>3 DEF Numbered
      <4>2. CASE next # "tokens"
        <5>1. accepted'[u] = accepted[u] /\ since'[u] \in {since[u], None}
          BY <1>1, <4>2 DEF CognitoInv, Shapes
        <5>2. \A token \in accepted[u] : token[1] \in Nat /\ token[1] <= count[u]
          BY DEF CognitoInv, Fine, Numbered, Shapes, Pair
        <5>3. count[u] \in Nat
          BY DEF CognitoInv, Shapes
        <5> QED
          BY <1>2, <5>1, <5>2, <5>3 DEF CognitoInv, Fine, Numbered
      <4> QED
        BY <4>1, <4>2
    <3> QED
      BY <2>2, <3>2, <3>3, <3>4 DEF Fine
  <2> QED
    BY <2>1, <2>2
<1>8. ChallengeResumable'
  BY <1>1, <1>4 DEF CognitoInv, Shapes, ChallengeResumable
<1> QED
  BY <1>6, <1>7, <1>8 DEF CognitoInv

\* A call begun: what it sends is settled by the options, the option given and the name.
LEMMA BegunRefresh ==
  ASSUME Shapes, NEW k \in Call, NEW u \in User, NEW rotation, NEW username \in BOOLEAN,
         BeginRefresh(k, u, rotation, username)
  PROVE  \E refresh \in Flight :
           /\ flight' = [flight EXCEPT ![k] = refresh]
           /\ refresh.user = u /\ refresh.token = tokens[u] /\ refresh.answer = "none"
           /\ refresh.command # "none"
           /\ OptionsFine /\ refresh.command = "InitiateAuth" => refresh.hash = options.secret
<1> DEFINE byToken == RefreshesByToken(rotation, username)
           command == IF byToken THEN "GetTokensFromRefreshToken" ELSE "InitiateAuth"
           hash == ~byToken /\ SecretHash(username)
           refresh == [user |-> u, token |-> tokens[u], answer |-> "none", command |-> command, hash |-> hash]
<1>1. flight' = [flight EXCEPT ![k] = refresh]
  BY DEF BeginRefresh
<1>2. command \in Command \ {"none"} /\ hash \in BOOLEAN
  BY DEF Command, SecretHash
<1>3. OptionsFine /\ command = "InitiateAuth" => hash = options.secret
  BY DEF OptionsFine, RefreshesByToken, SecretHash
<1> HIDE DEF command, hash
<1>4. refresh \in Flight
  BY <1>2 DEF Flight, Shapes
<1> QED
  BY <1>1, <1>2, <1>3, <1>4

\* A call whose answer changes: nothing else of it does.
LEMMA Answered ==
  ASSUME Shapes, NEW k \in Call, NEW given \in {"none", "tokens", "refused", "lost"},
         flight' = [flight EXCEPT ![k].answer = given]
  PROVE  /\ flight' \in [Call -> Flight] /\ flight'[k].answer = given
         /\ flight'[k].user = flight[k].user /\ flight'[k].token = flight[k].token
         /\ flight'[k].command = flight[k].command /\ flight'[k].hash = flight[k].hash
         /\ \A j \in Call \ {k} : flight'[j] = flight[j]
<1>1. flight \in [Call -> Flight] /\ flight[k] \in Flight
  BY DEF Shapes
<1>2. PICK refresh : refresh = [flight[k] EXCEPT !.answer = given]
  OBVIOUS
<1>3. /\ refresh \in Flight /\ refresh.answer = given
      /\ refresh.user = flight[k].user /\ refresh.token = flight[k].token
      /\ refresh.command = flight[k].command /\ refresh.hash = flight[k].hash
  BY <1>1, <1>2 DEF Flight
<1>4. flight' = [flight EXCEPT ![k] = refresh]
  BY <1>2
<1> QED
  BY <1>1, <1>3, <1>4

-----------------------------------------------------------------------------
LEMMA CognitoNextInv == CognitoInv /\ [CognitoNext]_cognitoVars => CognitoInv'
<1> SUFFICES ASSUME CognitoInv, [CognitoNext]_cognitoVars PROVE CognitoInv'
  OBVIOUS
<1> USE DEF cognitoVars, userVars, appVars
<1>1. ASSUME NEW u \in User,
             \/ SignUp(u) \/ ConfirmSignUp(u) \/ ConfirmForgotPassword(u)
             \/ CreateUser(u) \/ DisableUser(u) \/ EnableUser(u)
      PROVE  CognitoInv'
  <2> account[u].status \in Status /\ account[u].enabled \in BOOLEAN
    BY DEF CognitoInv, Shapes
  <2> Chosen(u) /\ Nobody(u)
    BY DEF CognitoInv, Fine
  <2>1. CASE SignUp(u)
    BY <2>1, AdminInv DEF SignUp, Admin, Status, Nobody
  <2>2. CASE ConfirmSignUp(u)
    BY <2>2, AdminInv DEF ConfirmSignUp, Admin, Status, Chosen
  <2>3. CASE ConfirmForgotPassword(u)
    BY <2>3, AdminInv DEF ConfirmForgotPassword, Admin, Status
  <2>4. CASE CreateUser(u)
    BY <2>4, AdminInv DEF CreateUser, Admin, Status, Nobody
  <2>5. CASE EnableUser(u)
    BY <2>5, AdminInv DEF EnableUser, Admin, Status, Chosen
  <2>6. CASE DisableUser(u)
    BY <2>6, AdminInv DEF DisableUser, Admin, Status, Chosen
  <2> QED
    BY <1>1, <2>1, <2>2, <2>3, <2>4, <2>5, <2>6
<1>2. ASSUME NEW u \in User, DeleteUser(u) PROVE CognitoInv'
  <2>1. u \in behind' /\ behind \subseteq behind' /\ pending'[u] = None
    BY <1>2 DEF DeleteUser, Overtake, CognitoInv, Shapes
  <2> QED
    BY <1>2, <2>1, AdminInv DEF DeleteUser, Overtake, Revoke, Admin, Status
<1>3. ASSUME NEW u \in User, NEW permanent \in {None, TRUE, FALSE}, SetUserPassword(u, permanent)
      PROVE  CognitoInv'
  <2>1. u \in behind' /\ behind \subseteq behind' /\ pending'[u] = None
    BY <1>3 DEF SetUserPassword, Overtake, CognitoInv, Shapes
  <2>2. account[u].enabled \in BOOLEAN
    BY DEF CognitoInv, Shapes
  <2>3. CASE permanent = TRUE
    BY <1>3, <2>1, <2>2, <2>3, AdminInv DEF SetUserPassword, Overtake, Admin, Status
  <2>4. CASE permanent # TRUE
    BY <1>3, <2>1, <2>2, <2>4, AdminInv DEF SetUserPassword, Overtake, Admin, Status
  <2> QED
    BY <2>3, <2>4
<1>4. ASSUME NEW u \in User, ChangePassword(u) PROVE CognitoInv'
  <2>1. account' = [account EXCEPT ![u] = [status |-> account[u].status, enabled |-> account[u].enabled]]
    BY <1>4 DEF ChangePassword, CognitoInv, Shapes
  <2>2. account[u].status \in Status /\ account[u].enabled \in BOOLEAN /\ account[u].status # "none"
    BY <1>4 DEF ChangePassword, Working, CognitoInv, Shapes
  <2> QED
    BY <1>4, <2>1, <2>2, AdminInv DEF ChangePassword
<1>5. ASSUME NEW u \in User, ForgotPassword(u) \/ AdminSignOut(u) \/ SignOut(u) PROVE CognitoInv'
  <2>1. /\ UNCHANGED <<account, since, pending, count, challenge, behind, flight>>
        /\ accepted' = accepted \/ accepted' = [accepted EXCEPT ![u] = {}]
    BY <1>5 DEF ForgotPassword, AdminSignOut, SignOut, Revoke
  <2>4. tokens' \in [User -> Pair \cup {None}]
    BY <1>5 DEF ForgotPassword, AdminSignOut, SignOut, CognitoInv, Shapes
  <2>2. Shapes'
    BY <2>1, <2>4 DEF CognitoInv, Shapes
  <2>3. \A v \in User : accepted'[v] \subseteq accepted[v]
    BY <2>1 DEF CognitoInv, Shapes
  <2> QED
    BY <2>1, <2>2, <2>3, QuietInv
<1>6. ASSUME NEW u \in User, SignIn(u) PROVE CognitoInv'
  <2> DEFINE next == IF Working(u) THEN AfterPassword ELSE "NEW_PASSWORD_REQUIRED"
  <2>1. next \in ChallengeName \cup {"tokens"} /\ Proceed(u, next) /\ UNCHANGED <<account, since>>
    BY <1>6 DEF SignIn, AfterPassword, ChallengeName
  <2>2. Chosen(u) /\ Nobody(u)
    BY DEF CognitoInv, Fine
  <2>3. next \in {"tokens", "SMS_MFA"} => since[u] = None
    BY <2>2 DEF Working, Chosen
  <2>4. account \in [User -> [status : Status, enabled : BOOLEAN]] /\ account[u].status # "none"
    BY <1>6, <2>2 DEF SignIn, Nobody, CognitoInv, Shapes
  <2> HIDE DEF next
  <2> QED
    BY <2>1, <2>2, <2>3, <2>4, ProceedInv DEF Chosen
<1>7. ASSUME NEW u \in User, NEW username \in BOOLEAN, RespondToChallenge(u, username) PROVE CognitoInv'
  <2>1. Chosen(u) /\ Nobody(u)
    BY DEF CognitoInv, Fine
  <2>2. account \in [User -> [status : Status, enabled : BOOLEAN]]
    BY DEF CognitoInv, Shapes
  <2>3. pending[u] # None /\ account[u].status # "none"
    BY <1>7, <2>1 DEF RespondToChallenge, Nobody
  <2>4. CASE challenge[u].name = "SMS_MFA"
    <3>1. Proceed(u, "tokens") /\ UNCHANGED <<account, since>> /\ since[u] = None
      BY <1>7, <2>1, <2>4 DEF RespondToChallenge, Chosen
    <3> QED
      BY <2>2, <2>3, <3>1, ProceedInv
  <2>5. CASE challenge[u].name # "SMS_MFA"
    <3>1. Proceed(u, AfterPassword) /\ Admin(u, "CONFIRMED", TRUE, None)
      BY <1>7, <2>5 DEF RespondToChallenge
    <3>2. AfterPassword \in ChallengeName \cup {"tokens"}
      BY DEF AfterPassword, ChallengeName
    <3>3. /\ account' \in [User -> [status : Status, enabled : BOOLEAN]]
          /\ \A v \in User \ {u} : account'[v] = account[v]
          /\ account'[u].status # "none" /\ since'[u] = None
      BY <2>2, <3>1 DEF Admin, Status, CognitoInv, Shapes
    <3> QED
      BY <3>1, <3>2, <3>3, ProceedInv DEF Admin
  <2> QED
    BY <2>4, <2>5
<1>8. ASSUME NEW k \in Call, NEW u \in User, NEW rotation \in {None, TRUE, FALSE}, NEW username \in BOOLEAN,
             BeginRefresh(k, u, rotation, username)
      PROVE  CognitoInv'
  <2>1. PICK refresh \in Flight : flight' = [flight EXCEPT ![k] = refresh] /\ refresh.answer = "none"
    BY <1>8, BegunRefresh DEF CognitoInv
  <2>2. flight' \in [Call -> Flight] /\ \A c \in Call : flight'[c] = flight[c] \/ flight'[c] = refresh
    BY <2>1 DEF CognitoInv, Shapes
  <2>3. UNCHANGED <<options, account, accepted, pending, count, since, tokens, challenge, behind>>
    BY <1>8 DEF BeginRefresh
  <2>4. Shapes'
    BY <2>1, <2>2, <2>3 DEF CognitoInv, Shapes
  <2> QED
    BY <2>3, <2>4, QuietInv
<1>9. ASSUME NEW k \in Call, PoolRefreshes(k) PROVE CognitoInv'
  <2> DEFINE u == flight[k].user
             token == flight[k].token
             result == IF Accepts(flight[k]) THEN "tokens" ELSE "refused"
  <2>1. u \in User /\ flight[k] \in Flight /\ accepted[u] \subseteq Pair
    BY <1>9 DEF PoolRefreshes, CognitoInv, Shapes, Flight
  <2>2. /\ flight' = [flight EXCEPT ![k].answer = result]
        /\ UNCHANGED <<account, since, pending, count, tokens, challenge, behind>>
    BY <1>9 DEF PoolRefreshes
  <2>3. /\ flight' \in [Call -> Flight]
        /\ flight'[k].answer = result /\ flight'[k].token = token
        /\ \A c \in Call \ {k} : flight'[c] = flight[c]
    <3>1. PICK given \in {"none", "tokens", "refused", "lost"} : given = result
      OBVIOUS
    <3>2. flight' = [flight EXCEPT ![k].answer = given] /\ Shapes
      BY <2>2, <3>1 DEF CognitoInv
    <3> HIDE DEF result
    <3> QED
      BY <3>1, <3>2, Answered
  <2>4. CASE Accepts(flight[k])
    <3>1. token \in accepted[u] /\ token \in Pair
      BY <2>1, <2>4 DEF Accepts
    <3>2. Rotated(token) \in Pair /\ Rotated(token)[1] = token[1]
      BY <3>1 DEF Rotated, Pair
    <3>3. accepted' = [accepted EXCEPT ![u] = (@ \ {token}) \cup {Rotated(token)}]
      BY <1>9, <2>4 DEF PoolRefreshes
    <3> HIDE DEF u, token, result
    <3>4. accepted' \in [User -> SUBSET Pair]
      BY <2>1, <3>2, <3>3 DEF CognitoInv, Shapes
    <3>5. \A v \in User : \A t \in accepted'[v] : \E other \in accepted[v] : other[1] = t[1]
      BY <2>1, <3>1, <3>2, <3>3 DEF CognitoInv, Shapes
    <3>6. Shapes'
      BY <2>2, <2>3, <3>1, <3>4 DEF CognitoInv, Shapes
    <3> QED
      BY <2>2, <3>5, <3>6, QuietInv
  <2>5. CASE ~Accepts(flight[k])
    <3>1. accepted' = accepted /\ flight'[k].answer = "refused"
      BY <1>9, <2>3, <2>5 DEF PoolRefreshes
    <3>2. Shapes'
      BY <2>2, <2>3, <3>1 DEF CognitoInv, Shapes
    <3> QED
      BY <2>2, <3>1, <3>2, QuietInv
  <2> QED
    BY <2>4, <2>5
<1>10. ASSUME NEW k \in Call, RefreshLost(k) \/ EndRefresh(k) PROVE CognitoInv'
  <2>1. flight[k] \in Flight
    BY DEF CognitoInv, Shapes
  <2>2. CASE RefreshLost(k)
    <3>1. /\ flight' \in [Call -> Flight] /\ flight'[k].answer = "lost"
          /\ \A c \in Call \ {k} : flight'[c] = flight[c]
      BY <2>2, Answered DEF RefreshLost, CognitoInv
    <3>2. Shapes'
      BY <2>2, <3>1 DEF RefreshLost, userVars, CognitoInv, Shapes
    <3> QED
      BY <2>2, <3>2, QuietInv DEF RefreshLost, userVars
  <2>3. CASE EndRefresh(k)
    <3>1. /\ flight' \in [Call -> Flight] /\ flight'[k].answer = "none"
          /\ \A c \in Call \ {k} : flight'[c] = flight[c]
      BY <2>3 DEF EndRefresh, NoFlight, CognitoInv, Shapes, Flight, Command
    <3>2. flight[k].answer = "tokens" => Refreshed(flight[k].token) \in Pair
      BY <2>1 DEF Refreshed, Rotated, Pair, CognitoInv, Shapes
    <3>3. tokens' \in [User -> Pair \cup {None}]
      <4> DEFINE u == flight[k].user
      <4>1. PICK value : /\ tokens' = [tokens EXCEPT ![u] = value]
                         /\ value \in {None, tokens[u]} \/ value \in Pair
        BY <2>3, <3>2 DEF EndRefresh
      <4> QED
        BY <4>1 DEF CognitoInv, Shapes
    <3>4. Shapes'
      BY <2>3, <3>1, <3>3 DEF EndRefresh, userVars, CognitoInv, Shapes
    <3> QED
      BY <2>3, <3>4, QuietInv DEF EndRefresh, userVars
  <2> QED
    BY <1>10, <2>2, <2>3
<1>11. CASE UNCHANGED cognitoVars
  BY <1>11 DEF CognitoInv, Shapes, Fine, Chosen, Nobody, Numbered, ChallengeResumable
<1> QED
  BY <1>1, <1>2, <1>3, <1>4, <1>5, <1>6, <1>7, <1>8, <1>9, <1>10, <1>11 DEF CognitoNext

\* Sign-ins that are newer than a temporary password belong to nobody.
THEOREM TemporaryPasswordsSignNobodyIn == CognitoSpec => []TemporaryNeverSuffices
<1>1. CognitoInv => TemporaryNeverSuffices
  BY DEF CognitoInv, Fine, Numbered, TemporaryNeverSuffices
<1> QED
  BY <1>1, CognitoInitInv, CognitoNextInv, PTL DEF CognitoSpec

\* The challenge an application was told to answer is the one the pool waits for.
THEOREM ChallengesAreResumable == CognitoSpec => []ChallengeResumable
<1>1. CognitoInv => ChallengeResumable
  BY DEF CognitoInv
<1> QED
  BY <1>1, CognitoInitInv, CognitoNextInv, PTL DEF CognitoSpec

-----------------------------------------------------------------------------
\* A refresh of the token the application keeps that was answered with its successor.
Underway(u) == \E k \in Call : Refreshing(k, u) /\ flight[k].answer = "tokens"

\* The pool accepts the token the application keeps or, once a call has rotated it, the
\* successor that call brings.  A call may then be refused, or if it asked for no rotation.
SessionFine(u) ==
  tokens[u] # None /\ u \notin excused =>
    /\ account[u].enabled
    /\ tokens[u] \in accepted[u] \/ Underway(u)
    /\ \A k \in Call : Refreshing(k, u) =>
         /\ flight[k].answer = "tokens" => Rotated(flight[k].token) \in accepted[u]
         /\ flight[k].answer = "refused" =>
              options.rotates /\ (Underway(u) \/ flight[k].command = "InitiateAuth")

\* No call refreshes a token that is newer than the one the application keeps.
Generations(u) ==
  /\ tokens[u] # None => tokens[u][1] <= count[u]
  /\ \A k \in Call : flight[k] # NoFlight /\ flight[k].user = u =>
       /\ flight[k].token \in Pair /\ flight[k].token[1] <= count[u]
       /\ tokens[u] # None /\ tokens[u][1] = flight[k].token[1] => flight[k].token[2] <= tokens[u][2]

\* A call that does not refresh by the token has the hash, if the client has a secret.
Addressed(k) ==
  flight[k] # NoFlight => /\ flight[k].command \in {"GetTokensFromRefreshToken", "InitiateAuth"}
                          /\ flight[k].command = "InitiateAuth" => flight[k].hash = options.secret

\* Inductive: what the pool will say of the token depends on every call under way with
\* it, on what was lost, and on the client rotating tokens or not.
SessionInv ==
  /\ CognitoInv /\ OptionsFine
  /\ \A k \in Call : Addressed(k)
  /\ \A u \in User : SessionFine(u) /\ Generations(u)

\* A step that hands out no token, calls no refresh and ends none: it leaves the session,
\* or the user is excused.
LEMMA AsideFine ==
  ASSUME SessionInv, CognitoInv', UNCHANGED <<options, flight>>,
         NEW u \in User, tokens'[u] = tokens[u], count[u] <= count'[u], u \in excused => u \in excused',
         u \notin excused' => /\ account[u].enabled => account'[u].enabled
                             /\ accepted[u] \subseteq accepted'[u]
  PROVE  SessionFine(u)' /\ Generations(u)'
<1>1. SessionFine(u) /\ Generations(u)
  BY DEF SessionInv
<1>2. SessionFine(u)'
  BY <1>1 DEF SessionFine, Refreshing, Underway, Rotated
<1>3. count[u] \in Nat /\ count'[u] \in Nat /\ tokens[u] \in Pair \cup {None}
  BY DEF SessionInv, CognitoInv, Shapes
<1>4. Generations(u)'
  <2>1. ASSUME tokens[u] # None
        PROVE  tokens[u][1] <= count'[u]
    BY <1>1, <1>3, <2>1 DEF Generations, Pair
  <2>2. ASSUME NEW k \in Call, flight[k] # NoFlight, flight[k].user = u
        PROVE  /\ flight[k].token \in Pair /\ flight[k].token[1] <= count'[u]
               /\ tokens[u] # None /\ tokens[u][1] = flight[k].token[1] => flight[k].token[2] <= tokens[u][2]
    BY <1>1, <1>3, <2>2 DEF Generations, Pair
  <2> QED
    BY <2>1, <2>2 DEF Generations
<1> QED
  BY <1>2, <1>4

\* A sign-in the application is told of: its token is newer than every one under way.
LEMMA SignedInFine ==
  ASSUME SessionInv, CognitoInv', UNCHANGED <<options, flight>>,
         NEW u \in User, count' = [count EXCEPT ![u] = @ + 1],
         tokens' = [tokens EXCEPT ![u] = <<count'[u], 1>>],
         <<count'[u], 1>> \in accepted'[u], account'[u].enabled
  PROVE  SessionFine(u)' /\ Generations(u)'
<1>1. count[u] \in Nat /\ count'[u] = count[u] + 1 /\ tokens'[u] = <<count[u] + 1, 1>>
  BY DEF SessionInv, CognitoInv, Shapes
<1>2. ASSUME NEW k \in Call, flight[k] # NoFlight, flight[k].user = u
      PROVE  /\ flight[k].token \in Pair
             /\ flight[k].token[1] <= count[u] /\ flight[k].token[1] \in Nat
  BY <1>2 DEF SessionInv, Generations, Pair
<1>3. ASSUME NEW k \in Call, Refreshing(k, u)'
      PROVE  flight'[k].answer = "none"
  <2>1. flight[k] = NoFlight
    BY <1>1, <1>2, <1>3 DEF Refreshing
  <2> QED
    BY <2>1 DEF NoFlight
<1>4. SessionFine(u)'
  BY <1>1, <1>3 DEF SessionFine
<1>5. Generations(u)'
  <2>1. tokens'[u][1] <= count'[u]
    BY <1>1
  <2>2. ASSUME NEW k \in Call, flight[k] # NoFlight, flight[k].user = u
        PROVE  /\ flight[k].token \in Pair /\ flight[k].token[1] <= count'[u]
               /\ tokens'[u][1] # flight[k].token[1]
    BY <1>1, <1>2, <2>2
  <2> QED
    BY <2>1, <2>2 DEF Generations
<1> QED
  BY <1>4, <1>5

LEMMA BeginRefreshFine ==
  ASSUME SessionInv, CognitoInv', NEW k \in Call, NEW w \in User, NEW rotation, NEW username \in BOOLEAN,
         BeginRefresh(k, w, rotation, username), NEW u \in User
  PROVE  SessionFine(u)' /\ Generations(u)'
<1>0. PICK refresh \in Flight :
        /\ flight' = [flight EXCEPT ![k] = refresh]
        /\ refresh.user = w /\ refresh.token = tokens[w] /\ refresh.answer = "none"
  BY BegunRefresh DEF SessionInv, CognitoInv
<1>1. /\ flight[k] = NoFlight /\ tokens[w] # None
      /\ UNCHANGED <<options, account, accepted, count, tokens, excused>>
  BY DEF BeginRefresh, userVars, appVars
<1>2. /\ flight'[k].user = w /\ flight'[k].token = tokens[w] /\ flight'[k].answer = "none"
      /\ \A j \in Call \ {k} : flight'[j] = flight[j]
  BY <1>0 DEF SessionInv, CognitoInv, Shapes
<1>3. SessionFine(u) /\ Generations(u) /\ Generations(w)
  BY DEF SessionInv
<1>4. \A j \in Call : flight'[j].answer # "none" => flight'[j] = flight[j]
  BY <1>2
<1>5. Underway(u) => Underway(u)'
  BY <1>1, <1>2 DEF Underway, Refreshing, NoFlight
<1>6. SessionFine(u)'
  BY <1>1, <1>3, <1>4, <1>5 DEF SessionFine, Refreshing, Rotated
<1>7. Generations(u)'
  <2>1. ASSUME NEW j \in Call, flight'[j] # NoFlight, flight'[j].user = u
        PROVE  /\ flight'[j].token \in Pair /\ flight'[j].token[1] <= count[u]
               /\ tokens[u] # None /\ tokens[u][1] = flight'[j].token[1] => flight'[j].token[2] <= tokens[u][2]
    <3>1. CASE j = k
      <4>1. tokens[w] \in Pair /\ u = w
        BY <1>1, <1>2, <2>1, <3>1 DEF SessionInv, CognitoInv, Shapes
      <4>2. tokens[w][2] \in Nat
        BY <4>1 DEF Pair
      <4> QED
        BY <1>1, <1>2, <1>3, <3>1, <4>1, <4>2 DEF Generations
    <3>2. CASE j # k
      BY <1>2, <1>3, <2>1, <3>2 DEF Generations
    <3> QED
      BY <3>1, <3>2
  <2> QED
    BY <1>1, <1>3, <2>1 DEF Generations
<1> QED
  BY <1>6, <1>7

\* A step that changes one call under way, and no token.
LEMMA AnswerGenerations ==
  ASSUME SessionInv, UNCHANGED <<tokens, count>>, NEW k \in Call, flight[k] # NoFlight,
         NEW given \in {"none", "tokens", "refused", "lost"},
         flight' = [flight EXCEPT ![k].answer = given], NEW u \in User
  PROVE  Generations(u)'
<1>1. /\ flight'[k].user = flight[k].user /\ flight'[k].token = flight[k].token
      /\ \A j \in Call \ {k} : flight'[j] = flight[j]
  BY Answered DEF SessionInv, CognitoInv
<1>2. Generations(u)
  BY DEF SessionInv
<1>3. \A j \in Call : flight'[j] # NoFlight /\ flight'[j].user = u =>
                        flight[j] # NoFlight /\ flight[j].user = u /\ flight'[j].token = flight[j].token
  BY <1>1
<1> QED
  BY <1>2, <1>3 DEF Generations

\* The pool takes the token a call brings, or the call is one too many.
LEMMA PoolRefreshesFine ==
  ASSUME SessionInv, CognitoInv', NEW k \in Call, PoolRefreshes(k), NEW u \in User
  PROVE  SessionFine(u)' /\ Generations(u)'
<1> DEFINE w == flight[k].user
           token == flight[k].token
           taken == Accepts(flight[k])
<1>1. /\ flight[k].answer \in {"none", "lost"} /\ w # None
      /\ UNCHANGED <<options, account, count, tokens, excused>>
      /\ flight' = [flight EXCEPT ![k].answer = IF taken THEN "tokens" ELSE "refused"]
      /\ accepted' = IF taken THEN [accepted EXCEPT ![w] = (@ \ {token}) \cup {Rotated(token)}] ELSE accepted
  BY DEF PoolRefreshes, appVars
<1>2. flight[k] # NoFlight
  BY <1>1 DEF NoFlight
<1>3. Generations(u)'
  BY <1>1, <1>2, AnswerGenerations
<1>4. /\ flight'[k].user = w /\ flight'[k].token = token /\ flight'[k].command = flight[k].command
      /\ flight'[k].answer = IF taken THEN "tokens" ELSE "refused"
      /\ \A j \in Call \ {k} : flight'[j] = flight[j]
  <2>1. PICK given \in {"none", "tokens", "refused", "lost"} : given = IF taken THEN "tokens" ELSE "refused"
    OBVIOUS
  <2>2. flight' = [flight EXCEPT ![k].answer = given] /\ Shapes
    BY <1>1, <2>1 DEF SessionInv, CognitoInv
  <2> HIDE DEF taken, w, token
  <2>3. /\ flight'[k].user = flight[k].user /\ flight'[k].token = flight[k].token
        /\ flight'[k].command = flight[k].command /\ flight'[k].answer = given
        /\ \A j \in Call \ {k} : flight'[j] = flight[j]
    BY <2>2, Answered
  <2> QED
    BY <2>1, <2>3 DEF w, token
<1>5. SessionFine(u) /\ Generations(u)
  BY DEF SessionInv
<1>6. w \in User
  BY <1>1 DEF SessionInv, CognitoInv, Shapes, Flight
<1>7. Underway(u) => Underway(u)'
  BY <1>1, <1>4 DEF Underway, Refreshing
<1> HIDE DEF w, token, taken
<1>8. SessionFine(u)'
  <2> SUFFICES ASSUME tokens[u] # None, u \notin excused PROVE SessionFine(u)'
    BY <1>1 DEF SessionFine
  <2>1. account[u].enabled /\ (tokens[u] \in accepted[u] \/ Underway(u))
    BY <1>5 DEF SessionFine
  <2>2. tokens[u] \in Pair
    BY DEF SessionInv, CognitoInv, Shapes
  <2>3. CASE w # u
    <3>1. accepted'[u] = accepted[u]
      BY <1>1, <2>3 DEF SessionInv, CognitoInv, Shapes
    <3>2. \A j \in Call : Refreshing(j, u)' => Refreshing(j, u) /\ flight'[j] = flight[j]
      BY <1>1, <1>4, <2>3 DEF Refreshing
    <3> QED
      BY <1>1, <1>5, <1>7, <3>1, <3>2 DEF SessionFine, Rotated
  <2>4. CASE w = u /\ taken
    <3>1. accepted'[u] = (accepted[u] \ {token}) \cup {Rotated(token)}
      BY <1>1, <2>4 DEF SessionInv, CognitoInv, Shapes
    <3>2. tokens[u] \in accepted'[u] \/ Underway(u)'
      <4>1. CASE tokens[u] = token
        BY <1>1, <1>4, <2>4, <4>1 DEF Underway, Refreshing
      <4>2. CASE tokens[u] # token
        BY <1>7, <2>1, <3>1, <4>2
      <4> QED
        BY <4>1, <4>2
    <3>3. ASSUME NEW j \in Call, Refreshing(j, u)', flight'[j].answer = "tokens"
          PROVE  Rotated(flight[j].token)' \in accepted'[u]
      <4>1. flight'[j].token = tokens[u] /\ Rotated(flight[j].token)' = Rotated(tokens[u])
        BY <1>1, <3>3 DEF Refreshing, Rotated
      <4>2. CASE j = k
        BY <1>4, <3>1, <4>1, <4>2
      <4>3. CASE j # k
        <5>1. Rotated(tokens[u]) \in accepted[u]
          BY <1>1, <1>4, <1>5, <3>3, <4>1, <4>3 DEF SessionFine, Refreshing
        <5>2. token = Rotated(tokens[u]) => Rotated(token) = token
          <6>1. token \in Pair /\ (tokens[u][1] = token[1] => token[2] <= tokens[u][2])
            BY <1>2, <1>5, <2>4 DEF Generations, w, token
          <6> QED
            BY <2>2, <6>1 DEF Rotated, Pair
        <5> QED
          BY <3>1, <4>1, <5>1, <5>2
      <4> QED
        BY <4>2, <4>3
    <3>4. ASSUME NEW j \in Call, Refreshing(j, u)', flight'[j].answer = "refused"
          PROVE  options.rotates /\ (Underway(u)' \/ flight'[j].command = "InitiateAuth")
      <4>1. j # k /\ flight'[j] = flight[j]
        BY <1>4, <2>4, <3>4
      <4> QED
        BY <1>1, <1>5, <1>7, <3>4, <4>1 DEF SessionFine, Refreshing
    <3> QED
      BY <1>1, <2>1, <3>2, <3>3, <3>4 DEF SessionFine
  <2>5. CASE w = u /\ ~taken
    <3>1. accepted' = accepted
      BY <1>1, <2>5
    <3>2. ASSUME tokens[u] = token
          PROVE  options.rotates /\ (Underway(u) \/ flight[k].command = "InitiateAuth")
      <4>1. CASE token \notin accepted[u]
        <5>1. Underway(u)
          BY <2>1, <3>2, <4>1
        <5>2. Rotated(token) \in accepted[u]
          BY <1>5, <3>2, <5>1 DEF Underway, SessionFine, Refreshing
        <5> QED
          BY <4>1, <5>1, <5>2 DEF Rotated
      <4>2. CASE token \in accepted[u]
        <5>1. /\ flight[k].command # "GetTokensFromRefreshToken"
              /\ options.rotates \/ ~(options.secret => flight[k].hash)
          BY <2>1, <2>5, <4>2 DEF Accepts, taken, token, w
        <5>2. /\ flight[k].command \in {"GetTokensFromRefreshToken", "InitiateAuth"}
              /\ flight[k].command = "InitiateAuth" => flight[k].hash = options.secret
          BY <1>2 DEF SessionInv, Addressed
        <5> QED
          BY <5>1, <5>2
      <4> QED
        BY <4>1, <4>2
    <3>3. ASSUME NEW j \in Call, Refreshing(j, u)', flight'[j].answer = "tokens"
          PROVE  Rotated(flight[j].token)' \in accepted'[u]
      <4>1. j # k /\ flight'[j] = flight[j]
        BY <1>4, <2>5, <3>3
      <4>2. Rotated(flight[j].token) \in accepted[u]
        BY <1>1, <1>5, <3>3, <4>1 DEF SessionFine, Refreshing
      <4> QED
        BY <1>1, <3>1, <4>1, <4>2 DEF Rotated
    <3>4. ASSUME NEW j \in Call, Refreshing(j, u)', flight'[j].answer = "refused"
          PROVE  options.rotates /\ (Underway(u)' \/ flight'[j].command = "InitiateAuth")
      <4>1. CASE j = k
        BY <1>1, <1>4, <1>7, <3>2, <3>4, <4>1 DEF Refreshing
      <4>2. CASE j # k
        BY <1>1, <1>4, <1>5, <1>7, <3>4, <4>2 DEF SessionFine, Refreshing
      <4> QED
        BY <4>1, <4>2
    <3> QED
      BY <1>1, <1>7, <2>1, <3>1, <3>3, <3>4 DEF SessionFine
  <2> QED
    BY <2>3, <2>4, <2>5
<1> QED
  BY <1>3, <1>8

\* A lost answer leaves a token the pool still accepts, or excuses the user.
LEMMA RefreshLostFine ==
  ASSUME SessionInv, CognitoInv', NEW k \in Call, RefreshLost(k), NEW u \in User
  PROVE  SessionFine(u)' /\ Generations(u)'
<1>1. /\ flight[k].answer \in {"tokens", "refused"}
      /\ flight' = [flight EXCEPT ![k].answer = "lost"]
      /\ UNCHANGED <<options, account, accepted, count, tokens>>
      /\ excused \subseteq excused'
      /\ options.rotates /\ flight[k].answer = "tokens" => flight[k].user \in excused'
  BY DEF RefreshLost, userVars
<1>2. flight[k] # NoFlight
  BY <1>1 DEF NoFlight
<1>3. Generations(u)'
  BY <1>1, <1>2, AnswerGenerations
<1>4. /\ flight'[k].answer = "lost" /\ flight'[k].user = flight[k].user
      /\ \A j \in Call \ {k} : flight'[j] = flight[j]
  BY <1>1, Answered DEF SessionInv, CognitoInv
<1>5. SessionFine(u)'
  <2> SUFFICES ASSUME tokens[u] # None, u \notin excused' PROVE SessionFine(u)'
    BY <1>1 DEF SessionFine
  <2>1. SessionFine(u) /\ u \notin excused
    BY <1>1 DEF SessionInv
  <2>2. \A j \in Call : Refreshing(j, u)' /\ flight'[j].answer \in {"tokens", "refused"} =>
                          Refreshing(j, u) /\ flight'[j] = flight[j]
    BY <1>1, <1>4 DEF Refreshing
  <2>3. CASE options.rotates
    <3>1. Underway(u) => Underway(u)'
      BY <1>1, <1>4, <2>3 DEF Underway, Refreshing
    <3> QED
      BY <1>1, <2>1, <2>2, <3>1 DEF SessionFine, Rotated
  <2>4. CASE ~options.rotates
    <3>1. tokens[u] \in accepted[u]
      BY <2>1, <2>4 DEF SessionFine, Underway, Refreshing, Rotated
    <3> QED
      BY <1>1, <2>1, <2>2, <2>4, <3>1 DEF SessionFine, Rotated
  <2> QED
    BY <2>3, <2>4
<1> QED
  BY <1>3, <1>5

\* A call answered with the next token is under way beside the one that ends, or the one
\* that ends asked a client that rotates for no rotation.
GivenUp(u) ==
  \/ \E k \in Call : Refreshing(k, u) /\ flight[k].answer = "tokens" /\ flight'[k] = flight[k]
  \/ options.rotates /\ \E k \in Call :
       Refreshing(k, u) /\ flight[k].command = "InitiateAuth" /\ flight'[k] # flight[k]

\* A call comes back: the application keeps its token, or gives the session up.
LEMMA EndRefreshFine ==
  ASSUME SessionInv, CognitoInv', NEW k \in Call, EndRefresh(k), NEW u \in User
  PROVE  /\ SessionFine(u)' /\ Generations(u)'
         /\ tokens[u] # None /\ tokens'[u] = None /\ u \notin excused => GivenUp(u)
<1> DEFINE w == flight[k].user
           token == flight[k].token
<1>1. /\ flight[k].answer \in {"tokens", "refused", "lost"}
      /\ flight' = [flight EXCEPT ![k] = NoFlight]
      /\ UNCHANGED <<options, account, accepted, count, excused>>
  BY DEF EndRefresh, userVars
<1>2. flight[k] # NoFlight
  BY <1>1 DEF NoFlight
<1>3. /\ flight'[k] = NoFlight
      /\ \A j \in Call \ {k} : flight'[j] = flight[j]
  BY <1>1 DEF SessionInv, CognitoInv, Shapes
<1>4. SessionFine(u) /\ Generations(u)
  BY DEF SessionInv
<1>5. tokens[u] \in Pair \cup {None}
  BY DEF SessionInv, CognitoInv, Shapes
<1>6. \A j \in Call : flight'[j] # NoFlight => j # k /\ flight'[j] = flight[j]
  BY <1>3
<1>7. CASE ~Refreshing(k, u)
  <2>1. tokens'[u] = tokens[u]
    BY <1>7 DEF EndRefresh, Refreshing, SessionInv, CognitoInv, Shapes
  <2>2. Underway(u) => Underway(u)'
    BY <1>3, <1>7, <2>1 DEF Underway, Refreshing
  <2>3. \A j \in Call : flight'[j].answer # "none" => flight'[j] = flight[j]
    BY <1>3 DEF NoFlight
  <2>4. SessionFine(u)'
    BY <1>1, <1>4, <2>1, <2>2, <2>3 DEF SessionFine, Refreshing, Rotated
  <2>5. Generations(u)'
    BY <1>1, <1>4, <1>6, <2>1 DEF Generations
  <2> QED
    BY <2>1, <2>4, <2>5
<1>8. CASE Refreshing(k, u) /\ flight[k].answer = "tokens"
  <2>1. tokens[u] \in Pair /\ tokens[u] = token /\ tokens[u] # None
    BY <1>2, <1>4, <1>8, NoneAssumption DEF Refreshing, Generations, Pair
  <2>2. tokens'[u] = Rotated(tokens[u])
    BY <1>8 DEF EndRefresh, Refreshing, Refreshed, SessionInv, CognitoInv, Shapes
  <2>3. Rotated(tokens[u]) \in Pair /\ Rotated(tokens[u])[1] = tokens[u][1]
    BY <2>1 DEF Rotated, Pair
  <2>4. Generations(u)'
    <3>1. tokens[u][1] <= count[u] /\ Rotated(tokens[u])[2] >= tokens[u][2]
      BY <1>4, <2>1 DEF Generations, Rotated, Pair
    <3>2. ASSUME NEW j \in Call, flight'[j] # NoFlight, flight'[j].user = u
          PROVE  /\ flight'[j].token \in Pair /\ flight'[j].token[1] <= count[u]
                 /\ tokens'[u][1] = flight'[j].token[1] => flight'[j].token[2] <= tokens'[u][2]
      <4>1. /\ flight[j].token \in Pair /\ flight[j].token[1] <= count[u]
            /\ tokens[u][1] = flight[j].token[1] => flight[j].token[2] <= tokens[u][2]
        BY <1>4, <1>6, <2>1, <3>2 DEF Generations
      <4>2. flight[j].token[2] \in Nat /\ Rotated(tokens[u])[2] \in Nat /\ tokens[u][2] \in Nat
        BY <2>1, <2>3, <4>1 DEF Pair
      <4> QED
        BY <1>6, <2>2, <2>3, <3>1, <3>2, <4>1, <4>2
    <3> QED
      BY <1>1, <2>2, <2>3, <3>1, <3>2 DEF Generations
  <2>5. SessionFine(u)'
    <3> SUFFICES ASSUME u \notin excused PROVE SessionFine(u)'
      BY <1>1 DEF SessionFine
    <3>1. account[u].enabled /\ Rotated(tokens[u]) \in accepted[u]
      BY <1>4, <1>8, <2>1 DEF SessionFine, Refreshing
    <3>2. ASSUME NEW j \in Call, Refreshing(j, u)', flight'[j].answer \in {"tokens", "refused"}
          PROVE  /\ ~options.rotates /\ flight[j] = flight'[j]
                 /\ Refreshing(j, u)
      <4>1. flight'[j] # NoFlight /\ flight'[j] = flight[j]
        BY <1>6, <3>2 DEF NoFlight
      <4>2. flight[j].user = u /\ flight[j].token = Rotated(tokens[u])
        BY <2>2, <3>2, <4>1 DEF Refreshing
      <4>3. tokens[u][1] = flight[j].token[1] => flight[j].token[2] <= tokens[u][2]
        BY <1>4, <2>1, <4>1, <4>2 DEF Generations
      <4>4. ~options.rotates
        BY <2>1, <4>2, <4>3 DEF Rotated, Pair
      <4> QED
        BY <4>1, <4>2, <4>4 DEF Refreshing, Rotated
    <3>3. ~options.rotates => Rotated(tokens[u]) = tokens[u]
      BY DEF Rotated
    <3> QED
      BY <1>1, <1>4, <2>1, <2>2, <3>1, <3>2, <3>3 DEF SessionFine, Refreshing, Rotated
  <2>6. tokens'[u] # None
    BY <2>2, <2>3, NoneAssumption DEF Pair
  <2> QED
    BY <2>4, <2>5, <2>6
<1>9. CASE Refreshing(k, u) /\ flight[k].answer # "tokens"
  <2>1. tokens'[u] = tokens[u] \/ (tokens'[u] = None /\ flight[k].answer = "refused")
    BY <1>1, <1>9 DEF EndRefresh, Refreshing, MapError, Codes, SessionInv, CognitoInv, Shapes
  <2>2. Generations(u)'
    BY <1>1, <1>4, <1>6, <2>1 DEF Generations
  <2>3. CASE tokens'[u] = tokens[u]
    <3>1. Underway(u) => Underway(u)'
      BY <1>3, <1>9, <2>3 DEF Underway, Refreshing
    <3>2. \A j \in Call : flight'[j].answer # "none" => flight'[j] = flight[j]
      BY <1>3 DEF NoFlight
    <3>3. SessionFine(u)'
      BY <1>1, <1>4, <2>3, <3>1, <3>2 DEF SessionFine, Refreshing, Rotated
    <3> QED
      BY <2>2, <2>3, <3>3
  <2>4. CASE tokens'[u] = None /\ flight[k].answer = "refused"
    <3>1. SessionFine(u)'
      BY <2>4 DEF SessionFine
    <3>2. ASSUME tokens[u] # None, u \notin excused
          PROVE  GivenUp(u)
      <4>1. options.rotates /\ (Underway(u) \/ flight[k].command = "InitiateAuth")
        BY <1>4, <1>9, <2>4, <3>2 DEF SessionFine
      <4>2. CASE Underway(u)
        <5>1. PICK j \in Call : Refreshing(j, u) /\ flight[j].answer = "tokens"
          BY <4>2 DEF Underway
        <5>2. flight'[j] = flight[j]
          BY <1>3, <2>4, <5>1
        <5> QED
          BY <5>1, <5>2 DEF GivenUp
      <4>3. CASE flight[k].command = "InitiateAuth"
        BY <1>2, <1>3, <1>9, <4>1, <4>3 DEF GivenUp
      <4> QED
        BY <4>1, <4>2, <4>3
    <3> QED
      BY <2>2, <3>1, <3>2
  <2> QED
    BY <2>1, <2>3, <2>4
<1> QED
  BY <1>7, <1>8, <1>9

\* The pool goes on with a user: a sign-in the application is told of, or no new token.
LEMMA ProceedFine ==
  ASSUME SessionInv, CognitoInv', NEW w \in User, NEW next, Proceed(w, next), account[w].enabled,
         account'[w].enabled, \A v \in User \ {w} : account'[v] = account[v], NEW u \in User
  PROVE  /\ SessionFine(u)' /\ Generations(u)'
         /\ tokens[u] # None => tokens'[u] # None
<1>1. /\ count' = [count EXCEPT ![w] = @ + 1] /\ UNCHANGED <<options, flight>>
      /\ \/ next = "tokens" /\ accepted' = [accepted EXCEPT ![w] = @ \cup {<<count'[w], 1>>}]
         \/ next # "tokens" /\ accepted' = accepted
      /\ \/ /\ next = "tokens" /\ tokens' = [tokens EXCEPT ![w] = <<count'[w], 1>>]
            /\ excused' = excused \ {w}
         \/ UNCHANGED <<tokens, excused>>
  BY DEF Proceed, Grant, Ask, Tell, LoseAnswer
<1>2. /\ count[u] \in Nat /\ count'[u] \in {count[u], count[u] + 1}
      /\ accepted[u] \subseteq accepted'[u]
  BY <1>1 DEF SessionInv, CognitoInv, Shapes
<1>3. CASE tokens'[u] = tokens[u] /\ (u \in excused => u \in excused')
  BY <1>1, <1>2, <1>3, AsideFine
<1>4. CASE u = w /\ next = "tokens" /\ tokens' = [tokens EXCEPT ![w] = <<count'[w], 1>>]
  <2>1. <<count'[u], 1>> \in accepted'[u]
    BY <1>1, <1>4 DEF SessionInv, CognitoInv, Shapes
  <2>2. SessionFine(u)' /\ Generations(u)'
    BY <1>1, <1>4, <2>1, SignedInFine
  <2>3. tokens'[u] # None
    BY <1>2, <1>4, NoneAssumption DEF SessionInv, CognitoInv, Shapes
  <2> QED
    BY <2>2, <2>3
<1> QED
  BY <1>1, <1>3, <1>4 DEF SessionInv, CognitoInv, Shapes

\* A step changes at most the call it is about.
LEMMA CallsApart ==
  ASSUME CognitoInv, [CognitoNext]_cognitoVars, NEW k \in Call
  PROVE  \/ flight'[k] = flight[k] \/ PoolRefreshes(k) \/ RefreshLost(k) \/ EndRefresh(k)
         \/ \E u \in User, rotation \in {None, TRUE, FALSE}, username \in BOOLEAN :
              BeginRefresh(k, u, rotation, username)
<1>1. ASSUME NEW j \in Call, NEW u \in User, NEW rotation \in {None, TRUE, FALSE}, NEW username \in BOOLEAN,
             BeginRefresh(j, u, rotation, username), j # k
      PROVE  flight'[k] = flight[k]
  <2>1. PICK refresh : flight' = [flight EXCEPT ![j] = refresh]
    BY <1>1 DEF BeginRefresh
  <2> QED
    BY <1>1, <2>1 DEF CognitoInv, Shapes
<1>2. ASSUME NEW j \in Call, PoolRefreshes(j) \/ RefreshLost(j) \/ EndRefresh(j), j # k
      PROVE  flight'[k] = flight[k]
  BY <1>2 DEF PoolRefreshes, RefreshLost, EndRefresh, CognitoInv, Shapes
<1>3. ASSUME NEW u \in User, NEW next, Proceed(u, next)
      PROVE  flight' = flight
  BY <1>3 DEF Proceed
<1>4. ASSUME NEW u \in User, SignIn(u) \/ \E username \in BOOLEAN : RespondToChallenge(u, username)
      PROVE  flight' = flight
  BY <1>3, <1>4 DEF SignIn, RespondToChallenge
<1>5. ASSUME NEW u \in User,
             \/ SignUp(u) \/ ConfirmSignUp(u) \/ ForgotPassword(u) \/ ConfirmForgotPassword(u) \/ ChangePassword(u)
             \/ CreateUser(u) \/ DeleteUser(u) \/ DisableUser(u) \/ EnableUser(u) \/ AdminSignOut(u) \/ SignOut(u)
             \/ \E permanent \in {None, TRUE, FALSE} : SetUserPassword(u, permanent)
      PROVE  flight' = flight
  BY <1>5 DEF SignUp, ConfirmSignUp, ForgotPassword, ConfirmForgotPassword, ChangePassword, CreateUser, DeleteUser,
       DisableUser, EnableUser, AdminSignOut, SetUserPassword, SignOut
<1>6. CASE UNCHANGED cognitoVars
  BY <1>6 DEF cognitoVars
<1> QED
  BY <1>1, <1>2, <1>4, <1>5, <1>6 DEF CognitoNext

LEMMA SessionNextInv ==
  ASSUME SessionInv, [CognitoNext]_cognitoVars
  PROVE  /\ SessionInv'
         /\ \A u \in User : tokens[u] # None /\ tokens'[u] = None => u \in excused' \/ GivenUp(u)
<1>1. CognitoInv'
  BY CognitoNextInv DEF SessionInv
<1>2. UNCHANGED options
  <2> USE DEF cognitoVars, userVars, appVars
  <2>1. ASSUME NEW u \in User, NEW next, Proceed(u, next) PROVE UNCHANGED options
    BY <2>1 DEF Proceed
  <2>2. ASSUME NEW u \in User, SignIn(u) \/ \E username \in BOOLEAN : RespondToChallenge(u, username)
        PROVE  UNCHANGED options
    BY <2>1, <2>2 DEF SignIn, RespondToChallenge
  <2> QED
    BY <2>2 DEF CognitoNext, SignUp, ConfirmSignUp, ForgotPassword, ConfirmForgotPassword, ChangePassword,
         CreateUser, DeleteUser, DisableUser, EnableUser, AdminSignOut, SetUserPassword, SignOut,
         BeginRefresh, PoolRefreshes, RefreshLost, EndRefresh
<1>3. OptionsFine'
  BY <1>2 DEF SessionInv, OptionsFine
<1>5. ASSUME NEW k \in Call
      PROVE  Addressed(k)'
  <2>1. Addressed(k) /\ options' = options
    BY <1>2 DEF SessionInv
  <2>2. CASE flight'[k] = flight[k]
    BY <2>1, <2>2 DEF Addressed
  <2>3. ASSUME NEW u \in User, NEW rotation \in {None, TRUE, FALSE}, NEW username \in BOOLEAN,
               BeginRefresh(k, u, rotation, username)
        PROVE  Addressed(k)'
    <3>1. PICK refresh \in Flight :
            /\ flight' = [flight EXCEPT ![k] = refresh] /\ refresh.command # "none"
            /\ OptionsFine /\ refresh.command = "InitiateAuth" => refresh.hash = options.secret
      BY <2>3, BegunRefresh DEF SessionInv, CognitoInv
    <3>2. flight'[k] = refresh /\ refresh.command \in Command
      BY <3>1 DEF SessionInv, CognitoInv, Shapes, Flight
    <3> QED
      BY <2>1, <3>1, <3>2 DEF Addressed, Command, SessionInv
  <2>4. ASSUME NEW given \in {"tokens", "refused", "lost"}, flight[k].answer # "none" \/ flight[k].user # None,
               flight' = [flight EXCEPT ![k].answer = given]
        PROVE  Addressed(k)'
    <3>1. flight'[k].command = flight[k].command /\ flight'[k].hash = flight[k].hash
      BY <2>4, Answered DEF SessionInv, CognitoInv
    <3>2. flight[k] # NoFlight
      BY <2>4 DEF NoFlight
    <3> QED
      BY <2>1, <3>1, <3>2 DEF Addressed
  <2>5. CASE PoolRefreshes(k)
    BY <2>4, <2>5 DEF PoolRefreshes
  <2>6. CASE RefreshLost(k)
    BY <2>4, <2>6 DEF RefreshLost
  <2>7. CASE EndRefresh(k)
    <3>1. flight'[k] = NoFlight
      BY <2>7 DEF EndRefresh, SessionInv, CognitoInv, Shapes
    <3> QED
      BY <3>1 DEF Addressed, NoFlight
  <2>8. \/ flight'[k] = flight[k] \/ PoolRefreshes(k) \/ RefreshLost(k) \/ EndRefresh(k)
        \/ \E u \in User, rotation \in {None, TRUE, FALSE}, username \in BOOLEAN : BeginRefresh(k, u, rotation, username)
    BY CallsApart DEF SessionInv
  <2> QED
    BY <2>2, <2>3, <2>5, <2>6, <2>7, <2>8
<1>4. ASSUME NEW u \in User
      PROVE  /\ SessionFine(u)' /\ Generations(u)'
             /\ tokens[u] # None /\ tokens'[u] = None => u \in excused' \/ GivenUp(u)
  <2>1. /\ account \in [User -> [status : Status, enabled : BOOLEAN]] /\ accepted \in [User -> SUBSET Pair]
        /\ count[u] \in Nat /\ tokens \in [User -> Pair \cup {None}]
    BY DEF SessionInv, CognitoInv, Shapes
  <2>2. CASE UNCHANGED cognitoVars
    BY <1>1, <2>1, <2>2, AsideFine DEF cognitoVars, userVars, appVars
  <2>3. ASSUME NEW w \in User,
               \/ SignUp(w) \/ ConfirmSignUp(w) \/ ForgotPassword(w) \/ ConfirmForgotPassword(w)
               \/ ChangePassword(w) \/ CreateUser(w) \/ EnableUser(w)
               \/ \E permanent \in {None, TRUE, FALSE} : SetUserPassword(w, permanent)
        PROVE  UNCHANGED tokens /\ SessionFine(u)' /\ Generations(u)'
    <3>1. UNCHANGED <<options, flight, tokens, count, excused, accepted>>
      BY <2>3 DEF SignUp, ConfirmSignUp, ForgotPassword, ConfirmForgotPassword, ChangePassword, CreateUser,
           EnableUser, SetUserPassword, appVars
    <3>2. \/ account' = account
          \/ \E status, enabled : /\ account' = [account EXCEPT ![w] = [status |-> status, enabled |-> enabled]]
                                  /\ account[w].enabled => enabled
      BY <2>3 DEF SignUp, ConfirmSignUp, ForgotPassword, ConfirmForgotPassword, ChangePassword, CreateUser,
           EnableUser, SetUserPassword, Admin
    <3>3. account[u].enabled => account'[u].enabled
      BY <2>1, <3>2
    <3> QED
      BY <1>1, <2>1, <3>1, <3>3, AsideFine
  <2>4. ASSUME NEW w \in User, DeleteUser(w) \/ DisableUser(w) \/ AdminSignOut(w)
        PROVE  UNCHANGED tokens /\ SessionFine(u)' /\ Generations(u)'
    <3>1. UNCHANGED <<options, flight, tokens, count>> /\ excused' = excused \cup {w}
      BY <2>4 DEF DeleteUser, DisableUser, AdminSignOut, Revoke
    <3>2. u # w => account'[u] = account[u] /\ accepted'[u] = accepted[u]
      BY <2>1, <2>4 DEF DeleteUser, DisableUser, AdminSignOut, Revoke, Admin
    <3> QED
      BY <1>1, <2>1, <3>1, <3>2, AsideFine
  <2>5. ASSUME NEW w \in User, SignOut(w)
        PROVE  /\ SessionFine(u)' /\ Generations(u)'
               /\ tokens'[u] = tokens[u] \/ u \in excused'
    <3>1. /\ UNCHANGED <<options, flight, count, account>> /\ excused' = excused \cup {w}
          /\ accepted' = [accepted EXCEPT ![w] = {}]
          /\ tokens' = tokens \/ tokens' = [tokens EXCEPT ![w] = None]
      BY <2>5 DEF SignOut, Revoke
    <3>2. CASE tokens'[u] = tokens[u]
      BY <1>1, <2>1, <3>1, <3>2, AsideFine
    <3>3. CASE u = w /\ tokens'[u] = None
      <4>1. Generations(u)
        BY DEF SessionInv
      <4> QED
        BY <3>1, <3>3, <4>1 DEF SessionFine, Generations
    <3> QED
      BY <2>1, <3>1, <3>2, <3>3
  <2>6. ASSUME NEW w \in User, SignIn(w)
        PROVE  SessionFine(u)' /\ Generations(u)' /\ (tokens[u] # None => tokens'[u] # None)
    <3>1. PICK next : Proceed(w, next) /\ account' = account /\ account[w].enabled
      BY <2>6 DEF SignIn
    <3> QED
      BY <1>1, <3>1, ProceedFine
  <2>7. ASSUME NEW w \in User, NEW username \in BOOLEAN, RespondToChallenge(w, username)
        PROVE  SessionFine(u)' /\ Generations(u)' /\ (tokens[u] # None => tokens'[u] # None)
    <3>1. PICK next : Proceed(w, next) /\ (account' = account \/ Admin(w, "CONFIRMED", TRUE, None))
      BY <2>7 DEF RespondToChallenge
    <3>2. account[w].enabled /\ account'[w].enabled /\ \A v \in User \ {w} : account'[v] = account[v]
      BY <2>1, <2>7, <3>1 DEF RespondToChallenge, Admin
    <3> QED
      BY <1>1, <3>1, <3>2, ProceedFine
  <2>8. ASSUME NEW k \in Call, NEW w \in User, NEW rotation \in {None, TRUE, FALSE}, NEW username \in BOOLEAN,
               BeginRefresh(k, w, rotation, username)
        PROVE  UNCHANGED tokens /\ SessionFine(u)' /\ Generations(u)'
    <3>1. SessionFine(u)' /\ Generations(u)'
      BY <1>1, <2>8, BeginRefreshFine
    <3> QED
      BY <2>8, <3>1 DEF BeginRefresh, appVars
  <2>9. ASSUME NEW k \in Call, PoolRefreshes(k)
        PROVE  UNCHANGED tokens /\ SessionFine(u)' /\ Generations(u)'
    BY <1>1, <2>9, PoolRefreshesFine DEF PoolRefreshes, appVars
  <2>10. ASSUME NEW k \in Call, RefreshLost(k)
         PROVE  UNCHANGED tokens /\ SessionFine(u)' /\ Generations(u)'
    BY <1>1, <2>10, RefreshLostFine DEF RefreshLost
  <2>11. ASSUME NEW k \in Call, EndRefresh(k)
         PROVE  /\ SessionFine(u)' /\ Generations(u)'
                /\ tokens[u] # None /\ tokens'[u] = None => u \in excused' \/ GivenUp(u)
    <3>1. excused' = excused
      BY <2>11 DEF EndRefresh
    <3> QED
      BY <1>1, <2>11, <3>1, EndRefreshFine
  <2> QED
    BY <2>2, <2>3, <2>4, <2>5, <2>6, <2>7, <2>8, <2>9, <2>10, <2>11 DEF CognitoNext, cognitoVars, appVars
<1> QED
  BY <1>1, <1>3, <1>4, <1>5 DEF SessionInv

LEMMA SessionInitInv == CognitoInit => SessionInv
<1> SUFFICES ASSUME CognitoInit PROVE SessionInv
  OBVIOUS
<1>1. CognitoInv
  BY CognitoInitInv
<1>2. OptionsFine
  BY DEF CognitoInit, OptionsFine
<1>3. \A u \in User : SessionFine(u) /\ Generations(u)
  BY DEF CognitoInit, SessionFine, Generations
<1>4. \A k \in Call : Addressed(k)
  BY DEF CognitoInit, Addressed
<1> QED
  BY <1>1, <1>2, <1>3, <1>4 DEF SessionInv

\* An application gives its session up only when it was revoked, when the answer that
\* brought the next token was lost, while another refresh brings it, or when it asked a
\* client that rotates for no rotation: with any number of overlapping calls of
\* refreshToken, each with or without a username, and with the option of rotation given
\* either way or left out (cognito-auth.service.ts, refreshToken; cognito.errors.ts, map).
THEOREM SessionsAreKept == CognitoSpec => SessionKept
<1>1. SessionInv /\ [CognitoNext]_cognitoVars => SessionInv'
  BY SessionNextInv
<1>2. SessionInv /\ [CognitoNext]_cognitoVars =>
        [\A u \in User :
           tokens[u] # None /\ tokens'[u] = None =>
             \/ u \in excused'
             \/ \E k \in Call : Refreshing(k, u) /\ flight[k].answer = "tokens" /\ flight'[k] = flight[k]
             \/ options.rotates /\ \E k \in Call :
                  Refreshing(k, u) /\ flight[k].command = "InitiateAuth" /\ flight'[k] # flight[k]]_cognitoVars
  BY SessionNextInv DEF GivenUp
<1> QED
  BY <1>1, <1>2, SessionInitInv, PTL DEF CognitoSpec, SessionKept

-----------------------------------------------------------------------------
(* Publication. *)

JobFields == {"commit", "dryRun", "packageArg", "packages", "missing", "hasError", "exit", "failed"}

IsJob(q) == DOMAIN q = JobFields /\ q.packages \in Seq(Package)

Asked(j, p) == job[j].packageArg \in {All, p}

InRegistry(j, p) == <<p, VersionAt[job[j].commit][p]>> \in registry

Left(j, p) == \E n \in DOMAIN job[j].packages : job[j].packages[n] = p

\* What is to be published and could be read is published already, or still to come.
NothingSkipped(j) ==
  /\ job[j] # NoJob /\ ~job[j].dryRun /\ ~job[j].hasError =>
       \A p \in Publishable(job[j].commit) : Asked(j, p) => Left(j, p) \/ InRegistry(j, p)
  /\ job[j].exit = 0 => ~job[j].hasError /\ job[j].packages = <<>>
  /\ job[j].missing => job[j].packages # <<>> /\ Asked(j, Head(job[j].packages))

\* The core comes first, so what comes later finds it tried, unless it is not asked for
\* or could not be read.
CoreTried(j) ==
  \/ job[j].dryRun \/ ~Asked(j, Core) \/ InRegistry(j, Core) \/ Core \in job[j].failed
  \/ Core \in Broken[job[j].commit]

CoreFirst(j) == job[j].packages # <<>> => Head(job[j].packages) = Core \/ CoreTried(j)

\* Inductive: a job skips a package for what the registry held when it was asked, and
\* that holds for good, since no version is ever withdrawn.
PublishInv ==
  /\ DOMAIN job = Job
  /\ \A j \in Job : IsJob(job[j]) /\ NothingSkipped(j) /\ CoreFirst(j)

\* What sort returns is what it was given, the core first if it is there.
LEMMA SortedPackages ==
  ASSUME NEW readable \in SUBSET Package, NEW packages \in Sorted(readable)
  PROVE  /\ packages \in Seq(Package)
         /\ \A p \in readable : \E n \in DOMAIN packages : packages[n] = p
         /\ packages # <<>> /\ Core \in readable => Head(packages) = Core
<1> DEFINE listing == Order \o Directories
           Before(p, q) == \E n \in DOMAIN listing : listing[n] = p /\ \A m \in 1..n : listing[m] # q
<1>1. /\ packages \in [1..Cardinality(readable) -> readable]
      /\ \A p \in readable : \E n \in DOMAIN packages : packages[n] = p
      /\ \A m, n \in DOMAIN packages : m < n => Before(packages[m], packages[n])
  BY DEF Sorted, Listed
<1>2. packages \in Seq(Package) /\ DOMAIN packages = 1..Len(packages)
  <2>1. PICK size \in Nat : size = Cardinality(readable)
    BY BrokenAssumption, FS_Subset, FS_CardinalityType
  <2>2. packages \in [1..size -> Package]
    BY <1>1, <2>1
  <2> QED
    BY <2>2
<1>3. ASSUME packages # <<>>, Core \in readable
      PROVE  packages[1] = Core
  <2>1. listing[1] = Core
    BY OrderAssumption, DirectoriesAssumption DEF Core
  <2>2. PICK n \in DOMAIN packages : packages[n] = Core
    BY <1>1, <1>3
  <2>3. n \in 1..Len(packages) /\ 1 \in DOMAIN packages
    BY <1>2, <2>2
  <2>4. ~Before(packages[1], Core)
    <3>1. DOMAIN listing \subseteq Nat \ {0}
      BY OrderAssumption, DirectoriesAssumption
    <3>2. ASSUME NEW m \in DOMAIN listing
          PROVE  1 \in 1..m
      BY <3>1
    <3> HIDE DEF listing
    <3> QED
      BY <2>1, <3>2
  <2> HIDE DEF Before
  <2>5. ~(1 < n)
    BY <1>1, <2>2, <2>3, <2>4
  <2> QED
    BY <2>2, <2>3, <2>5
<1> QED
  BY <1>1, <1>2, <1>3

\* A step of a job that leaves the others alone; the registry only grows.
LEMMA OthersInv ==
  ASSUME PublishInv, NEW j \in Job, NEW next, IsJob(next), job' = [job EXCEPT ![j] = next],
         registry \subseteq registry', NothingSkipped(j)', CoreFirst(j)'
  PROVE  PublishInv'
<1>1. DOMAIN job' = Job /\ IsJob(job'[j])
  BY DEF PublishInv
<1>2. ASSUME NEW i \in Job, i # j
      PROVE  IsJob(job'[i]) /\ NothingSkipped(i)' /\ CoreFirst(i)'
  <2>1. job'[i] = job[i]
    BY <1>2 DEF PublishInv
  <2>2. NothingSkipped(i)'
    BY <2>1 DEF PublishInv, NothingSkipped, Asked, Left, InRegistry, Publishable
  <2>3. CoreFirst(i)'
    BY <2>1 DEF PublishInv, CoreFirst, CoreTried, Asked, InRegistry
  <2> QED
    BY <2>1, <2>2, <2>3 DEF PublishInv
<1> QED
  BY <1>1, <1>2 DEF PublishInv, IsJob

LEMMA PublishInitInv == PublishInit => PublishInv
<1> SUFFICES ASSUME PublishInit PROVE PublishInv
  OBVIOUS
<1>1. IsJob(NoJob) /\ NoJob.packages = <<>> /\ NoJob.exit = -1 /\ ~NoJob.missing
  BY DEF NoJob, IsJob, JobFields
<1>2. DOMAIN job = Job /\ \A j \in Job : job[j] = NoJob
  BY DEF PublishInit
<1>3. \A j \in Job : NothingSkipped(j) /\ CoreFirst(j)
  BY <1>1, <1>2 DEF NothingSkipped, CoreFirst
<1> QED
  BY <1>1, <1>2, <1>3 DEF PublishInv

\* The job goes on to the next package once this one is dealt with: left out, tried by
\* a dry run, in the registry, or failed.
LEMMA NextPackageInv ==
  ASSUME PublishInv, NEW j \in Job, Running(j), registry \subseteq registry',
         NEW failed \in {FALSE, TRUE},
         job' = [job EXCEPT ![j] =
           IF failed THEN [NextPackage(j) EXCEPT !.hasError = TRUE, !.failed = @ \cup {Head(job[j].packages)}]
           ELSE NextPackage(j)],
         \/ failed
         \/ ~Asked(j, Head(job[j].packages))
         \/ job[j].dryRun
         \/ Release(j) \in registry'
  PROVE  PublishInv'
<1> DEFINE head == Head(job[j].packages)
           tail == Tail(job[j].packages)
<1>1. DOMAIN job = Job /\ IsJob(job[j]) /\ NothingSkipped(j) /\ CoreFirst(j)
  BY DEF PublishInv
<1>2. job[j].packages \in Seq(Package) /\ job[j].packages # <<>>
  BY <1>1 DEF IsJob, Running
<1>3. /\ head \in Package /\ tail \in Seq(Package)
      /\ \A p : Left(j, p) => p = head \/ \E n \in DOMAIN tail : tail[n] = p
  <2>1. head \in Package /\ tail \in Seq(Package) /\ Len(tail) = Len(job[j].packages) - 1
    BY <1>2
  <2>2. ASSUME NEW n \in DOMAIN job[j].packages, n # 1
        PROVE  n - 1 \in DOMAIN tail /\ tail[n - 1] = job[j].packages[n]
    BY <1>2, <2>2
  <2>3. head = job[j].packages[1]
    BY <1>2
  <2> QED
    BY <2>1, <2>2, <2>3 DEF Left
<1>4. PICK next :
        /\ job' = [job EXCEPT ![j] = next] /\ IsJob(next)
        /\ next.commit = job[j].commit /\ next.dryRun = job[j].dryRun /\ next.packageArg = job[j].packageArg
        /\ next.packages = tail /\ next.exit = job[j].exit
        /\ ~next.missing
        /\ failed => next.hasError
        /\ ~failed => (next.hasError <=> job[j].hasError)
        /\ job[j].failed \subseteq next.failed
        /\ failed => head \in next.failed
  <2>0. DOMAIN job[j] = JobFields
    BY <1>1 DEF IsJob
  <2>1. PICK z : z = NextPackage(j)
    OBVIOUS
  <2>2. z = [job[j] EXCEPT !.packages = tail, !.missing = FALSE]
    BY <2>1 DEF NextPackage
  <2> HIDE DEF head, tail
  <2>3. /\ DOMAIN z = JobFields /\ z.packages = tail /\ z.missing = FALSE
        /\ z.commit = job[j].commit /\ z.dryRun = job[j].dryRun /\ z.packageArg = job[j].packageArg
        /\ z.hasError = job[j].hasError /\ z.exit = job[j].exit /\ z.failed = job[j].failed
    BY Zenon, <2>0, <2>2 DEF JobFields
  <2>4. CASE failed
    <3>1. PICK y : y = [z EXCEPT !.hasError = TRUE, !.failed = @ \cup {head}]
      OBVIOUS
    <3>2. PICK failures : failures = z.failed \cup {head}
      OBVIOUS
    <3>3. y = [z EXCEPT !.hasError = TRUE, !.failed = failures]
      BY <3>1, <3>2
    <3>4. /\ DOMAIN y = JobFields /\ y.packages = z.packages /\ y.missing = z.missing
          /\ y.commit = z.commit /\ y.dryRun = z.dryRun /\ y.packageArg = z.packageArg
          /\ y.hasError = TRUE /\ y.exit = z.exit /\ y.failed = failures
      BY Zenon, <2>3, <3>3 DEF JobFields
    <3>5. job' = [job EXCEPT ![j] = y]
      BY <2>1, <2>4, <3>1 DEF head
    <3>6. IsJob(y)
      BY <1>3, <2>3, <3>4 DEF IsJob
    <3>7. job[j].failed \subseteq y.failed /\ head \in y.failed
      BY <2>3, <3>2, <3>4
    <3> QED
      BY <2>3, <2>4, <3>4, <3>5, <3>6, <3>7
  <2>5. CASE ~failed
    <3>1. job' = [job EXCEPT ![j] = z]
      BY <2>1, <2>5
    <3> QED
      BY <1>3, <2>3, <2>5, <3>1 DEF IsJob
  <2> QED
    BY <2>4, <2>5
<1>5. job'[j] = next
  BY <1>1, <1>4
<1> HIDE DEF head, tail
<1>6. NothingSkipped(j)'
  <2>1. ASSUME ~next.dryRun, ~next.hasError, NEW p \in Publishable(next.commit), next.packageArg \in {All, p}
        PROVE  Left(j, p)' \/ InRegistry(j, p)'
    <3>1. ~failed /\ ~job[j].hasError /\ ~job[j].dryRun /\ Asked(j, p)
      BY <1>4, <2>1 DEF Asked
    <3>2. job[j] # NoJob
      BY <1>2 DEF NoJob
    <3>3. Left(j, p) \/ InRegistry(j, p)
      BY <1>1, <1>4, <3>1, <3>2 DEF NothingSkipped
    <3>4. InRegistry(j, p) => InRegistry(j, p)'
      BY <1>4, <1>5 DEF InRegistry
    <3>5. CASE p = head
      <4>1. Release(j) \in registry'
        BY <3>1, <3>5 DEF head
      <4> QED
        BY <1>4, <1>5, <3>5, <4>1 DEF InRegistry, Release, head
    <3>6. CASE p # head /\ Left(j, p)
      BY <1>3, <1>4, <1>5, <3>6 DEF Left
    <3> QED
      BY <3>3, <3>4, <3>5, <3>6
  <2>2. next.exit = -1
    BY <1>4 DEF Running
  <2>3. ~job'[j].missing
    BY Zenon, <1>4, <1>5
  <2>5. job'[j].exit # 0
    <3>1. -1 # 0
      OBVIOUS
    <3> QED
      BY Zenon, <1>5, <2>2, <3>1
  <2>4. ~job'[j].dryRun /\ ~job'[j].hasError =>
          \A p \in Publishable(job'[j].commit) : Asked(j, p)' => Left(j, p)' \/ InRegistry(j, p)'
    BY <1>5, <2>1 DEF Asked
  <2> QED
    BY Zenon, <2>3, <2>4, <2>5 DEF NothingSkipped, Publishable
<1>7. CoreFirst(j)'
  <2>1. CASE CoreTried(j)
    BY <1>4, <1>5, <2>1 DEF CoreFirst, CoreTried, Asked, InRegistry
  <2>2. CASE head = Core
    BY <1>4, <1>5, <2>2 DEF CoreFirst, CoreTried, Asked, InRegistry, Release, head
  <2> QED
    BY <1>1, <1>2, <2>1, <2>2 DEF CoreFirst, head
<1> QED
  BY <1>4, <1>6, <1>7, OthersInv

LEMMA PublishNextInv == PublishInv /\ [PublishNext]_publishVars => PublishInv'
<1> SUFFICES ASSUME PublishInv, [PublishNext]_publishVars PROVE PublishInv'
  OBVIOUS
<1>1. CASE UNCHANGED publishVars
  BY <1>1 DEF publishVars, PublishInv, NothingSkipped, CoreFirst, CoreTried, Asked, Left, InRegistry, Publishable
<1>2. ASSUME NEW j \in Job, NEW commit \in Commit, NEW dryRun \in BOOLEAN, NEW packageArg \in PackageArgs,
             RunJob(j, commit, dryRun, packageArg)
      PROVE  PublishInv'
  <2>1. PICK packages \in Sorted(Publishable(commit)) :
          job' = [job EXCEPT ![j] = [NoJob EXCEPT !.commit = commit, !.dryRun = dryRun,
                                                 !.packageArg = packageArg, !.packages = packages]]
    BY <1>2 DEF RunJob
  <2>2. PICK next : next = [NoJob EXCEPT !.commit = commit, !.dryRun = dryRun,
                                        !.packageArg = packageArg, !.packages = packages]
    OBVIOUS
  <2>3. job' = [job EXCEPT ![j] = next]
    BY <2>1, <2>2
  <2>4. /\ DOMAIN next = JobFields /\ next.packages = packages /\ next.missing = FALSE /\ next.exit = -1
        /\ next.commit = commit
    <3>1. DOMAIN NoJob = JobFields /\ NoJob.missing = FALSE /\ NoJob.exit = -1
      BY DEF NoJob, JobFields
    <3> QED
      BY Zenon, <2>2, <3>1 DEF JobFields
  <2>8. Publishable(commit) \in SUBSET Package
    BY DEF Publishable
  <2>9. /\ packages \in Seq(Package)
        /\ \A p \in Publishable(commit) : \E n \in DOMAIN packages : packages[n] = p
        /\ packages # <<>> /\ Core \in Publishable(commit) => Head(packages) = Core
    BY <2>8, SortedPackages
  <2>7. IsJob(next) /\ job'[j] = next
    BY <2>3, <2>4, <2>9 DEF IsJob, PublishInv
  <2>5. NothingSkipped(j)'
    <3>1. \A p \in Publishable(job'[j].commit) : Left(j, p)'
      BY <2>4, <2>7, <2>9 DEF Left
    <3>2. job'[j].missing = FALSE
      BY Zenon, <2>4, <2>7
    <3>3. job'[j].exit # 0
      <4>1. -1 # 0
        OBVIOUS
      <4> QED
        BY Zenon, <2>4, <2>7, <4>1
    <3> QED
      BY Zenon, <3>1, <3>2, <3>3 DEF NothingSkipped, Publishable
  <2>6. CoreFirst(j)'
    <3>1. Core \in Package
      BY OrderAssumption DEF Core
    <3>2. Core \in Publishable(commit) \/ Core \in Broken[commit]
      BY <3>1 DEF Publishable
    <3> QED
      BY <2>4, <2>7, <2>9, <3>2 DEF CoreFirst, CoreTried
  <2> QED
    BY <1>2, <2>3, <2>5, <2>6, <2>7, OthersInv DEF RunJob
<1>3. ASSUME NEW j \in Job, SkipPackage(j) PROVE PublishInv'
  <2>1. /\ Running(j) /\ registry' = registry /\ ~Asked(j, Head(job[j].packages))
        /\ job' = [job EXCEPT ![j] = IF FALSE THEN [NextPackage(j) EXCEPT !.hasError = TRUE, !.failed = @ \cup {Head(job[j].packages)}]
                                     ELSE NextPackage(j)]
    BY <1>3 DEF SkipPackage, Asked
  <2> QED
    BY <2>1, NextPackageInv
<1>4. ASSUME NEW j \in Job, DryRun(j) \/ Published(j) PROVE PublishInv'
  <2>1. /\ Running(j) /\ registry \subseteq registry' /\ (job[j].dryRun \/ Release(j) \in registry')
        /\ job' = [job EXCEPT ![j] = IF FALSE THEN [NextPackage(j) EXCEPT !.hasError = TRUE, !.failed = @ \cup {Head(job[j].packages)}]
                                     ELSE NextPackage(j)]
    BY <1>4 DEF DryRun, Published
  <2> QED
    BY <2>1, NextPackageInv
<1>5. ASSUME NEW j \in Job, PublishFailed(j) PROVE PublishInv'
  <2>1. /\ Running(j) /\ registry \subseteq registry'
        /\ job' = [job EXCEPT ![j] = IF TRUE THEN [NextPackage(j) EXCEPT !.hasError = TRUE, !.failed = @ \cup {Head(job[j].packages)}]
                                     ELSE NextPackage(j)]
    BY <1>5 DEF PublishFailed
  <2> QED
    BY <2>1, NextPackageInv
<1>6. ASSUME NEW j \in Job, IsPublished(j) PROVE PublishInv'
  <2>1. CASE Release(j) \in registry /\ job' = [job EXCEPT ![j] = NextPackage(j)]
    <3>1. /\ Running(j) /\ registry' = registry /\ Release(j) \in registry'
          /\ job' = [job EXCEPT ![j] = IF FALSE THEN [NextPackage(j) EXCEPT !.hasError = TRUE, !.failed = @ \cup {Head(job[j].packages)}]
                                       ELSE NextPackage(j)]
      BY <1>6, <2>1 DEF IsPublished
    <3> QED
      BY <3>1, NextPackageInv
  <2>2. CASE job' = [job EXCEPT ![j].missing = TRUE]
    <3>1. /\ DOMAIN job = Job /\ IsJob(job[j]) /\ NothingSkipped(j) /\ CoreFirst(j)
          /\ registry' = registry /\ Running(j) /\ Asked(j, Head(job[j].packages))
      BY <1>6 DEF PublishInv, IsPublished, Asked
    <3>2. PICK next : next = [job[j] EXCEPT !.missing = TRUE]
      OBVIOUS
    <3>3. job' = [job EXCEPT ![j] = next] /\ job'[j] = next
      BY <2>2, <3>1, <3>2
    <3>4. /\ DOMAIN next = JobFields /\ next.packages = job[j].packages /\ next.commit = job[j].commit
          /\ next.dryRun = job[j].dryRun /\ next.packageArg = job[j].packageArg
          /\ next.hasError = job[j].hasError /\ next.exit = job[j].exit /\ next.failed = job[j].failed
      BY Zenon, <3>1, <3>2 DEF IsJob, JobFields
    <3>5. job[j] # NoJob /\ job[j].packages # <<>>
      BY <3>1 DEF Running, NoJob
    <3>6. NothingSkipped(j)'
      <4>1. ~job'[j].dryRun /\ ~job'[j].hasError =>
              \A p \in Publishable(job'[j].commit) : Asked(j, p)' => Left(j, p)' \/ InRegistry(j, p)'
        BY <3>1, <3>3, <3>4, <3>5 DEF NothingSkipped, Asked, Left, InRegistry
      <4>2. job'[j].packages # <<>> /\ Asked(j, Head(job[j].packages))'
        BY <3>1, <3>3, <3>4, <3>5 DEF Asked
      <4>3. job'[j].exit # 0
        <5>1. -1 # 0
          OBVIOUS
        <5> QED
          BY Zenon, <3>1, <3>3, <3>4, <5>1 DEF Running
      <4>4. Head(job[j].packages) = Head(job'[j].packages)
        BY <3>3, <3>4
      <4> QED
        BY Zenon, <4>1, <4>2, <4>3, <4>4 DEF NothingSkipped, Asked, Publishable
    <3>7. CoreFirst(j)'
      BY <3>1, <3>3, <3>4 DEF CoreFirst, CoreTried, Asked, InRegistry
    <3>8. IsJob(next)
      BY <3>1, <3>4 DEF IsJob
    <3> QED
      BY <3>1, <3>3, <3>6, <3>7, <3>8, OthersInv
  <2> QED
    BY <1>6, <2>1, <2>2 DEF IsPublished
<1>7. ASSUME NEW j \in Job, EndJob(j) PROVE PublishInv'
  <2>1. /\ DOMAIN job = Job /\ IsJob(job[j]) /\ NothingSkipped(j)
        /\ registry' = registry /\ job[j].packages = <<>> /\ job[j] # NoJob
    BY <1>7 DEF PublishInv, EndJob, Done
  <2>2. PICK exit : exit = IF job[j].hasError THEN 1 ELSE 0
    OBVIOUS
  <2>3. PICK next : next = [job[j] EXCEPT !.exit = exit]
    OBVIOUS
  <2>4. job' = [job EXCEPT ![j] = next] /\ job'[j] = next
    BY <1>7, <2>1, <2>2, <2>3 DEF EndJob
  <2>5. /\ DOMAIN next = JobFields /\ next.packages = job[j].packages /\ next.commit = job[j].commit
        /\ next.dryRun = job[j].dryRun /\ next.packageArg = job[j].packageArg
        /\ next.hasError = job[j].hasError /\ next.missing = job[j].missing /\ next.exit = exit
    BY Zenon, <2>1, <2>3 DEF IsJob, JobFields
  <2>6. NothingSkipped(j)'
    <3>1. ~job'[j].dryRun /\ ~job'[j].hasError =>
            \A p \in Publishable(job'[j].commit) : Asked(j, p)' => Left(j, p)' \/ InRegistry(j, p)'
      BY <2>1, <2>4, <2>5 DEF NothingSkipped, Asked, Left, InRegistry
    <3>2. job'[j].exit = 0 => ~job'[j].hasError
      <4>1. exit = 0 => ~job[j].hasError
        BY <2>2
      <4> QED
        BY Zenon, <2>4, <2>5, <4>1
    <3>3. job'[j].packages = <<>> /\ ~job'[j].missing
      <4>1. ~job[j].missing
        BY <2>1 DEF NothingSkipped
      <4> QED
        BY Zenon, <2>1, <2>4, <2>5, <4>1
    <3> QED
      BY Zenon, <3>1, <3>2, <3>3 DEF NothingSkipped, Publishable
  <2>7. CoreFirst(j)' /\ IsJob(next)
    BY <2>1, <2>4, <2>5 DEF CoreFirst, IsJob
  <2> QED
    BY <2>1, <2>4, <2>6, <2>7, OthersInv
<1> QED
  BY <1>1, <1>2, <1>3, <1>4, <1>5, <1>6, <1>7 DEF PublishNext

\* A release job that ends well leaves nothing it was to publish and could read out of
\* the registry, whatever the jobs beside it do and whichever calls of npm fail or only
\* seem to; a package whose package.json it could not parse, it leaves out without a word
\* (publish.js, isPublished and the loop).
THEOREM SuccessMeansPublished == PublishSpec => []ExitZeroMeansAll
<1>1. PublishInv => ExitZeroMeansAll
  <2> SUFFICES ASSUME PublishInv, NEW j \in Job, job[j].exit = 0, ~job[j].dryRun,
                      NEW p \in Publishable(job[j].commit), Asked(j, p)
               PROVE  InRegistry(j, p)
    BY DEF ExitZeroMeansAll, Asked, InRegistry
  <2>1. NothingSkipped(j)
    BY DEF PublishInv
  <2>2. job[j] # NoJob
    BY DEF NoJob
  <2>3. job[j].packages = <<>> /\ ~job[j].hasError
    BY <2>1 DEF NothingSkipped
  <2> QED
    BY <2>1, <2>2, <2>3 DEF NothingSkipped, Left
<1> QED
  BY <1>1, PublishInitInv, PublishNextInv, PTL DEF PublishSpec

\* The dependents of the core follow it into the registry, unless their job failed to
\* publish the core or to read its package.json, or was asked for one of them alone
\* (publish.js, order and sort).
THEOREM CoreIsPublishedFirst == PublishSpec => DependentsAfterCore
<1>1. ASSUME PublishInv, [PublishNext]_publishVars, NEW p \in Dependents, NEW j \in Job,
             Running(j), Head(job[j].packages) = p, job'[j] # job[j], Release(j) \in registry' \ registry
      PROVE  \/ <<Core, VersionAt[job[j].commit][Core]>> \in registry
             \/ Core \in job[j].failed
             \/ Core \in Broken[job[j].commit]
             \/ job[j].packageArg = p
  <2>1. NothingSkipped(j) /\ CoreFirst(j) /\ DOMAIN job = Job
    BY <1>1 DEF PublishInv
  <2>2. p # Core
    BY <1>1, OrderAssumption DEF Core
  <2>3. PICK i \in Job : Published(i) \/ PublishFailed(i)
    BY <1>1 DEF PublishNext, publishVars, RunJob, SkipPackage, IsPublished, DryRun, EndJob
  <2>4. i = j
    BY <1>1, <2>1, <2>3 DEF Published, PublishFailed
  <2>5. job[j].missing /\ ~job[j].dryRun
    BY <2>3, <2>4 DEF Published, PublishFailed
  <2>6. Asked(j, p)
    BY <1>1, <2>1, <2>5 DEF NothingSkipped
  <2>7. CoreTried(j)
    BY <1>1, <2>1, <2>2 DEF CoreFirst, Running
  <2> QED
    BY <2>5, <2>6, <2>7 DEF CoreTried, Asked, InRegistry
<1>2. PublishInv /\ [PublishNext]_publishVars =>
        [\A p \in Dependents, j \in Job :
           LET commit == job[j].commit
           IN  /\ Running(j) /\ Head(job[j].packages) = p /\ job'[j] # job[j]
               /\ Release(j) \in registry' \ registry
               => \/ <<Core, VersionAt[commit][Core]>> \in registry
                  \/ Core \in job[j].failed
                  \/ Core \in Broken[commit]
                  \/ job[j].packageArg = p]_publishVars
  BY <1>1
<1> QED
  BY <1>2, PublishInitInv, PublishNextInv, PTL DEF PublishSpec, DependentsAfterCore
=============================================================================
