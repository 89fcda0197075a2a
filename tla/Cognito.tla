------------------------------ MODULE Cognito ------------------------------
(***************************************************************************)
(* CognitoAuthService and CognitoService of libs-aws, an application that  *)
(* keeps what they return, and the user pool they call.  Each action is a  *)
(* call with what the pool does with it.  A refusal that leaves pool and   *)
(* application as they were is no step.  An answer may be lost on the way; *)
(* the AWS SDK then sends the command again or gives up.                   *)
(***************************************************************************)
EXTENDS Integers, FiniteSets

CONSTANTS
  User,
  Call,         \* concurrent calls of refreshToken
  None,         \* nothing: no challenge, no token, an option left out
  MaxSession,   \* bound: challenges and sign-ins of a user
  MaxGen,       \* bound: refresh tokens of one sign-in
  MaxLost       \* bound: answers lost

ASSUME SessionBoundsAssumption == {MaxSession, MaxGen, MaxLost} \subseteq Nat
ASSUME NoneAssumption == None \notin Nat \X Nat   \* no refresh token

\* The gen-th refresh token of a sign-in; both are numbers.
Token == (1..MaxSession) \X (1..MaxGen)
ChallengeName == {"NEW_PASSWORD_REQUIRED", "SMS_MFA"}
Challenge == [name : ChallengeName, session : 1..MaxSession]

VARIABLES
  options,    \* the app client and the module's options, which agree
  account,    \* the pool's users
  code,       \* per user, the verification code sent and not used
  accepted,   \* per user, the refresh tokens the pool accepts
  active,     \* per user, the sign-ins whose access tokens it accepts
  pending,    \* per user, the challenge it waits for
  count,      \* per user, the challenges and sign-ins so far
  tokens,     \* per user, the refresh token the application keeps
  challenge,  \* per user, the challenge the application was told to answer
  flight,     \* per call, the refresh under way
  lost,       \* answers lost so far
  (* auxiliary *)
  since,      \* per user, count when an administrator set the password, None once the user did
  behind,     \* users whose challenge was overtaken or answered without the application knowing
  excused     \* users whose session was revoked, or rotated without the application knowing

userVars == <<account, code, accepted, active, pending, count, since>>
appVars == <<tokens, challenge, behind, excused>>
cognitoVars == <<options, userVars, appVars, flight, lost>>

NoAccount == [status |-> "none", enabled |-> FALSE]
NoFlight == [user |-> None, token |-> None, command |-> "none", hash |-> FALSE, answer |-> "none"]

CognitoInit ==
  /\ options \in [secret : BOOLEAN, rotates : BOOLEAN, mfa : BOOLEAN, rotation : BOOLEAN]
  /\ options.rotates => options.rotation
  /\ account = [u \in User |-> NoAccount]
  /\ code = [u \in User |-> "none"]
  /\ accepted = [u \in User |-> {}]
  /\ active = [u \in User |-> {}]
  /\ pending = [u \in User |-> None]
  /\ count = [u \in User |-> 0]
  /\ tokens = [u \in User |-> None]
  /\ challenge = [u \in User |-> None]
  /\ flight = [k \in Call |-> NoFlight]
  /\ lost = 0
  /\ since = [u \in User |-> None]
  /\ behind = {}
  /\ excused = {}

Working(u) == account[u].status = "CONFIRMED" /\ account[u].enabled

\* What the callers are told of what went wrong.
Codes ==
  [UserNotFoundException |-> "USER_NOT_FOUND", UsernameExistsException |-> "USER_ALREADY_EXISTS",
   NotAuthorizedException |-> "NOT_AUTHORIZED", InvalidPasswordException |-> "INVALID_PASSWORD",
   CodeMismatchException |-> "CODE_MISMATCH", ExpiredCodeException |-> "CODE_EXPIRED",
   PasswordResetRequiredException |-> "PASSWORD_RESET_REQUIRED",
   UserNotConfirmedException |-> "USER_NOT_CONFIRMED"]

MapError(error) == IF error \in DOMAIN Codes THEN Codes[error] ELSE "INTERNAL_ERROR"

\* Whether a command bears a SECRET_HASH.
SecretHash(username) == options.secret /\ username

\* The pool asks a client with a secret for the hash.
HashSuffices(username) == options.secret => SecretHash(username)

-----------------------------------------------------------------------------
(* Signing up and administration: the pool changes, the application keeps nothing. *)

Admin(u, status, enabled, at) ==
  /\ account' = [account EXCEPT ![u] = [status |-> status, enabled |-> enabled]]
  /\ since' = [since EXCEPT ![u] = at]

\* The pool forgets the challenge it waits for; the application may still hold it.
Overtake(u) ==
  /\ pending' = [pending EXCEPT ![u] = None]
  /\ behind' = behind \cup {u}

Revoke(u) ==
  /\ accepted' = [accepted EXCEPT ![u] = {}]
  /\ active' = [active EXCEPT ![u] = {}]
  /\ excused' = excused \cup {u}

SignUp(u) ==
  /\ account[u].status = "none" /\ HashSuffices(TRUE)
  /\ Admin(u, "UNCONFIRMED", TRUE, None)
  /\ code' = [code EXCEPT ![u] = "signup"]
  /\ UNCHANGED <<options, accepted, active, pending, count, appVars, flight, lost>>

ConfirmSignUp(u) ==
  /\ account[u].status = "UNCONFIRMED" /\ code[u] = "signup" /\ HashSuffices(TRUE)
  /\ Admin(u, "CONFIRMED", account[u].enabled, since[u])
  /\ code' = [code EXCEPT ![u] = "none"]
  /\ UNCHANGED <<options, accepted, active, pending, count, appVars, flight, lost>>

ForgotPassword(u) ==
  /\ Working(u) /\ HashSuffices(TRUE)
  /\ code' = [code EXCEPT ![u] = "reset"]
  /\ UNCHANGED <<options, account, accepted, active, pending, count, since, appVars, flight, lost>>

ConfirmForgotPassword(u) ==
  /\ code[u] = "reset" /\ account[u].enabled /\ HashSuffices(TRUE)
  /\ Admin(u, "CONFIRMED", TRUE, None)
  /\ code' = [code EXCEPT ![u] = "none"]
  /\ UNCHANGED <<options, accepted, active, pending, count, appVars, flight, lost>>

ChangePassword(u) ==
  /\ Working(u) /\ tokens[u] # None /\ tokens[u][1] \in active[u]
  /\ since' = [since EXCEPT ![u] = None]
  /\ UNCHANGED <<options, account, code, accepted, active, pending, count, appVars, flight, lost>>

CreateUser(u) ==
  /\ account[u].status = "none"
  /\ Admin(u, "FORCE_CHANGE_PASSWORD", TRUE, count[u])
  /\ UNCHANGED <<options, code, accepted, active, pending, count, appVars, flight, lost>>

DeleteUser(u) ==
  /\ account[u].status # "none"
  /\ Admin(u, "none", FALSE, None)
  /\ Overtake(u) /\ Revoke(u)
  /\ code' = [code EXCEPT ![u] = "none"]
  /\ UNCHANGED <<options, count, tokens, challenge, flight, lost>>

\* Access tokens are revoked; refresh tokens are refused until the user is enabled.
DisableUser(u) ==
  /\ account[u].status # "none"
  /\ Admin(u, account[u].status, FALSE, since[u])
  /\ active' = [active EXCEPT ![u] = {}]
  /\ excused' = excused \cup {u}
  /\ UNCHANGED <<options, code, accepted, pending, count, tokens, challenge, behind, flight, lost>>

EnableUser(u) ==
  /\ account[u].status # "none"
  /\ Admin(u, account[u].status, TRUE, since[u])
  /\ UNCHANGED <<options, code, accepted, active, pending, count, appVars, flight, lost>>

\* Mutant: a password is permanent unless said otherwise.
SetUserPasswordForGood(u, permanent) ==
  /\ account[u].status # "none"
  /\ Admin(u, IF permanent = FALSE THEN "FORCE_CHANGE_PASSWORD" ELSE "CONFIRMED", account[u].enabled,
           IF permanent = TRUE THEN None ELSE count[u])
  /\ Overtake(u)
  /\ UNCHANGED <<options, code, accepted, active, count, tokens, challenge, excused, flight, lost>>

\* permanent is TRUE, FALSE or left out.
SetUserPassword(u, permanent) ==
  /\ account[u].status # "none"
  /\ Admin(u, IF permanent = TRUE THEN "CONFIRMED" ELSE "FORCE_CHANGE_PASSWORD", account[u].enabled,
           IF permanent = TRUE THEN None ELSE count[u])
  /\ Overtake(u)
  /\ UNCHANGED <<options, code, accepted, active, count, tokens, challenge, excused, flight, lost>>

AdminSignOut(u) ==
  /\ account[u].status # "none"
  /\ Revoke(u)
  /\ UNCHANGED <<options, account, code, pending, count, since, tokens, challenge, behind, flight, lost>>

-----------------------------------------------------------------------------
(* Signing in, challenge by challenge. *)

\* What the pool does next with a user whose password it has taken.
Grant(u) ==
  /\ accepted' = [accepted EXCEPT ![u] = @ \cup {<<count'[u], 1>>}]
  /\ active' = [active EXCEPT ![u] = @ \cup {count'[u]}]
  /\ pending' = [pending EXCEPT ![u] = None]

Ask(u, name) ==
  /\ pending' = [pending EXCEPT ![u] = [name |-> name, session |-> count'[u]]]
  /\ UNCHANGED <<accepted, active>>

\* Mutant: the caller is given the session it answered back.
ToldWithOldSession(u) ==
  IF challenge[u] = None THEN pending'[u] ELSE [pending'[u] EXCEPT !.session = challenge[u].session]

\* The challenge as it is told, with its new session.
Told(u) == pending'[u]

\* The result: tokens, or the challenge with its session.
Tell(u, next) ==
  /\ IF next = "tokens"
     THEN /\ tokens' = [tokens EXCEPT ![u] = <<count'[u], 1>>]
          /\ challenge' = [challenge EXCEPT ![u] = None]
          /\ excused' = excused \ {u}
     ELSE /\ challenge' = [challenge EXCEPT ![u] = Told(u)]
          /\ UNCHANGED <<tokens, excused>>
  /\ behind' = behind \ {u}
  /\ UNCHANGED lost

\* The answer does not arrive: an internal error, the application keeps what it has.
LoseAnswer(u) ==
  /\ lost < MaxLost
  /\ lost' = lost + 1
  /\ behind' = behind \cup {u}
  /\ UNCHANGED <<tokens, challenge, excused>>

Proceed(u, next) ==
  /\ count[u] < MaxSession
  /\ count' = [count EXCEPT ![u] = @ + 1]
  /\ IF next = "tokens" THEN Grant(u) ELSE Ask(u, next)
  /\ Tell(u, next) \/ LoseAnswer(u)
  /\ UNCHANGED <<options, code, flight>>

AfterPassword == IF options.mfa THEN "SMS_MFA" ELSE "tokens"

SignIn(u) ==
  /\ account[u].enabled /\ account[u].status # "UNCONFIRMED" /\ HashSuffices(TRUE)
  /\ Proceed(u, IF Working(u) THEN AfterPassword ELSE "NEW_PASSWORD_REQUIRED")
  /\ UNCHANGED <<account, since>>

\* username tells whether the responses name the user.
RespondToChallenge(u, username) ==
  /\ challenge[u] # None /\ challenge[u] = pending[u]
  /\ account[u].enabled /\ HashSuffices(username)
  /\ IF challenge[u].name = "SMS_MFA"
     THEN Proceed(u, "tokens") /\ UNCHANGED <<account, since>>
     ELSE Proceed(u, AfterPassword) /\ Admin(u, "CONFIRMED", TRUE, None)

SignOut(u) ==
  /\ tokens[u] # None /\ tokens[u][1] \in active[u]
  /\ Revoke(u)
  /\ \/ tokens' = [tokens EXCEPT ![u] = None] /\ UNCHANGED lost
     \/ lost < MaxLost /\ lost' = lost + 1 /\ UNCHANGED tokens
  /\ UNCHANGED <<options, account, code, pending, count, since, challenge, behind, flight>>

-----------------------------------------------------------------------------
(* Refreshing tokens.  Calls overlap, and answers arrive in any order. *)

\* Which command is sent; rotation and the username may be left out.
RefreshesByToken(rotation, username) ==
  \/ IF rotation # None THEN rotation ELSE options.rotation
  \/ options.secret /\ ~username

\* rotation may contradict the module's options, and so the client.
BeginRefresh(k, u, rotation, username) ==
  LET byToken == RefreshesByToken(rotation, username)
  IN  /\ flight[k] = NoFlight /\ tokens[u] # None
      /\ flight' = [flight EXCEPT ![k] =
           [user |-> u, token |-> tokens[u], answer |-> "none",
            command |-> IF byToken THEN "GetTokensFromRefreshToken" ELSE "InitiateAuth",
            hash |-> ~byToken /\ SecretHash(username)]]
      /\ UNCHANGED <<options, userVars, appVars, lost>>

Rotated(token) == IF options.rotates THEN <<token[1], token[2] + 1>> ELSE token

\* The pool accepts the token, and the command if it is one for this client: one that
\* rotates its refresh tokens takes none by InitiateAuth.
Accepts(refresh) ==
  /\ account[refresh.user].enabled /\ refresh.token \in accepted[refresh.user]
  /\ \/ refresh.command = "GetTokensFromRefreshToken"
     \/ ~options.rotates /\ (options.secret => refresh.hash)

\* The command, and the command sent again after its answer was lost.
PoolRefreshes(k) ==
  LET u == flight[k].user
      token == flight[k].token
  IN  /\ flight[k].answer \in {"none", "lost"} /\ u # None
      /\ IF Accepts(flight[k])
         THEN /\ Rotated(token) \in Token
              /\ accepted' = [accepted EXCEPT ![u] = (@ \ {token}) \cup {Rotated(token)}]
              /\ flight' = [flight EXCEPT ![k].answer = "tokens"]
         ELSE /\ flight' = [flight EXCEPT ![k].answer = "refused"]
              /\ UNCHANGED accepted
      /\ UNCHANGED <<options, account, code, active, pending, count, since, appVars, lost>>

RefreshLost(k) ==
  /\ flight[k].answer \in {"tokens", "refused"} /\ lost < MaxLost
  /\ lost' = lost + 1
  /\ flight' = [flight EXCEPT ![k].answer = "lost"]
  /\ excused' = IF options.rotates /\ flight[k].answer = "tokens" THEN excused \cup {flight[k].user} ELSE excused
  /\ UNCHANGED <<options, userVars, tokens, challenge, behind>>

\* Mutant: the token that was sent is returned.
RefreshedKeepingInput(token) == token

\* The answer's refresh token or, if it has none, the one that was sent.
Refreshed(token) == Rotated(token)

\* The application lets no late answer replace the tokens of another sign-in, or those
\* it has given up; it gives them up when it is told NOT_AUTHORIZED for them.
EndRefresh(k) ==
  LET u == flight[k].user
      error == IF flight[k].answer = "refused" THEN "NotAuthorizedException" ELSE "TimeoutError"
  IN  /\ flight[k].answer \in {"tokens", "refused", "lost"}
      /\ flight' = [flight EXCEPT ![k] = NoFlight]
      /\ tokens' = [tokens EXCEPT ![u] =
           IF @ # flight[k].token THEN @
           ELSE IF flight[k].answer = "tokens" THEN Refreshed(@)
           ELSE IF MapError(error) = "NOT_AUTHORIZED" THEN None
           ELSE @]
      /\ UNCHANGED <<options, userVars, challenge, behind, excused, lost>>

CognitoNext ==
  \/ \E u \in User :
       \/ SignUp(u) \/ ConfirmSignUp(u) \/ ForgotPassword(u) \/ ConfirmForgotPassword(u) \/ ChangePassword(u)
       \/ CreateUser(u) \/ DeleteUser(u) \/ DisableUser(u) \/ EnableUser(u) \/ AdminSignOut(u)
       \/ \E permanent \in {None, TRUE, FALSE} : SetUserPassword(u, permanent)
       \/ SignIn(u) \/ SignOut(u)
       \/ \E username \in BOOLEAN : RespondToChallenge(u, username)
       \/ \E k \in Call, rotation \in {None, TRUE, FALSE}, username \in BOOLEAN :
            BeginRefresh(k, u, rotation, username)
  \/ \E k \in Call :
       \/ PoolRefreshes(k) \/ RefreshLost(k) \/ EndRefresh(k)

CognitoSpec == CognitoInit /\ [][CognitoNext]_cognitoVars

-----------------------------------------------------------------------------
\* Accounts, tokens, challenges and calls.
CognitoTypeOK ==
  /\ account \in [User -> [status : {"none", "UNCONFIRMED", "CONFIRMED", "FORCE_CHANGE_PASSWORD"}, enabled : BOOLEAN]]
  /\ code \in [User -> {"none", "signup", "reset"}]
  /\ accepted \in [User -> SUBSET Token]
  /\ active \in [User -> SUBSET (1..MaxSession)]
  /\ pending \in [User -> Challenge \cup {None}] /\ challenge \in [User -> Challenge \cup {None}]
  /\ tokens \in [User -> Token \cup {None}]
  /\ flight \in [Call -> [user : User \cup {None}, token : Token \cup {None}, hash : BOOLEAN,
                          command : {"none", "GetTokensFromRefreshToken", "InitiateAuth"},
                          answer : {"none", "tokens", "refused", "lost"}]]
  /\ lost \in 0..MaxLost

\* A refresh of the token the application keeps.
Refreshing(k, u) == flight[k].user = u /\ flight[k].token = tokens[u]

\* An application is told to give a session up only when it was revoked or the user
\* disabled, when the answer of a refresh that rotated its token was lost, while another
\* refresh of the same token is still being answered, or when the refresh itself asked a
\* client that rotates for no rotation, which the option given with a call may do whatever
\* the module's option says: with or without a client secret and a username, and after
\* answers that were lost on the way (cognito-auth.service.ts, refreshToken;
\* cognito.errors.ts, map).
SessionKept ==
  [][\A u \in User :
       tokens[u] # None /\ tokens'[u] = None =>
         \/ u \in excused'
         \/ \E k \in Call : Refreshing(k, u) /\ flight[k].answer = "tokens" /\ flight'[k] = flight[k]
         \/ options.rotates /\ \E k \in Call :
              Refreshing(k, u) /\ flight[k].command = "InitiateAuth" /\ flight'[k] # flight[k]]_cognitoVars

\* The challenge an application holds is the one the pool waits for, along the whole
\* chain of challenges, unless an answer was lost or an administrator intervened
\* (cognito-auth.service.ts, signIn and respondToChallenge).
ChallengeResumable ==
  \A u \in User \ behind : challenge[u] # None => challenge[u] = pending[u]

\* Nobody is signed in with a password an administrator chose without calling it
\* permanent: the sign-ins of a user who has not chosen another since are all older
\* (cognito.service.ts, createUser and setUserPassword).
TemporaryNeverSuffices ==
  \A u \in User : since[u] # None => \A token \in accepted[u] : token[1] <= since[u]
=============================================================================
