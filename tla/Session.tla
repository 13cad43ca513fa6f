------------------------------ MODULE Session -------------------------------
(***************************************************************************)
(* From a login to the caller of a protected route: a token is signed with *)
(* the process's secret and carries times cut to whole seconds; the server *)
(* keeps nothing of it.  AuthMiddleware believes a token by its signature  *)
(* and by the clock of the moment, which may have been set since, in a     *)
(* process that may have been restarted on another configuration.          *)
(***************************************************************************)
EXTENDS Integers, FiniteSets

CONSTANTS
    UserId,
    Secret,     \* values of JWT_SECRET
    Lifetime,   \* values of JWT_EXPIRY, in ticks of the clock
    Day,        \* 24 hours, the default
    Unset,      \* an environment variable that is not there, or empty
    Malformed,  \* one that does not parse
    NoToken,    \* a header that is absent, of another scheme, or no JWT
    Nobody,     \* no caller
    Second,     \* ticks in a second, to which JWT cuts its times
    Clock,      \* what the clock may show
    MaxTokens   \* bound on the tokens there are

ASSUME TimeAssumption ==
    Second \in Nat \ {0} /\ Lifetime \subseteq Int /\ Day \in Lifetime /\ Clock \subseteq Nat

(* What a token says, and when and by whose configuration it was made.     *)
Token == [user : UserId, secret : Secret, nbf : Int, exp : Int,
          at : Clock, life : Lifetime]

ASSUME AbsentAssumption ==
    /\ Nobody \notin UserId
    /\ {Unset, Malformed} \intersect (Secret \union Lifetime) = {}
    /\ NoToken \notin Token

VARIABLES
    clock,    \* the server's clock
    config,   \* of the running process, or Unset while there is none
    users,    \* the registered users
    tokens,   \* the tokens that were issued
    request   \* the last protected request, and the caller it was taken for

vars == <<clock, config, users, tokens, request>>

(* The environment a process may find; other says that DATABASE_URL,       *)
(* BCRYPT_COST and GIN_MODE are acceptable.                                *)
Environment == [secret : Secret \union {Unset},
                expiry : Lifetime \union {Unset, Malformed},
                other  : BOOLEAN]

Loads(env) ==
    /\ env.other
    /\ env.secret # Unset
    /\ env.expiry # Malformed

Load(env) == [secret |-> env.secret,
              expiry |-> IF env.expiry = Unset THEN Day ELSE env.expiry]

Init ==
    /\ clock \in Clock
    /\ config = Unset
    /\ users = {}
    /\ tokens = {}
    /\ request = [header |-> NoToken, caller |-> Nobody, clock |-> clock, secret |-> Unset]

-----------------------------------------------------------------------------
(* The process and its clock.                                              *)

(* With a configuration that does not load, main exits.                    *)
Start(env) ==
    /\ config = Unset
    /\ Loads(env)
    /\ config' = Load(env)
    /\ UNCHANGED <<clock, users, tokens, request>>

Exit ==
    /\ config # Unset
    /\ config' = Unset
    /\ UNCHANGED <<clock, users, tokens, request>>

(* Time passes, or the clock is set.                                       *)
SetClock(t) ==
    /\ clock' = t
    /\ UNCHANGED <<config, users, tokens, request>>

-----------------------------------------------------------------------------
(* Tokens.                                                                 *)

(* Variant: times are rounded to the nearest second.                       *)
NearestSecond(t) == ((2 * t + Second) \div (2 * Second)) * Second

(* jwt.NewNumericDate                                                      *)
WholeSecond(t) == t - (t % Second)

GenerateToken(u) ==
    [user |-> u, secret |-> config.secret,
     nbf |-> WholeSecond(clock), exp |-> WholeSecond(clock + config.expiry),
     at |-> clock, life |-> config.expiry]

(* JWT_EXPIRY is only parsed; the token cannot be made if it is not        *)
(* positive, and the user that registered is in the table all the same.    *)
Issue(u) ==
    tokens' = IF config.expiry <= 0 THEN tokens ELSE tokens \union {GenerateToken(u)}

Full == Cardinality(tokens) >= MaxTokens

Register(u) ==
    /\ config # Unset
    /\ ~Full
    /\ u \notin users
    /\ users' = users \union {u}
    /\ Issue(u)
    /\ UNCHANGED <<clock, config, request>>

(* Variant: the user that was asked for, found or not.                     *)
LoginUnfound(u) ==
    /\ config # Unset
    /\ ~Full
    /\ Issue(u)
    /\ UNCHANGED <<clock, config, users, request>>

Login(u) ==
    /\ config # Unset
    /\ ~Full
    /\ u \in users
    /\ Issue(u)
    /\ UNCHANGED <<clock, config, users, request>>

(* The checks of ParseWithClaims: signature, exp and nbf, no leeway.       *)
ValidateToken(t) ==
    /\ t.secret = config.secret
    /\ clock < t.exp
    /\ t.nbf <= clock

(* AuthMiddleware and GetUserIDFromContext: anything else is 401.          *)
Authorize(h) ==
    /\ config # Unset
    /\ request' = [header |-> h,
                   caller |-> IF h # NoToken /\ ValidateToken(h) THEN h.user ELSE Nobody,
                   clock  |-> clock,
                   secret |-> config.secret]
    /\ UNCHANGED <<clock, config, users, tokens>>

Next ==
    \/ \E env \in Environment : Start(env)
    \/ Exit
    \/ \E t \in Clock : SetClock(t)
    \/ \E u \in UserId : Register(u) \/ Login(u)
    \/ \E h \in tokens \union {NoToken} : Authorize(h)

Spec == Init /\ [][Next]_vars

-----------------------------------------------------------------------------
(* Properties.                                                             *)

(* Every variable holds what the process and the tokens' claims allow.     *)
TypeOK ==
    /\ clock \in Clock
    /\ config \in [secret : Secret, expiry : Lifetime] \union {Unset}
    /\ users \subseteq UserId
    /\ tokens \subseteq Token
    /\ request \in [header : Token \union {NoToken}, caller : UserId \union {Nobody},
                    clock : Clock, secret : Secret \union {Unset}]

Carried == request.header # NoToken

(* Whatever was restarted, reconfigured or set in between, the caller of a *)
(* protected route is a registered user, who holds a token of this secret  *)
(* that is not older than the JWT_EXPIRY it was issued with                *)
(* (docs/API.md:72); docs/API.md:76: everything else is 401.               *)
CallerIsHolder ==
    request.caller # Nobody =>
        /\ Carried
        /\ request.header.user = request.caller
        /\ request.caller \in users
        /\ request.header.secret = request.secret
        /\ request.clock < request.header.at + request.header.life

(* A holder is not locked out: from the very tick of its issue a token is  *)
(* good, up to the last second of its lifetime, in which cutting to whole  *)
(* seconds may end it, and through restarts that keep the secret.          *)
LiveTokenAccepted ==
    LET t == request.header
    IN  Carried /\ t.secret = request.secret
            /\ t.at <= request.clock /\ request.clock + Second <= t.at + t.life
        => request.caller = t.user

IInv ==
    /\ TypeOK
    /\ \A t \in tokens :
           /\ t.user \in users
           /\ t.nbf <= t.at
           /\ t.exp <= t.at + t.life /\ t.at + t.life < t.exp + Second
    /\ Carried => request.header \in tokens
    /\ CallerIsHolder
    /\ LiveTokenAccepted
=============================================================================
