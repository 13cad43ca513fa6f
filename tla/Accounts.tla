------------------------------ MODULE Accounts ------------------------------
(***************************************************************************)
(* Registration and login (internal/service/auth_service.go): concurrent   *)
(* requests that meet only in the users table.  Register looks the address *)
(* up, spends its time in bcrypt, and inserts; nothing but the UNIQUE      *)
(* constraint on users.email (migrations/000001) stands between two that   *)
(* register one address.  No statement of the API updates or deletes a     *)
(* user.  TaskFlow sees InsertUser as its action Register.                 *)
(***************************************************************************)
EXTENDS Naturals

CONSTANTS Req,        \* requests; each runs once, a retry is another request
          UserId,     \* ids of users; a request mints its own
          Spelling,   \* addresses as typed
          Canon,      \* strings.ToLower(strings.TrimSpace(_)) of a spelling
          WellFormed, \* the spellings that pass the validator's email tag
          Password,
          RuneCount,  \* what the validator's min and max count
          ByteCount,  \* what bcrypt counts
          Digest,     \* what bcrypt makes of a password, up to its salt
          NoRow,
          InitialUsers

minPasswordLength == 8
maxPasswordLength == 72
bcryptMaxBytes    == 72

UserRow == [id : UserId, email : Spelling, hash : {Digest[p] : p \in Password}]
Ask == [op : {"register", "login"}, email : Spelling, password : Password]

ASSUME ConversionsAssumption ==
    /\ Canon \in [Spelling -> Spelling]
    /\ WellFormed \subseteq Spelling
    /\ RuneCount \in [Password -> Nat] /\ ByteCount \in [Password -> Nat]
    /\ NoRow \notin UserRow

(* uuid.New() never draws an id twice.  Stored addresses are unique: the   *)
(* schema is older than every row.                                         *)
ASSUME UsersAssumption ==
    /\ Req \subseteq UserId
    /\ InitialUsers \subseteq UserRow
    /\ \A a, b \in InitialUsers : a.email = b.email \/ a.id = b.id => a = b
    /\ \A a \in InitialUsers : a.id \notin Req

VARIABLES
    users,   \* the committed rows
    expiry,  \* JWT_EXPIRY, of which Load checks only the syntax
    pc, ask,
    loaded,  \* the row the request found, or inserted
    reply,   \* the status code
    bearer   \* whom the token of the answer names

vars == <<users, expiry, pc, ask, loaded, reply, bearer>>

Undecided == 0
Expiry == {"positive", "zeroOrLess"}
Codes == {200, 201, 400, 401, 409, 500}
Nobody == NoRow
Running == {"ensureEmailAvailable", "hashPassword", "insertUser",
            "findByEmail", "comparePassword", "issueToken"}

Init ==
    /\ users = InitialUsers
    /\ expiry \in Expiry
    /\ pc = [r \in Req |-> "idle"]
    /\ ask \in [Req -> Ask]
    /\ loaded = [r \in Req |-> NoRow]
    /\ reply = [r \in Req |-> Undecided]
    /\ bearer = [r \in Req |-> Nobody]

Goto(r, label) == pc' = [pc EXCEPT ![r] = label] /\ UNCHANGED reply

Answer(r, code) ==
    /\ pc' = [pc EXCEPT ![r] = "done"]
    /\ reply' = [reply EXCEPT ![r] = code]

(* Variant: addresses are compared as typed.                               *)
AsTyped(e) == e

normalizeEmail(e) == Canon[e]

(* SELECT ... WHERE email = $1.                                            *)
WithEmail(e) == {u \in users : u.email = normalizeEmail(e)}

(* The tags on RegisterRequest and LoginRequest; the address is judged as  *)
(* it was typed.                                                           *)
Valid(a) ==
    /\ a.email \in WellFormed
    /\ a.op = "register" => RuneCount[a.password] \in minPasswordLength..maxPasswordLength

Arrive(r) ==
    /\ pc[r] = "idle"
    /\ IF ~Valid(ask[r]) THEN Answer(r, 400)
       ELSE Goto(r, IF ask[r].op = "register" THEN "ensureEmailAvailable" ELSE "findByEmail")
    /\ UNCHANGED <<users, expiry, ask, loaded, bearer>>

-----------------------------------------------------------------------------
(* Register.                                                               *)

NewUser(r) == [id    |-> r,
               email |-> normalizeEmail(ask[r].email),
               hash  |-> Digest[ask[r].password]]

(* Variant: the address is reserved while the password is hashed.          *)
ReserveEmail(r) ==
    /\ pc[r] = "ensureEmailAvailable"
    /\ IF WithEmail(ask[r].email) # {}
       THEN Answer(r, 409) /\ UNCHANGED users
       ELSE Goto(r, "hashPassword") /\ users' = users \union {NewUser(r)}
    /\ UNCHANGED <<expiry, ask, loaded, bearer>>

EnsureEmailAvailable(r) ==
    /\ pc[r] = "ensureEmailAvailable"
    /\ IF WithEmail(ask[r].email) # {} THEN Answer(r, 409) ELSE Goto(r, "hashPassword")
    /\ UNCHANGED <<users, expiry, ask, loaded, bearer>>

(* The service's own length check counts bytes, of which there are at      *)
(* least as many as characters; bcrypt refuses more than 72, an error no   *)
(* handler maps.                                                           *)
HashPassword(r) ==
    LET bytes == ByteCount[ask[r].password]
    IN  /\ pc[r] = "hashPassword"
        /\ CASE bytes < minPasswordLength -> Answer(r, 400)
             [] bytes > bcryptMaxBytes -> Answer(r, 500)
             [] OTHER -> Goto(r, "insertUser")
        /\ UNCHANGED <<users, expiry, ask, loaded, bearer>>

(* Variant: there is no UNIQUE constraint.                                 *)
InsertUserUnconstrained(r) ==
    /\ pc[r] = "insertUser"
    /\ Goto(r, "issueToken")
    /\ users' = users \union {NewUser(r)}
    /\ loaded' = [loaded EXCEPT ![r] = NewUser(r)]
    /\ UNCHANGED <<expiry, ask, bearer>>

(* Error 23505 is the only one of INSERT that Register maps.               *)
InsertUser(r) ==
    /\ pc[r] = "insertUser"
    /\ IF WithEmail(ask[r].email) # {}
       THEN Answer(r, 409) /\ UNCHANGED <<users, loaded>>
       ELSE /\ Goto(r, "issueToken")
            /\ users' = users \union {NewUser(r)}
            /\ loaded' = [loaded EXCEPT ![r] = NewUser(r)]
    /\ UNCHANGED <<expiry, ask, bearer>>

-----------------------------------------------------------------------------
(* Login, and the token that ends both.                                    *)

FindByEmail(r) ==
    /\ pc[r] = "findByEmail"
    /\ \/ /\ WithEmail(ask[r].email) = {}
          /\ Answer(r, 401)
          /\ UNCHANGED loaded
       \/ \E u \in WithEmail(ask[r].email) :
              Goto(r, "comparePassword") /\ loaded' = [loaded EXCEPT ![r] = u]
    /\ UNCHANGED <<users, expiry, ask, bearer>>

ComparePassword(r) ==
    /\ pc[r] = "comparePassword"
    /\ IF loaded[r].hash = Digest[ask[r].password] THEN Goto(r, "issueToken") ELSE Answer(r, 401)
    /\ UNCHANGED <<users, expiry, ask, loaded, bearer>>

(* GenerateToken fails when JWT_EXPIRY is not positive.  The row of a new  *)
(* user stays.                                                             *)
BuildAuthResponse(r) ==
    /\ pc[r] = "issueToken"
    /\ IF expiry = "positive"
       THEN /\ Answer(r, IF ask[r].op = "register" THEN 201 ELSE 200)
            /\ bearer' = [bearer EXCEPT ![r] = loaded[r].id]
       ELSE Answer(r, 500) /\ UNCHANGED bearer
    /\ UNCHANGED <<users, expiry, ask, loaded>>

(* The client goes away or the process dies; an inserted row stays.        *)
Abandon(r) ==
    /\ pc[r] \in Running
    /\ pc' = [pc EXCEPT ![r] = "lost"]
    /\ UNCHANGED <<users, expiry, ask, loaded, reply, bearer>>

Quiescent == (\A r \in Req : pc[r] \notin Running) /\ UNCHANGED vars

Next ==
    \/ \E r \in Req :
          \/ Arrive(r)
          \/ EnsureEmailAvailable(r) \/ HashPassword(r) \/ InsertUser(r)
          \/ FindByEmail(r) \/ ComparePassword(r) \/ BuildAuthResponse(r)
          \/ Abandon(r)
    \/ Quiescent

Spec == Init /\ [][Next]_vars

-----------------------------------------------------------------------------
(* Properties.                                                             *)

(* Every variable holds what the schema and the handlers' types allow.     *)
TypeOK ==
    /\ users \subseteq UserRow
    /\ expiry \in Expiry
    /\ pc \in [Req -> {"idle", "done", "lost"} \union Running]
    /\ ask \in [Req -> Ask]
    /\ loaded \in [Req -> UserRow \union {NoRow}]
    /\ reply \in [Req -> Codes \union {Undecided}]
    /\ bearer \in [Req -> UserId \union {Nobody}]

(* docs/ARCHITECTURE.md:51: however registrations race between check and   *)
(* insert, and however they spell it, an address belongs to one user.      *)
OneIdentityPerEmail ==
    \A a, b \in users : a.id = b.id \/ a.email = b.email => a = b

Owner(r, u) == u.email = Canon[ask[r].email] /\ u.hash = Digest[ask[r].password]

(* What a client was told is so: a success names the holder of these very  *)
(* credentials (the new row, for a registration), "already registered"     *)
(* is another's row, and a refusal leaves no row behind - but for the one  *)
(* case of a token that could not be signed after the INSERT.              *)
AnswersBacked ==
    \A r \in Req :
        /\ reply[r] \in {200, 201} => \E u \in users : u.id = bearer[r] /\ Owner(r, u)
        /\ reply[r] = 201 => bearer[r] = r
        /\ reply[r] = 409 => \E u \in users : u.id # r /\ u.email = Canon[ask[r].email]
        /\ reply[r] \in {400, 401, 409} \/ (reply[r] = 500 /\ expiry = "positive")
           => \A u \in users : u.id # r

(* A login is refused only while no account has these credentials: once a  *)
(* registration is in the table, whatever happened to its answer, its      *)
(* address in any valid spelling and its password are accepted.            *)
RefusedOnlyStrangers ==
    [][\A r \in Req : reply[r] = Undecided /\ reply'[r] = 401 =>
          ~\E u \in users : Owner(r, u)]_vars

(* docs/API.md:204: a password of 8-72 characters is all Register asks for *)
(* (with a configuration that can sign tokens).  Not so: 72 characters may *)
(* be too many bytes for bcrypt (README, section 4).                       *)
PasswordRulesSuffice ==
    \A r \in Req :
        /\ expiry = "positive"
        /\ RuneCount[ask[r].password] \in 8..72
        => reply[r] # 500

(* docs/SETUP.md:178: extra spaces around an address are trimmed, so they  *)
(* are no reason to refuse a registration or a login.  Not so: they are    *)
(* validated first (README, section 4).                                    *)
PaddingForgiven ==
    \A r \in Req :
        /\ Canon[ask[r].email] \in WellFormed
        /\ RuneCount[ask[r].password] \in 8..72
        => reply[r] # 400

-----------------------------------------------------------------------------
(* The inductive invariant: where a request may be, and what it knows      *)
(* there.  A row keeps what is said of it because no row ever goes.        *)

RouteOf(r) ==
    /\ pc[r] \in {"ensureEmailAvailable", "hashPassword", "insertUser"} => ask[r].op = "register"
    /\ pc[r] \in {"findByEmail", "comparePassword"} => ask[r].op = "login"
    /\ pc[r] # "done" => reply[r] = Undecided

KnowledgeOf(r) ==
    /\ pc[r] \in {"comparePassword", "issueToken"} =>
           loaded[r] \in users /\ loaded[r].email = Canon[ask[r].email]
    /\ pc[r] = "issueToken" =>
           /\ Owner(r, loaded[r])
           /\ ask[r].op = "register" => loaded[r].id = r

(* A request's own row is there from its INSERT on, and not before.        *)
MintedBy(r) ==
    \A u \in users : u.id = r =>
        /\ ask[r].op = "register"
        /\ \/ pc[r] \in {"issueToken", "lost"}
           \/ pc[r] = "done" /\ (reply[r] = 201 \/ (reply[r] = 500 /\ expiry # "positive"))

Settled == \A r \in Req : RouteOf(r) /\ KnowledgeOf(r) /\ MintedBy(r)

IInv == TypeOK /\ OneIdentityPerEmail /\ Settled /\ AnswersBacked
=============================================================================
