------------------------------ MODULE Accounts -------------------------------
(* Accounts: registration, the e-mail code, login, sessions, API keys and    *)
(* the password (services/users.py, services/api_keys.py, security.py, and   *)
(* the routes of api/auth.py, web/auth.py, web/profile.py).                  *)
(*                                                                           *)
(* A request reads the account in one action - checking a password hands the *)
(* hashing to a thread, where others may overtake it - and commits in a      *)
(* later one.  It writes the columns it assigned, with the values it chose.  *)
(* Confirmation is on (email_verification_enabled); an instance without SMTP *)
(* confirms every account as it is made, and gates nothing.                  *)
EXTENDS Integers, FiniteSets

CONSTANTS
    Users,      \* who may register: a login and its e-mail address
    Passwords,
    Requests,   \* requests that may be in flight
    MaxCodes,   \* bound: the codes sent to one address
    MaxSlugs,   \* bound: personal domains of others
    None

VARIABLES
    account,   \* the user table: [Users -> row or None]
    sent,      \* how many codes each was sent; a code is its number
    session,   \* the users with a session
    apiKey,    \* the users with an API key that is not revoked
    slugs,     \* the slugs of the domains called like a personal one: numbers
    req        \* the requests: what each has read

vars == <<account, sent, session, apiKey, slugs, req>>

Idle == [op |-> "none"]

(* code is the pending confirmation code; outdated, that the hash was made   *)
(* with parameters that have changed since.                                  *)
Rows == [verified : BOOLEAN, code : 1..MaxCodes \cup {None}, lapsed : BOOLEAN,
         password : Passwords, outdated : BOOLEAN]

(* What the code lets one assume of the constants: None is no code and no    *)
(* row.                                                                      *)
AccountsAssumption ==
    /\ IsFiniteSet(Users) /\ MaxCodes \in Nat \ {0} /\ MaxSlugs \in Nat
    /\ None \notin 1..MaxCodes /\ None \notin Rows

Registered(u) == account[u] # None
SignedIn(u) == Registered(u) /\ (u \in session \/ u \in apiKey)

Begin(r, x) ==
    /\ req[r] = Idle
    /\ req' = [req EXCEPT ![r] = x]
    /\ UNCHANGED <<account, sent, session, apiKey, slugs>>

(* The requests in flight for the same user have read what is out of date.   *)
Done(r) ==
    req' = [x \in Requests |->
              IF x = r THEN Idle
              ELSE IF req[x] # Idle /\ req[x].user = req[r].user
              THEN [req[x] EXCEPT !.overtaken = TRUE] ELSE req[x]]

User(r) == req[r].user

-----------------------------------------------------------------------------
(* Registration. *)

(* unique_slug over the slugs there are: the first that is free.             *)
FreeSlug == CHOOSE n \in 1..(Cardinality(slugs) + 1) :
               n \notin slugs /\ \A m \in 1..(n - 1) : m \in slugs

(* register_user up to its flush: the name is free, and a personal domain    *)
(* comes with the account.                                                   *)
Register(r, u, p) ==
    /\ ~Registered(u)
    /\ Begin(r, [op |-> "register", user |-> u, password |-> p, slug |-> FreeSlug,
                 overtaken |-> FALSE])

Taken(r) == Registered(User(r)) \/ req[r].slug \in slugs

(* A fault: the account is signed in at once. *)
FaultSignedIn(u) == session \cup {u}

(* The account is dormant until its code is confirmed.                       *)
SessionsAfterRegister(u) == session

(* The account, the domain and the first code in one transaction.            *)
CommitRegister(r) ==
    /\ req[r].op = "register" /\ ~Taken(r) /\ sent[User(r)] < MaxCodes
    /\ account' = [account EXCEPT ![User(r)] =
                     [verified |-> FALSE, code |-> sent[User(r)] + 1, lapsed |-> FALSE,
                      password |-> req[r].password, outdated |-> FALSE]]
    /\ sent' = [sent EXCEPT ![User(r)] = @ + 1]
    /\ slugs' = slugs \cup {req[r].slug}
    /\ session' = SessionsAfterRegister(User(r))
    /\ Done(r)
    /\ UNCHANGED apiKey

(* The name was taken meanwhile - or only the slug, by anyone's registration.*)
RegisterFails(r) ==
    /\ req[r].op = "register" /\ Taken(r)
    /\ req' = [req EXCEPT ![r] = Idle]
    /\ UNCHANGED <<account, sent, session, apiKey, slugs>>

OthersRegister ==
    /\ Cardinality(slugs) < MaxSlugs
    /\ slugs' = slugs \cup {FreeSlug}
    /\ UNCHANGED <<account, sent, session, apiKey, req>>

-----------------------------------------------------------------------------
(* Login. *)

(* A fault: the password is not looked at. *)
FaultAnyPassword(u, p) == Registered(u)

PasswordGood(u, p) == Registered(u) /\ account[u].password = p

(* authenticate, up to what it or the route after it writes.                 *)
Authenticate(r, u, p) ==
    /\ PasswordGood(u, p)
    /\ Begin(r, [op |-> "login", user |-> u, typed |-> p, rehash |-> account[u].outdated,
                 verified |-> account[u].verified, overtaken |-> FALSE])

(* The hash is made anew of the password that was typed.                     *)
Rehashed(r) ==
    IF req[r].rehash THEN [account[User(r)] EXCEPT !.password = req[r].typed, !.outdated = FALSE]
                     ELSE account[User(r)]

(* login, login_submit: a session for a confirmed address.                   *)
Login(r) ==
    /\ req[r].op = "login" /\ req[r].verified
    /\ account' = [account EXCEPT ![User(r)] = Rehashed(r)]
    /\ session' = session \cup {User(r)}
    /\ Done(r)
    /\ UNCHANGED <<sent, apiKey, slugs>>

(* The web sends an unconfirmed one a new code, ...                          *)
WebLoginUnverified(r) ==
    /\ req[r].op = "login" /\ ~req[r].verified /\ sent[User(r)] < MaxCodes
    /\ account' = [account EXCEPT ![User(r)] =
                     [Rehashed(r) EXCEPT !.code = sent[User(r)] + 1, !.lapsed = FALSE]]
    /\ sent' = [sent EXCEPT ![User(r)] = @ + 1]
    /\ Done(r)
    /\ UNCHANGED <<session, apiKey, slugs>>

(* ... the API answers 403, and all is rolled back.                          *)
ApiLoginUnverified(r) ==
    /\ req[r].op = "login" /\ ~req[r].verified
    /\ req' = [req EXCEPT ![r] = Idle]
    /\ UNCHANGED <<account, sent, session, apiKey, slugs>>

-----------------------------------------------------------------------------
(* The code. *)

(* confirm_email_code: what is typed is the code that is stored and valid.   *)
CodeGood(u, code) == Registered(u) /\ account[u].code = code /\ ~account[u].lapsed

VerifyCode(r, u, code) ==
    /\ CodeGood(u, code)
    /\ Begin(r, [op |-> "verify", user |-> u, overtaken |-> FALSE])

(* A fault: the code stays when the address is confirmed. *)
FaultCodeStays(row) == [row EXCEPT !.verified = TRUE]

Confirmed(row) == [row EXCEPT !.verified = TRUE, !.code = None, !.lapsed = FALSE]

CommitVerify(r) ==
    /\ req[r].op = "verify"
    /\ account' = [account EXCEPT ![User(r)] = Confirmed(@)]
    /\ session' = session \cup {User(r)}
    /\ Done(r)
    /\ UNCHANGED <<sent, apiKey, slugs>>

VerifyResend(r, u) ==
    /\ Registered(u) /\ ~account[u].verified
    /\ Begin(r, [op |-> "resend", user |-> u, overtaken |-> FALSE])

(* issue_verify_code *)
CommitResend(r) ==
    /\ req[r].op = "resend" /\ sent[User(r)] < MaxCodes
    /\ account' = [account EXCEPT ![User(r)].code = sent[User(r)] + 1, ![User(r)].lapsed = FALSE]
    /\ sent' = [sent EXCEPT ![User(r)] = @ + 1]
    /\ Done(r)
    /\ UNCHANGED <<session, apiKey, slugs>>

-----------------------------------------------------------------------------
(* What one who is signed in may do; sessions stay as they are.              *)

ChangePassword(r, u, p, new) ==
    /\ SignedIn(u) /\ account[u].password = p
    /\ Begin(r, [op |-> "password", user |-> u, password |-> new, overtaken |-> FALSE])

CommitPassword(r) ==
    /\ req[r].op = "password"
    /\ account' = [account EXCEPT ![User(r)].password = req[r].password, ![User(r)].outdated = FALSE]
    /\ Done(r)
    /\ UNCHANGED <<sent, session, apiKey, slugs>>

CreateApiKey(u) ==
    /\ SignedIn(u) /\ u \notin apiKey
    /\ apiKey' = apiKey \cup {u}
    /\ UNCHANGED <<account, sent, session, slugs, req>>

RevokeApiKey(u) ==
    /\ u \in apiKey
    /\ apiKey' = apiKey \ {u}
    /\ UNCHANGED <<account, sent, session, slugs, req>>

(* delete_session, or the session lapses. *)
Logout(u) ==
    /\ u \in session
    /\ session' = session \ {u}
    /\ UNCHANGED <<account, sent, apiKey, slugs, req>>

-----------------------------------------------------------------------------
(* Time: a code lapses, the parameters of the hash change with a release.    *)
CodeLapses(u) ==
    /\ Registered(u) /\ account[u].code # None /\ ~account[u].lapsed
    /\ account' = [account EXCEPT ![u].lapsed = TRUE]
    /\ UNCHANGED <<sent, session, apiKey, slugs, req>>

HashOutdated(u) ==
    /\ Registered(u) /\ ~account[u].outdated
    /\ account' = [account EXCEPT ![u].outdated = TRUE]
    /\ UNCHANGED <<sent, session, apiKey, slugs, req>>

-----------------------------------------------------------------------------
Init ==
    /\ account = [u \in Users |-> None] /\ sent = [u \in Users |-> 0]
    /\ session = {} /\ apiKey = {} /\ slugs = {}
    /\ req = [r \in Requests |-> Idle]

Next ==
    \/ \E r \in Requests, u \in Users :
          \/ \E p \in Passwords : Register(r, u, p) \/ Authenticate(r, u, p)
          \/ \E p, new \in Passwords : ChangePassword(r, u, p, new)
          \/ \E code \in 1..MaxCodes : VerifyCode(r, u, code)
          \/ VerifyResend(r, u)
    \/ \E r \in Requests :
          \/ CommitRegister(r) \/ RegisterFails(r) \/ CommitVerify(r) \/ CommitResend(r)
          \/ Login(r) \/ WebLoginUnverified(r) \/ ApiLoginUnverified(r) \/ CommitPassword(r)
    \/ \E u \in Users : CreateApiKey(u) \/ RevokeApiKey(u) \/ Logout(u)
                        \/ CodeLapses(u) \/ HashOutdated(u)
    \/ OthersRegister

Spec == Init /\ [][Next]_vars

-----------------------------------------------------------------------------
TypeOK ==
    /\ account \in [Users -> Rows \cup {None}] /\ sent \in [Users -> 0..MaxCodes]
    /\ session \subseteq Users /\ apiKey \subseteq Users
    /\ slugs \subseteq 1..(MaxSlugs + Cardinality(Users))
    /\ \A r \in Requests :
          req[r].op \in {"none", "register", "login", "verify", "resend", "password"}

(* Nobody acts for an account - by a session or a key - before its address   *)
(* is confirmed, whichever of the five ways in was taken.                    *)
DormantUntilConfirmed == \A u \in Users : SignedIn(u) => account[u].verified

(* The code is cleared once the address is confirmed, and none is issued     *)
(* after - except by a request that was under way then.                      *)
NoCodeAfter ==
    \A u \in Users : Registered(u) /\ account'[u].verified /\ account'[u].code # None =>
        \/ account[u].verified /\ account[u].code # None
        \/ \E r \in Requests : req[r] # Idle /\ req[r].user = u /\ req'[r] = Idle /\ req[r].overtaken
CodeClearedUnlessRaced == [][NoCodeAfter]_vars

(* A password holds until its owner changes it: a login that overlaps the    *)
(* change may write back the old one, when it renews an outdated hash.       *)
PasswordChanges ==
    \A u \in Users : Registered(u) /\ account'[u].password # account[u].password =>
        \E r \in Requests : /\ req[r] # Idle /\ req[r].user = u /\ req'[r] = Idle
                            /\ req[r].op = "password" \/ req[r].overtaken
PasswordStandsUnlessRaced == [][PasswordChanges]_vars
=============================================================================
