------------------------------ MODULE Accounts ------------------------------
(***************************************************************************)
(* The users of the gateway, the access tokens they log in for and the API *)
(* keys they create and revoke, over the tables users and api_keys.        *)
(*                                                                         *)
(* A step ends where a handler awaits the database after it has read what  *)
(* it decides by, so other requests run between a check and its commit.    *)
(* Every commit is followed by a refresh that may fail: the answer is then *)
(* an error although the row was written.                                  *)
(***************************************************************************)

CONSTANTS
  Emails,         \* the addresses people type
  Normalized,     \* the address EmailStr makes of one: its domain in lower case
  Passwords,
  Long,           \* the passwords of more than 72 bytes
  Prefix,         \* the first 72 bytes of each password
  Registrations,  \* the POST /register requests, each served once
  Calls,          \* the requests to /api-keys, each served once
  NoUser, NoKey

\* A registration creates at most one user, which names the user; a call creates
\* at most one key, which names the key.
Users == Registrations
Keys  == Calls

ASSUME AccountsAssumption ==
  /\ Normalized \in [Emails -> Emails]
  /\ \A e \in Emails : Normalized[Normalized[e]] = Normalized[e]
  /\ Long \subseteq Passwords
  /\ Prefix \in [Passwords -> Passwords \ Long]
  /\ \A p \in Passwords \ Long : Prefix[p] = p
  /\ NoUser \notin Users
  /\ NoKey \notin Keys

VARIABLES
  users,         \* which users rows there are
  user,          \* what they hold
  registration,  \* the progress of each registration, and what it asked for
  tokens,        \* the users for whom an unexpired token is in circulation
  keys,          \* which api_keys rows there are
  key,           \* what they hold
  call           \* the progress of each call

vars == <<users, user, registration, tokens, keys, key, call>>

\* A hash is known by the password it was made from, which bcrypt wants short.
UserRows == [email           : Emails \cup {NoUser},
             hashed_password : (Passwords \ Long) \cup {NoUser},
             is_active       : BOOLEAN]

KeyRows == [user_id : Users \cup {NoUser}, is_active : BOOLEAN]

RegistrationStates ==
  [pc       : {"new", "checked", "created", "exists", "failed"},
   email    : Emails \cup {NoUser},
   password : Passwords \cup {NoUser}]

CallStates ==
  [pc   : {"new", "authenticated", "revoking", "created", "revoked", "rejected", "failed"},
   user : Users \cup {NoUser},
   key  : Keys \cup {NoKey}]

Init ==
  /\ users        = {}
  /\ user         = [u \in Users |-> [email |-> NoUser, hashed_password |-> NoUser,
                                      is_active |-> FALSE]]
  /\ registration = [g \in Registrations |->
                      [pc |-> "new", email |-> NoUser, password |-> NoUser]]
  /\ tokens       = {}
  /\ keys         = {}
  /\ key          = [k \in Keys |-> [user_id |-> NoUser, is_active |-> FALSE]]
  /\ call         = [c \in Calls |-> [pc |-> "new", user |-> NoUser, key |-> NoKey]]

\* get_by_email: the users an address belongs to.
ByEmail(e) == {u \in users : user[u].email = e}

----------------------------------------------------------------------------
(* POST /register *)

RegisterCheck(g, e, p) ==
  /\ registration[g].pc = "new"
  /\ registration' = [registration EXCEPT ![g] =
       [pc       |-> IF ByEmail(Normalized[e]) = {} THEN "checked" ELSE "exists",
        email    |-> e,
        password |-> p]]
  /\ UNCHANGED <<users, user, tokens, keys, key, call>>

\* Slip: the password is not truncated before it is hashed.
HashedPasswordWhole(p) == p

HashedPassword(p) == Prefix[p]

\* Slip: the address is stored as it was typed.
InsertUserAsTyped(g, e) ==
  /\ users' = users \cup {g}
  /\ user' = [user EXCEPT ![g] =
       [email |-> registration[g].email, is_active |-> TRUE,
        hashed_password |-> HashedPassword(registration[g].password)]]
  /\ \E answer \in {"created", "failed"} :
       registration' = [registration EXCEPT ![g].pc = answer]

InsertUser(g, e) ==
  /\ users' = users \cup {g}
  /\ user' = [user EXCEPT ![g] =
       [email |-> e, hashed_password |-> HashedPassword(registration[g].password),
        is_active |-> TRUE]]
  /\ \E answer \in {"created", "failed"} :
       registration' = [registration EXCEPT ![g].pc = answer]

\* Slip: users.email has an index and no unique constraint.
RegisterInsertUnconstrained(g) ==
  /\ registration[g].pc = "checked"
  /\ InsertUser(g, Normalized[registration[g].email])
  /\ UNCHANGED <<tokens, keys, key, call>>

\* The address may have been taken since it was looked up: the unique constraint
\* then refuses the row, and the request ends in an error nobody handles.
RegisterInsert(g) ==
  LET e == Normalized[registration[g].email] IN
  /\ registration[g].pc = "checked"
  /\ IF ByEmail(e) = {}
       THEN InsertUser(g, e)
       ELSE /\ registration' = [registration EXCEPT ![g].pc = "failed"]
            /\ UNCHANGED <<users, user>>
  /\ UNCHANGED <<tokens, keys, key, call>>

RegisterFails(g) ==
  /\ registration[g].pc = "checked"
  /\ registration' = [registration EXCEPT ![g].pc = "failed"]
  /\ UNCHANGED <<users, user, tokens, keys, key, call>>

----------------------------------------------------------------------------
(* POST /login.  The address is compared as it was typed, and bcrypt raises *)
(* on a password that is longer than 72 bytes.                              *)

LoginAnswer(e, p) ==
  IF ByEmail(e) = {} THEN "incorrect"
  ELSE LET u == CHOOSE v \in ByEmail(e) : TRUE
       IN IF p \in Long THEN "error"
          ELSE IF user[u].hashed_password # p THEN "incorrect"
          ELSE IF user[u].is_active THEN "token" ELSE "inactive"

Login(e, p) ==
  /\ LoginAnswer(e, p) = "token"
  /\ tokens' = tokens \cup ByEmail(e)
  /\ UNCHANGED <<users, user, registration, keys, key, call>>

\* A token ends by its exp only: no route withdraws one.
TokenExpires(u) ==
  /\ u \in tokens
  /\ tokens' = tokens \ {u}
  /\ UNCHANGED <<users, user, registration, keys, key, call>>

----------------------------------------------------------------------------
(* No route changes or deletes a user: these are the operator's.  The keys *)
(* of a deleted user go with it; those of an inactive one stay.            *)

Deactivate(u) ==
  /\ u \in users /\ user[u].is_active
  /\ user' = [user EXCEPT ![u].is_active = FALSE]
  /\ UNCHANGED <<users, registration, tokens, keys, key, call>>

Delete(u) ==
  /\ u \in users
  /\ users' = users \ {u}
  /\ keys' = {k \in keys : key[k].user_id # u}
  /\ UNCHANGED <<user, registration, tokens, key, call>>

----------------------------------------------------------------------------
(* The calls to /api-keys *)

\* get_current_user: the token proves who calls; that the user is there and
\* active is read now.
Authenticate(c, u) ==
  /\ call[c].pc = "new"
  /\ u \in tokens
  /\ call' = [call EXCEPT ![c].user = u,
       ![c].pc = IF u \in users /\ user[u].is_active THEN "authenticated" ELSE "rejected"]
  /\ UNCHANGED <<users, user, registration, tokens, keys, key>>

\* Slip: the foreign key of api_keys.user_id is not enforced.
CreateKeyUnowned(c) ==
  /\ call[c].pc = "authenticated"
  /\ keys' = keys \cup {c}
  /\ key' = [key EXCEPT ![c] = [user_id |-> call[c].user, is_active |-> TRUE]]
  /\ call' = [call EXCEPT ![c].pc = "created"]
  /\ UNCHANGED <<users, user, registration, tokens>>

CreateKey(c) ==
  /\ call[c].pc = "authenticated"
  /\ IF call[c].user \in users
       THEN /\ keys' = keys \cup {c}
            /\ key' = [key EXCEPT ![c] = [user_id |-> call[c].user, is_active |-> TRUE]]
            /\ \E answer \in {"created", "failed"} :
                 call' = [call EXCEPT ![c].pc = answer]
       ELSE /\ call' = [call EXCEPT ![c].pc = "failed"]
            /\ UNCHANGED <<keys, key>>
  /\ UNCHANGED <<users, user, registration, tokens>>

\* Slip: get_by_id_and_user looks for the id alone.
RevokeLoadAnyOwner(c, k) ==
  /\ call[c].pc = "authenticated"
  /\ call' = [call EXCEPT ![c].key = k,
                          ![c].pc = IF k \in keys THEN "revoking" ELSE "rejected"]
  /\ UNCHANGED <<users, user, registration, tokens, keys, key>>

RevokeLoad(c, k) ==
  /\ call[c].pc = "authenticated"
  /\ call' = [call EXCEPT ![c].key = k,
       ![c].pc = IF k \in keys /\ key[k].user_id = call[c].user
                   THEN "revoking" ELSE "rejected"]
  /\ UNCHANGED <<users, user, registration, tokens, keys, key>>

\* Slip: the attribute is set and the session is never committed.
RevokeUncommitted(c) ==
  /\ call[c].pc = "revoking"
  /\ call' = [call EXCEPT ![c].pc = "revoked"]
  /\ UNCHANGED <<users, user, registration, tokens, keys, key>>

\* The key may have gone with its user since it was loaded.
RevokeCommit(c) ==
  /\ call[c].pc = "revoking"
  /\ IF call[c].key \in keys
       THEN /\ key' = [key EXCEPT ![call[c].key].is_active = FALSE]
            /\ \E answer \in {"revoked", "failed"} :
                 call' = [call EXCEPT ![c].pc = answer]
       ELSE /\ call' = [call EXCEPT ![c].pc = "failed"]
            /\ UNCHANGED key
  /\ UNCHANGED <<users, user, registration, tokens, keys>>

CallFails(c) ==
  /\ call[c].pc \in {"authenticated", "revoking"}
  /\ call' = [call EXCEPT ![c].pc = "failed"]
  /\ UNCHANGED <<users, user, registration, tokens, keys, key>>

\* get_by_raw_key, which guards the gateway: neither the key's expires_at nor its
\* owner's is_active is looked at.
Accepted(k) == k \in keys /\ key[k].is_active

----------------------------------------------------------------------------
RegistrationStep(g) ==
  \/ \E e \in Emails, p \in Passwords : RegisterCheck(g, e, p)
  \/ RegisterInsert(g) \/ RegisterFails(g)

CallStep(c) ==
  \/ \E u \in Users : Authenticate(c, u)
  \/ \E k \in Keys : RevokeLoad(c, k)
  \/ CreateKey(c) \/ RevokeCommit(c) \/ CallFails(c)

Next ==
  \/ \E g \in Registrations : RegistrationStep(g)
  \/ \E e \in Emails, p \in Passwords : Login(e, p)
  \/ \E u \in Users : TokenExpires(u) \/ Deactivate(u) \/ Delete(u)
  \/ \E c \in Calls : CallStep(c)

Spec == Init /\ [][Next]_vars

----------------------------------------------------------------------------
(* Properties *)

\* Every variable has its type, and a request that is under way knows what for.
TypeOK ==
  /\ users \subseteq Users
  /\ user \in [Users -> UserRows]
  /\ registration \in [Registrations -> RegistrationStates]
  /\ \A g \in Registrations : registration[g].pc # "new" =>
       registration[g].email \in Emails /\ registration[g].password \in Passwords
  /\ tokens \subseteq Users
  /\ keys \subseteq Keys
  /\ key \in [Keys -> KeyRows]
  /\ call \in [Calls -> CallStates]
  /\ \A c \in Calls :
       /\ call[c].pc \in {"authenticated", "revoking"} => call[c].user \in Users
       /\ call[c].pc \in {"revoking", "revoked"} => call[c].key \in Keys

\* Two registrations that both found an address free do not both get it.
OneAccountPerEmail ==
  \A u, v \in users : user[u].email = user[v].email => u = v

\* Whoever was told that an account was created logs in to it, with the address
\* the answer showed and the password, if that has 72 bytes at most.
RegisteredCanLogin ==
  \A g \in users :
    registration[g].pc = "created" /\ registration[g].password \notin Long
        /\ user[g].is_active =>
      LoginAnswer(Normalized[registration[g].email], registration[g].password) = "token"

\* Once a revocation was confirmed the gateway never takes the key again, whatever
\* calls, deactivations and failures were under way.
RevokedStaysRevoked ==
  \A c \in Calls : call[c].pc = "revoked" => ~Accepted(call[c].key)

\* No key outlives its user, nor is one given to a user that was deleted between
\* the check of the token and the insert.
KeysHaveOwners == \A k \in keys : key[k].user_id \in users

\* A key stops being accepted only by a call of its owner or with its owner.
OnlyOwnerRevokes ==
  [][\A k \in Keys : Accepted(k) /\ ~Accepted(k)' =>
       \/ key[k].user_id \notin users'
       \/ \E c \in Calls : /\ call[c].pc = "revoking" /\ call'[c].pc # "revoking"
                           /\ call[c].key = k /\ call[c].user = key[k].user_id]_vars

----------------------------------------------------------------------------
\* The test that registers and logs in expects a token for the password it has
\* registered with: no account is created that its own password does not open.
PasswordOpensAccount ==
  \A g \in users :
    registration[g].pc = "created" /\ user[g].is_active =>
      LoginAnswer(user[g].email, registration[g].password) = "token"
=============================================================================
