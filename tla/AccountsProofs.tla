--------------------------- MODULE AccountsProofs ---------------------------
(***************************************************************************)
(* Proofs about Accounts for every set of addresses, passwords,            *)
(* registrations and calls.                                                *)
(***************************************************************************)
EXTENDS Accounts, TLAPS

USE AccountsAssumption

----------------------------------------------------------------------------
(* The inductive invariants *)

\* A row holds what its registration asked for, which is over.
RowsAreAsked ==
  \A g \in users :
    /\ registration[g].pc \in {"created", "failed"}
    /\ user[g].email = Normalized[registration[g].email]
    /\ user[g].hashed_password = Prefix[registration[g].password]

UsersInv == RowsAreAsked /\ OneAccountPerEmail

\* The call that created a key is over, so nothing creates that key again.
KeysAreCreated == \A k \in keys : call[k].pc \in {"created", "failed"}

RevokedWereCreated ==
  \A c \in Calls : call[c].pc \in {"revoking", "revoked"} =>
    call[call[c].key].pc \in {"created", "failed"}

\* A call that has loaded a key is its owner's.
RevokersOwn ==
  \A c \in Calls : call[c].pc = "revoking" => key[call[c].key].user_id = call[c].user

KeysInv ==
  /\ KeysAreCreated
  /\ RevokedWereCreated
  /\ RevokersOwn
  /\ KeysHaveOwners
  /\ RevokedStaysRevoked

----------------------------------------------------------------------------
(* Updates of one field keep the type of a table *)

LEMMA CallUpdate ==
  ASSUME NEW f \in [Calls -> CallStates], NEW c \in Calls,
         NEW pc \in {"created", "revoked", "failed"}
  PROVE  LET g == [f EXCEPT ![c].pc = pc] IN
         /\ g \in [Calls -> CallStates]
         /\ g[c].pc = pc
         /\ \A d \in Calls : g[d].user = f[d].user /\ g[d].key = f[d].key
         /\ \A d \in Calls : d # c => g[d].pc = f[d].pc
<1>1. f[c] \in CallStates /\ [f[c] EXCEPT !.pc = pc] \in CallStates
  BY DEF CallStates
<1>. QED BY <1>1 DEF CallStates

LEMMA UserUpdate ==
  ASSUME NEW f \in [Users -> UserRows], NEW u \in Users
  PROVE  [f EXCEPT ![u].is_active = FALSE] \in [Users -> UserRows]
<1>1. f[u] \in UserRows /\ [f[u] EXCEPT !.is_active = FALSE] \in UserRows
  BY ZenonT(60) DEF UserRows
<1>. QED BY <1>1

LEMMA KeyUpdate ==
  ASSUME NEW f \in [Keys -> KeyRows], NEW k \in Keys
  PROVE  [f EXCEPT ![k].is_active = FALSE] \in [Keys -> KeyRows]
<1>1. f[k] \in KeyRows /\ [f[k] EXCEPT !.is_active = FALSE] \in KeyRows
  BY ZenonT(60) DEF KeyRows
<1>. QED BY <1>1

----------------------------------------------------------------------------
\* Every step keeps the types.
LEMMA TypeStep ==
  TypeOK /\ [Next]_vars => TypeOK'
<1>. SUFFICES ASSUME TypeOK, [Next]_vars PROVE TypeOK'
  OBVIOUS
<1>. USE DEF TypeOK, UserRows, RegistrationStates, KeyRows, CallStates, Users, Keys
<1>1. ASSUME NEW g \in Registrations, NEW e \in Emails, NEW p \in Passwords, RegisterCheck(g,e,p)
      PROVE  TypeOK'
  BY <1>1 DEF RegisterCheck, ByEmail
<1>2. ASSUME NEW g \in Registrations, RegisterInsert(g)
      PROVE  TypeOK'
  <2>1. CASE ByEmail(Normalized[registration[g].email]) = {}
    <3>1. PICK answer \in {"created", "failed"} :
            registration' = [registration EXCEPT ![g].pc = answer]
      BY <1>2, <2>1 DEF RegisterInsert, InsertUser, HashedPassword
    <3>2. registration[g].email \in Emails /\ registration[g].password \in Passwords
      BY <1>2 DEF RegisterInsert
    <3>3. Normalized[registration[g].email] \in Emails
            /\ Prefix[registration[g].password] \in Passwords \ Long
      BY <3>2
    <3>4. user' \in [Users -> UserRows]
      <4>. DEFINE new == [email |-> Normalized[registration[g].email],
                          hashed_password |-> Prefix[registration[g].password],
                          is_active |-> TRUE]
      <4>1. new \in UserRows
        BY <3>3
      <4>2. user' = [user EXCEPT ![g] = new]
        BY <1>2, <2>1 DEF RegisterInsert, InsertUser, HashedPassword
      <4>. QED BY <4>1, <4>2
    <3>5. registration' \in [Registrations -> RegistrationStates]
      BY <3>1
    <3>. QED BY <1>2, <2>1, <3>1, <3>4, <3>5 DEF RegisterInsert, InsertUser, HashedPassword
  <2>2. CASE ByEmail(Normalized[registration[g].email]) # {}
    <3>1. /\ registration' = [registration EXCEPT ![g].pc = "failed"]
          /\ UNCHANGED <<users, user, tokens, keys, key, call>>
      BY <1>2, <2>2 DEF RegisterInsert
    <3>2. registration' \in [Registrations -> RegistrationStates]
      BY <3>1
    <3>. QED BY <1>2, <3>1, <3>2 DEF RegisterInsert
  <2>. QED BY <2>1, <2>2
<1>3. ASSUME NEW g \in Registrations, RegisterFails(g)
      PROVE  TypeOK'
  BY <1>3 DEF RegisterFails
<1>4. ASSUME NEW e \in Emails, NEW p \in Passwords, Login(e, p)
      PROVE  TypeOK'
  BY <1>4 DEF Login, LoginAnswer, ByEmail
<1>5. ASSUME NEW u \in Users, TokenExpires(u)
      PROVE  TypeOK'
  BY <1>5 DEF TokenExpires
<1>6. ASSUME NEW u \in Users, Deactivate(u)
      PROVE  TypeOK'
  <2>1. user' \in [Users -> UserRows]
    BY <1>6, UserUpdate DEF Deactivate
  <2>. QED BY <1>6, <2>1 DEF Deactivate
<1>7. ASSUME NEW u \in Users, Delete(u)
      PROVE  TypeOK'
  BY <1>7 DEF Delete
<1>8. ASSUME NEW c \in Calls, NEW u \in Users, Authenticate(c, u)
      PROVE  TypeOK'
  BY <1>8 DEF Authenticate
<1>9. ASSUME NEW c \in Calls, NEW k \in Keys, RevokeLoad(c, k)
      PROVE  TypeOK'
  BY <1>9 DEF RevokeLoad
<1>10. ASSUME NEW c \in Calls, CreateKey(c)
      PROVE  TypeOK'
  <2>1. \E answer \in {"created", "failed"} : call' = [call EXCEPT ![c].pc = answer]
    BY <1>10 DEF CreateKey
  <2>2. PICK answer \in {"created", "failed"} : call' = [call EXCEPT ![c].pc = answer]
    BY <2>1
  <2>3. keys' \subseteq Keys /\ key' \in [Keys -> KeyRows]
    <3>1. call[c].user \in Users /\ c \in Keys
      BY <1>10 DEF CreateKey
    <3>2. [user_id |-> call[c].user, is_active |-> TRUE] \in KeyRows
      BY <3>1
    <3>3. CASE call[c].user \in users
      <4>1. /\ keys' = keys \cup {c}
            /\ key' = [key EXCEPT ![c] = [user_id |-> call[c].user, is_active |-> TRUE]]
        BY <1>10, <3>3 DEF CreateKey
      <4>2. key \in [Keys -> KeyRows] /\ keys \subseteq Keys
        OBVIOUS
      <4>. HIDE DEF KeyRows, TypeOK
      <4>. QED BY <3>1, <3>2, <4>1, <4>2
    <3>4. CASE call[c].user \notin users
      BY <1>10, <3>4 DEF CreateKey
    <3>. QED BY <3>3, <3>4
  <2>4. call' \in [Calls -> CallStates]
    BY <2>2, CallUpdate
  <2>. QED BY <1>10, <2>2, <2>3, <2>4 DEF CreateKey
<1>11. ASSUME NEW c \in Calls, RevokeCommit(c)
      PROVE  TypeOK'
  <2>1. \E answer \in {"revoked", "failed"} : call' = [call EXCEPT ![c].pc = answer]
    BY <1>11 DEF RevokeCommit
  <2>2. PICK answer \in {"revoked", "failed"} : call' = [call EXCEPT ![c].pc = answer]
    BY <2>1
  <2>3. key' \in [Keys -> KeyRows]
    <3>1. CASE call[c].key \in keys
      BY <1>11, <3>1, KeyUpdate DEF RevokeCommit
    <3>2. CASE call[c].key \notin keys
      BY <1>11, <3>2 DEF RevokeCommit
    <3>. QED BY <3>1, <3>2
  <2>4. call' \in [Calls -> CallStates]
    BY <2>2, CallUpdate
  <2>. QED BY <1>11, <2>2, <2>3, <2>4 DEF RevokeCommit
<1>12. ASSUME NEW c \in Calls, CallFails(c)
      PROVE  TypeOK'
  BY <1>12, ZenonT(60) DEF CallFails
<1>13. CASE UNCHANGED vars
  BY <1>13 DEF vars
<1>. QED
  BY <1>1, <1>2, <1>3, <1>4, <1>5, <1>6, <1>7, <1>8, <1>9, <1>10, <1>11, <1>12,
     <1>13 DEF Next, RegistrationStep, CallStep

\* Every step keeps the users table in order.
LEMMA UsersStep ==
  UsersInv /\ TypeOK /\ [Next]_vars => UsersInv'
<1>. SUFFICES ASSUME UsersInv /\ TypeOK, [Next]_vars PROVE UsersInv'
  OBVIOUS
<1>. USE DEF UsersInv, RowsAreAsked, OneAccountPerEmail, TypeOK, UserRows,
            RegistrationStates, Users
<1>1. ASSUME NEW g \in Registrations, NEW e \in Emails, NEW p \in Passwords, RegisterCheck(g,e,p)
      PROVE  UsersInv'
  BY <1>1 DEF RegisterCheck, ByEmail
<1>2. ASSUME NEW g \in Registrations, RegisterInsert(g)
      PROVE  UsersInv'
  <2>. DEFINE e == Normalized[registration[g].email]
  <2>1. CASE ByEmail(e) = {}
    <3>1. PICK answer \in {"created", "failed"} :
            registration' = [registration EXCEPT ![g].pc = answer]
      BY <1>2, <2>1 DEF RegisterInsert, InsertUser, HashedPassword
    <3>2. g \notin users
      BY <1>2 DEF RegisterInsert
    <3>3. /\ users' = users \cup {g}
          /\ user'[g].email = e
          /\ user'[g].hashed_password = Prefix[registration[g].password]
          /\ \A v \in users : user'[v] = user[v]
      BY <1>2, <2>1, <3>2 DEF RegisterInsert, InsertUser, HashedPassword
    <3>4. /\ registration'[g].email = registration[g].email
          /\ registration'[g].password = registration[g].password
          /\ registration'[g].pc = answer
          /\ \A v \in users : registration'[v] = registration[v]
      BY <3>1, <3>2
    <3>5. \A v \in users : user[v].email # e
      BY <2>1 DEF ByEmail
    <3>. QED BY <3>3, <3>4, <3>5
  <2>2. CASE ByEmail(e) # {}
    BY <1>2, <2>2 DEF RegisterInsert
  <2>. QED BY <2>1, <2>2
<1>3. ASSUME NEW g \in Registrations, RegisterFails(g)
      PROVE  UsersInv'
  BY <1>3 DEF RegisterFails
<1>4. ASSUME NEW u \in Users, Deactivate(u)
      PROVE  UsersInv'
  BY <1>4 DEF Deactivate
<1>5. ASSUME NEW u \in Users, Delete(u)
      PROVE  UsersInv'
  BY <1>5 DEF Delete
<1>6. CASE UNCHANGED <<users, user, registration>>
  BY <1>6
<1>. QED
  BY <1>1, <1>2, <1>3, <1>4, <1>5, <1>6 DEF Next, vars, RegistrationStep, CallStep,
     Login, TokenExpires, Authenticate, RevokeLoad, CreateKey, RevokeCommit, CallFails

\* Every step keeps the keys table in order.
LEMMA KeysStep ==
  KeysInv /\ TypeOK /\ [Next]_vars => KeysInv'
<1>. SUFFICES ASSUME KeysInv /\ TypeOK, [Next]_vars PROVE KeysInv'
  OBVIOUS
<1>. USE DEF KeysInv, KeysAreCreated, RevokedWereCreated, RevokersOwn, KeysHaveOwners,
            RevokedStaysRevoked, Accepted, TypeOK, KeyRows, CallStates, Users, Keys
<1>1. ASSUME NEW u \in Users, Delete(u)
      PROVE  KeysInv'
  BY <1>1 DEF Delete
<1>2. ASSUME NEW c \in Calls, NEW u \in Users, Authenticate(c, u)
      PROVE  KeysInv'
  BY <1>2 DEF Authenticate
<1>3. ASSUME NEW c \in Calls, NEW k \in Keys, RevokeLoad(c, k)
      PROVE  KeysInv'
  BY <1>3 DEF RevokeLoad
<1>4. ASSUME NEW c \in Calls, CreateKey(c)
      PROVE  KeysInv'
  <2>1. CASE call[c].user \in users
    <3>1. PICK answer \in {"created", "failed"} : call' = [call EXCEPT ![c].pc = answer]
      BY <1>4, <2>1 DEF CreateKey
    <3>2. /\ call'[c].pc = answer
          /\ \A d \in Calls : call'[d].key = call[d].key /\ call'[d].user = call[d].user
          /\ \A d \in Calls \ {c} : call'[d].pc = call[d].pc
      BY <3>1
    <3>3. /\ keys' = keys \cup {c} /\ users' = users
          /\ key'[c] = [user_id |-> call[c].user, is_active |-> TRUE]
          /\ \A k \in Keys \ {c} : key'[k] = key[k]
      BY <1>4, <2>1 DEF CreateKey
    <3>4. \A d \in Calls : call[d].pc \in {"revoking", "revoked"} =>
            call[d].key \in Calls \ {c} /\ d # c
      BY <1>4 DEF CreateKey
    <3>5. KeysAreCreated' /\ RevokedWereCreated' /\ KeysHaveOwners'
      BY <2>1, <3>2, <3>3, <3>4
    <3>6. RevokersOwn' /\ RevokedStaysRevoked'
      BY <3>2, <3>3, <3>4
    <3>. QED BY <3>5, <3>6
  <2>2. CASE call[c].user \notin users
    <3>1. call' = [call EXCEPT ![c].pc = "failed"] /\ UNCHANGED <<users, keys, key>>
      BY <1>4, <2>2 DEF CreateKey
    <3>2. /\ call'[c].pc = "failed" /\ call[c].pc = "authenticated"
          /\ \A d \in Calls : call'[d].key = call[d].key /\ call'[d].user = call[d].user
          /\ \A d \in Calls : d # c => call'[d].pc = call[d].pc
      BY <1>4, <3>1, CallUpdate DEF CreateKey
    <3>. QED BY <3>1, <3>2
  <2>. QED BY <2>1, <2>2
<1>5. ASSUME NEW c \in Calls, RevokeCommit(c)
      PROVE  KeysInv'
  <2>1. CASE call[c].key \in keys
    <3>1. PICK answer \in {"revoked", "failed"} : call' = [call EXCEPT ![c].pc = answer]
      BY <1>5, <2>1 DEF RevokeCommit
    <3>2. /\ call'[c].pc = answer /\ call[c].pc = "revoking"
          /\ \A d \in Calls : call'[d].key = call[d].key /\ call'[d].user = call[d].user
          /\ \A d \in Calls \ {c} : call'[d].pc = call[d].pc
      BY <1>5, <3>1 DEF RevokeCommit
    <3>3. /\ keys' = keys /\ users' = users
          /\ key'[call[c].key].is_active = FALSE
          /\ \A k \in Keys : key'[k].user_id = key[k].user_id
          /\ \A k \in Keys : k # call[c].key => key'[k] = key[k]
      BY <1>5, <2>1 DEF RevokeCommit
    <3>4. KeysAreCreated' /\ KeysHaveOwners'
      BY <3>2, <3>3
    <3>5. RevokedWereCreated'
      <4>1. \A d \in Calls : call[d].pc \in {"created", "failed"} =>
              call'[d].pc \in {"created", "failed"}
        BY <3>2
      <4>2. \A d \in Calls : call'[d].pc \in {"revoking", "revoked"} =>
              call[d].pc \in {"revoking", "revoked"}
        BY <3>2
      <4>3. \A d \in Calls : call[d].pc \in {"revoking", "revoked"} => call[d].key \in Calls
        OBVIOUS
      <4>. QED BY <3>2, <4>1, <4>2, <4>3
    <3>6. RevokersOwn'
      BY <3>2, <3>3
    <3>7. RevokedStaysRevoked'
      BY <3>2, <3>3
    <3>. QED BY <3>4, <3>5, <3>6, <3>7
  <2>2. CASE call[c].key \notin keys
    <3>1. call' = [call EXCEPT ![c].pc = "failed"] /\ UNCHANGED <<users, keys, key>>
      BY <1>5, <2>2 DEF RevokeCommit
    <3>2. /\ call'[c].pc = "failed" /\ call[c].pc = "revoking"
          /\ \A d \in Calls : call'[d].key = call[d].key /\ call'[d].user = call[d].user
          /\ \A d \in Calls : d # c => call'[d].pc = call[d].pc
      BY <1>5, <3>1, CallUpdate DEF RevokeCommit
    <3>. QED BY <3>1, <3>2
  <2>. QED BY <2>1, <2>2
<1>6. ASSUME NEW c \in Calls, CallFails(c)
      PROVE  KeysInv'
  BY <1>6 DEF CallFails
<1>7. CASE users \subseteq users' /\ UNCHANGED <<keys, key, call>>
  BY <1>7
<1>. QED
  BY <1>1, <1>2, <1>3, <1>4, <1>5, <1>6, <1>7 DEF Next, vars, RegistrationStep,
     CallStep, RegisterCheck, RegisterInsert, InsertUser, HashedPassword, RegisterFails, Login,
     TokenExpires, Deactivate

----------------------------------------------------------------------------
(* Theorems *)

LEMMA InitHolds == Init => TypeOK /\ UsersInv /\ KeysInv
  BY DEF Init, TypeOK, UsersInv, KeysInv, RowsAreAsked, OneAccountPerEmail,
         KeysAreCreated, RevokedWereCreated, RevokersOwn, KeysHaveOwners, RevokedStaysRevoked,
         Accepted, UserRows, RegistrationStates, KeyRows, CallStates, Users, Keys

\* The types are right in every reachable state.
THEOREM TypeCorrect == Spec => []TypeOK
  BY InitHolds, TypeStep, PTL DEF Spec

LEMMA UsersHold == Spec => []UsersInv
  BY InitHolds, TypeCorrect, UsersStep, PTL DEF Spec

LEMMA KeysHold == Spec => []KeysInv
  BY InitHolds, TypeCorrect, KeysStep, PTL DEF Spec

\* The unique constraint decides the race that the check before it leaves open.
THEOREM AddressesAreUnique == Spec => []OneAccountPerEmail
<1>1. UsersInv => OneAccountPerEmail
  BY DEF UsersInv
<1>. QED BY <1>1, UsersHold, PTL

\* An account that was confirmed opens to its password, were it not too long.
THEOREM AccountsOpen == Spec => []RegisteredCanLogin
<1>1. TypeOK /\ UsersInv => RegisteredCanLogin
  <2>. SUFFICES ASSUME TypeOK, UsersInv, NEW g \in users,
                       registration[g].pc = "created",
                       registration[g].password \notin Long, user[g].is_active
                PROVE  LoginAnswer(Normalized[registration[g].email],
                                   registration[g].password) = "token"
    BY DEF RegisteredCanLogin
  <2>. DEFINE e == Normalized[registration[g].email]
  <2>1. /\ g \in Registrations
        /\ registration[g].email \in Emails /\ registration[g].password \in Passwords
    BY DEF TypeOK, Users
  <2>2. user[g].email = e /\ user[g].hashed_password = registration[g].password
    BY <2>1 DEF UsersInv, RowsAreAsked
  <2>3. ByEmail(e) = {g}
    BY <2>2 DEF UsersInv, OneAccountPerEmail, ByEmail
  <2>4. (CHOOSE v \in ByEmail(e) : TRUE) = g
    BY <2>3
  <2>. QED BY <2>2, <2>3, <2>4 DEF LoginAnswer
<1>. QED BY <1>1, TypeCorrect, UsersHold, PTL

\* A confirmed revocation is final.
THEOREM RevocationIsFinal == Spec => []RevokedStaysRevoked
<1>1. KeysInv => RevokedStaysRevoked
  BY DEF KeysInv
<1>. QED BY <1>1, KeysHold, PTL

\* No key is without its user.
THEOREM KeysAreOwned == Spec => []KeysHaveOwners
<1>1. KeysInv => KeysHaveOwners
  BY DEF KeysInv
<1>. QED BY <1>1, KeysHold, PTL

\* A key stops being accepted only by its owner's call or with its owner.
THEOREM OwnersRevoke == Spec => OnlyOwnerRevokes
<1>. DEFINE Rightly(k) ==
       \/ key[k].user_id \notin users'
       \/ \E c \in Calls : /\ call[c].pc = "revoking" /\ call'[c].pc # "revoking"
                           /\ call[c].key = k /\ call[c].user = key[k].user_id
<1>1. TypeOK /\ KeysInv /\ [Next]_vars =>
        \A k \in Keys : Accepted(k) /\ ~Accepted(k)' => Rightly(k)
  <2>. SUFFICES ASSUME TypeOK, KeysInv, [Next]_vars, NEW k \in Keys,
                       Accepted(k), ~Accepted(k)'
                PROVE  Rightly(k)
    OBVIOUS
  <2>. USE DEF Accepted
  <2>1. ASSUME NEW u \in Users, Delete(u) PROVE Rightly(k)
    BY <2>1 DEF Delete
  <2>2. ASSUME NEW c \in Calls, RevokeCommit(c) PROVE Rightly(k)
    <3>1. call[c].pc = "revoking" /\ call[c].key = k
      BY <2>2 DEF RevokeCommit, TypeOK
    <3>2. call'[c].pc # "revoking"
      <4>1. PICK answer \in {"revoked", "failed"} : call' = [call EXCEPT ![c].pc = answer]
        BY <2>2 DEF RevokeCommit
      <4>. QED BY <4>1, CallUpdate DEF TypeOK
    <3>. QED BY <3>1, <3>2 DEF KeysInv, RevokersOwn
  <2>3. ASSUME NEW c \in Calls, CreateKey(c) PROVE FALSE
    BY <2>3 DEF CreateKey, KeysInv, KeysAreCreated, TypeOK, Keys
  <2>4. CASE UNCHANGED <<keys, key>>
    BY <2>4
  <2>. QED
    BY <2>1, <2>2, <2>3, <2>4 DEF Next, vars, RegistrationStep, CallStep, RegisterCheck,
       RegisterInsert, RegisterFails, Login, TokenExpires, Deactivate, Authenticate,
       RevokeLoad, CallFails
<1>. QED BY <1>1, TypeCorrect, KeysHold, PTL DEF Spec, OnlyOwnerRevokes
=============================================================================
