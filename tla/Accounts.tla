------------------------------ MODULE Accounts ------------------------------
(***************************************************************************)
(* The rows of users: the light accounts that checkouts, donations and     *)
(* interests without a session leave behind, and the ways a row gets a     *)
(* credential (src/src/lib/guest-identity.ts, src/src/http/api/auth:       *)
(* register, google, forgot-password, reset-password, verify-email).       *)
(*                                                                         *)
(* Every request reads a row by e-mail, by phone or by Google id and       *)
(* writes it by its id later, in statements of their own; what keeps two   *)
(* rows apart is the unique indexes of the three columns.                  *)
(***************************************************************************)
EXTENDS Integers, FiniteSets

CONSTANTS
  Emails, Phones,
  Forms,        \* forms sent without a session
  Signups,      \* requests to register
  Logins,       \* returns from Google
  MaxUsers,     \* rows of users
  MaxLinks      \* rows of email_tokens

ASSUME AccountsAssumption == MaxUsers \in Nat /\ MaxLinks \in Nat

UserIds  == 1..MaxUsers   \* 0 is no row
LinkIds  == 1..MaxLinks
Nothing  == "null"
NoUser   == [made |-> FALSE, email |-> Nothing, phone |-> Nothing,
             password |-> FALSE, google |-> Nothing, verified |-> FALSE]
UserRow  == [made : BOOLEAN, email : Emails \union {Nothing}, phone : Phones \union {Nothing},
             password : BOOLEAN, google : Emails \union {Nothing}, verified : BOOLEAN]

VARIABLES
  user,     \* the rows; an account at Google is named after its e-mail
  guest,    \* what each form has found
  signup,   \* what each registration has found
  google,   \* what each return from Google has found
  link,     \* the rows of email_tokens
  raced     \* history: rows that got a credential after a form in progress had read them without

accountVars == <<user, guest, signup, google, link, raced>>

NoGuest  == [step |-> "idle", email |-> Nothing, phone |-> Nothing, found |-> 0, light |-> FALSE]
NoFind   == [step |-> "idle", email |-> Nothing, found |-> 0]
NoLink   == [type |-> "none", user |-> 0, state |-> "none"]

AccountsTypeOK ==
  /\ user \in [UserIds -> UserRow]
  /\ guest \in [Forms -> [step : {"idle", "phone", "fill", "create"}, email : Emails \union {Nothing},
                          phone : Phones \union {Nothing}, found : 0..MaxUsers, light : BOOLEAN]]
  /\ signup \in [Signups -> [step : {"idle", "write"}, email : Emails \union {Nothing}, found : 0..MaxUsers]]
  /\ google \in [Logins -> [step : {"idle", "write"}, email : Emails \union {Nothing}, found : 0..MaxUsers]]
  /\ link \in [LinkIds -> [type : {"none", "verify_email", "password_reset"}, user : 0..MaxUsers,
                           state : {"none", "live", "taken", "used"}]]
  /\ raced \subseteq UserIds

AccountsInit ==
  /\ user = [u \in UserIds |-> NoUser]
  /\ guest = [f \in Forms |-> NoGuest]
  /\ signup = [r \in Signups |-> NoFind] /\ google = [r \in Logins |-> NoFind]
  /\ link = [l \in LinkIds |-> NoLink]
  /\ raced = {}

-----------------------------------------------------------------------------
Only(S) == IF S = {} THEN 0 ELSE CHOOSE u \in S : TRUE
findUserByEmail(e)    == Only({u \in UserIds : user[u].made /\ user[u].email = e})
findByPhone(n)        == Only({u \in UserIds : user[u].made /\ user[u].phone = n})
findUserByGoogleId(e) == Only({u \in UserIds : user[u].made /\ user[u].google = e})

Credentialed(u) == user[u].password \/ user[u].google # Nothing

\* The next row, unless a unique index refuses it (an exception, and nothing is written).
Insert(row) ==
  \E u \in UserIds :
    /\ ~user[u].made /\ \A v \in 1..(u - 1) : user[v].made
    /\ user' = IF \/ row.email # Nothing /\ findUserByEmail(row.email) # 0
                  \/ row.phone # Nothing /\ findByPhone(row.phone) # 0
                  \/ row.google # Nothing /\ findUserByGoogleId(row.google) # 0
               THEN user ELSE [user EXCEPT ![u] = row]

\* A row gets a password or a Google id; a form that had it in hand is outrun.
Credential(u, row) ==
  /\ user' = [user EXCEPT ![u] = row]
  /\ raced' = IF \E f \in Forms : guest[f].found = u
              THEN raced \union {u} ELSE raced

NewLink(type, u) ==
  IF \E l \in LinkIds : link[l] = NoLink
  THEN \E l \in LinkIds : /\ link[l] = NoLink /\ \A m \in 1..(l - 1) : link[m] # NoLink
                          /\ link' = [link EXCEPT ![l] = [type |-> type, user |-> u, state |-> "live"]]
  ELSE link' = link

-----------------------------------------------------------------------------
(* resolveActor, for a form with a phone and maybe an e-mail.              *)

\* A fault: the credential is not looked at.
Faulty_Light(u) == user[u].phone = Nothing

\* Only a light account is completed, with the phone it does not have.
Light(u) == ~Credentialed(u) /\ user[u].phone = Nothing

resolveActor(f) ==
  /\ guest[f].step = "idle"
  /\ \E n \in Phones, e \in Emails \union {Nothing} :
       LET u == IF e = Nothing THEN 0 ELSE findUserByEmail(e)
       IN  guest' = [guest EXCEPT ![f] = [step |-> "phone", email |-> e, phone |-> n, found |-> u,
                                          light |-> u # 0 /\ Light(u)]]
  /\ UNCHANGED <<user, signup, google, link, raced>>

\* findByPhone, and what to do with both answers: the row of the e-mail goes first, as it was read.
lookUpPhone(f) ==
  LET n == guest[f].phone
      u == guest[f].found
  IN
  /\ guest[f].step = "phone"
  /\ guest' = [guest EXCEPT ![f] =
       IF u = 0 /\ findByPhone(n) = 0 THEN [@ EXCEPT !.step = "create"]
       ELSE IF guest[f].light /\ findByPhone(n) \in {0, u} THEN [@ EXCEPT !.step = "fill"]
       ELSE NoGuest]
  /\ UNCHANGED <<user, signup, google, link, raced>>

fillPhone(f) ==
  LET u == guest[f].found
      n == guest[f].phone
  IN
  /\ guest[f].step = "fill"
  /\ user' = IF findByPhone(n) \in {0, u} THEN [user EXCEPT ![u].phone = n] ELSE user
  /\ guest' = [guest EXCEPT ![f] = NoGuest]
  /\ UNCHANGED <<signup, google, link, raced>>

createGuest(f) ==
  /\ guest[f].step = "create"
  /\ Insert([NoUser EXCEPT !.made = TRUE, !.email = guest[f].email, !.phone = guest[f].phone])
  /\ guest' = [guest EXCEPT ![f] = NoGuest]
  /\ UNCHANGED <<signup, google, link, raced>>

-----------------------------------------------------------------------------
(* Registration: a light account with the e-mail is adopted.               *)

registerRead(r) ==
  /\ signup[r].step = "idle"
  /\ \E e \in Emails :
       /\ findUserByEmail(e) # 0 => ~Credentialed(findUserByEmail(e))   \* else email_in_use
       /\ signup' = [signup EXCEPT ![r] = [step |-> "write", email |-> e, found |-> findUserByEmail(e)]]
  /\ UNCHANGED <<user, guest, google, link, raced>>

adoptGuestUser(r) ==
  LET u == signup[r].found
  IN
  /\ signup[r].step = "write" /\ u # 0
  /\ Credential(u, [user[u] EXCEPT !.password = TRUE])
  /\ NewLink("verify_email", u)
  /\ signup' = [signup EXCEPT ![r] = NoFind]
  /\ UNCHANGED <<guest, google>>

createUser(r) ==
  /\ signup[r].step = "write" /\ signup[r].found = 0
  /\ Insert([NoUser EXCEPT !.made = TRUE, !.email = signup[r].email, !.password = TRUE])
  /\ IF user' = user THEN link' = link
     ELSE \E u \in UserIds : ~user[u].made /\ user'[u].made /\ NewLink("verify_email", u)
  /\ signup' = [signup EXCEPT ![r] = NoFind]
  /\ UNCHANGED <<guest, google, raced>>

-----------------------------------------------------------------------------
(* The return from Google: by Google id, else the verified e-mail.         *)

googleRead(r) ==
  /\ google[r].step = "idle"
  /\ \E e \in Emails :
       /\ findUserByGoogleId(e) = 0   \* else it logs in and writes nothing
       /\ google' = [google EXCEPT ![r] = [step |-> "write", email |-> e, found |-> findUserByEmail(e)]]
  /\ UNCHANGED <<user, guest, signup, link, raced>>

linkGoogleId(r) ==
  LET u == google[r].found
      e == google[r].email
  IN
  /\ google[r].step = "write" /\ u # 0
  /\ IF findUserByGoogleId(e) \in {0, u} THEN Credential(u, [user[u] EXCEPT !.google = e])
                                         ELSE UNCHANGED <<user, raced>>
  /\ google' = [google EXCEPT ![r] = NoFind]
  /\ UNCHANGED <<guest, signup, link>>

createGoogleUser(r) ==
  LET e == google[r].email
  IN
  /\ google[r].step = "write" /\ google[r].found = 0
  /\ Insert([NoUser EXCEPT !.made = TRUE, !.email = e, !.google = e, !.verified = TRUE])
  /\ google' = [google EXCEPT ![r] = NoFind]
  /\ UNCHANGED <<guest, signup, link, raced>>

-----------------------------------------------------------------------------
(* Links by e-mail: the first use reads the row, writes the user, then     *)
(* marks it used, so that a link serves again when the mark fails.         *)

forgotPassword ==
  /\ \E l \in LinkIds : link[l] = NoLink
  /\ \E e \in Emails : findUserByEmail(e) # 0 /\ NewLink("password_reset", findUserByEmail(e))
  /\ UNCHANGED <<user, guest, signup, google, raced>>

setPassword(l) ==
  /\ link[l].type = "password_reset" /\ link[l].state \in {"live", "taken"}
  /\ Credential(link[l].user, [user[link[l].user] EXCEPT !.password = TRUE])
  /\ link' = [link EXCEPT ![l].state = "taken"]
  /\ UNCHANGED <<guest, signup, google>>

markEmailVerified(l) ==
  /\ link[l].type = "verify_email" /\ link[l].state \in {"live", "taken"}
  /\ user' = [user EXCEPT ![link[l].user].verified = TRUE]
  /\ link' = [link EXCEPT ![l].state = "taken"]
  /\ UNCHANGED <<guest, signup, google, raced>>

\* After a use, or because its time is over.
markEmailTokenUsed(l) ==
  /\ link[l].state \in {"live", "taken"}
  /\ link' = [link EXCEPT ![l].state = "used"]
  /\ UNCHANGED <<user, guest, signup, google, raced>>

AccountsNext ==
  \/ \E f \in Forms : resolveActor(f) \/ lookUpPhone(f) \/ fillPhone(f) \/ createGuest(f)
  \/ \E r \in Signups : registerRead(r) \/ adoptGuestUser(r) \/ createUser(r)
  \/ \E r \in Logins : googleRead(r) \/ linkGoogleId(r) \/ createGoogleUser(r)
  \/ forgotPassword
  \/ \E l \in LinkIds : setPassword(l) \/ markEmailVerified(l) \/ markEmailTokenUsed(l)

AccountsSpec == AccountsInit /\ [][AccountsNext]_accountVars

-----------------------------------------------------------------------------
(* A form somebody fills in without a session never changes the contact of *)
(* an account that has a credential, whichever of its e-mail and phone it  *)
(* was found by and whatever is registered meanwhile, unless the account   *)
(* got its credential while the form had it in hand (resolveActor, "Conta  *)
(* com credencial não é reescrita por formulário de convidado").           *)
FormsSpareAccounts ==
  [][\A u \in UserIds : user[u].made /\ Credentialed(u) /\ user'[u].phone # user[u].phone
       => u \in raced]_accountVars
=============================================================================
