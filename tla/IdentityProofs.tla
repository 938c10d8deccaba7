--------------------------- MODULE IdentityProofs ---------------------------
(***************************************************************************)
(* Who somebody is: accounts, sessions and the holder of a Pix key, for    *)
(* any number of forms, requests, tabs, stores, keys and rows.  The three  *)
(* parts share no state; each has an inductive invariant.                  *)
(***************************************************************************)
EXTENDS Accounts, Sessions, PixKey, TLAPS

-----------------------------------------------------------------------------
(* Accounts.                                                               *)

\* A form that may write a phone has a light account in hand, or one that has got its credential since.
LightInHand ==
  \A f \in Forms :
    /\ guest[f].step = "fill" => guest[f].light
    /\ guest[f].light => /\ guest[f].found \in UserIds
                         /\ user[guest[f].found].made
                         /\ Credentialed(guest[f].found) => guest[f].found \in raced

\* A link is somebody's.
LinksHaveUsers == \A l \in LinkIds : link[l].type # "none" => link[l].user \in UserIds

AccountsInv == AccountsTypeOK /\ LightInHand /\ LinksHaveUsers

LinkRow  == [type : {"none", "verify_email", "password_reset"}, user : 0..MaxUsers,
             state : {"none", "live", "taken", "used"}]
GuestRow == [step : {"idle", "phone", "fill", "create"}, email : Emails \union {Nothing},
             phone : Phones \union {Nothing}, found : 0..MaxUsers, light : BOOLEAN]
FindRow  == [step : {"idle", "write"}, email : Emails \union {Nothing}, found : 0..MaxUsers]

\* A search finds a row that is made, or none.
LEMMA OnlyMade ==
  ASSUME NEW S \in SUBSET UserIds
  PROVE  /\ Only(S) \in 0..MaxUsers
         /\ Only(S) # 0 => Only(S) \in S
<1>1. CASE S = {}
  BY <1>1, AccountsAssumption DEF Only
<1>2. CASE S # {}
  <2>1. \E u \in S : TRUE
    BY <1>2
  <2>2. (CHOOSE u \in S : TRUE) \in S
    BY <2>1, Zenon
  <2>3. Only(S) \in S
    BY <1>2, <2>2, Zenon DEF Only
  <2>4. Only(S) \in UserIds
    BY <2>3, Zenon
  <2>5. \A u \in UserIds : u \in 0..MaxUsers
    BY AccountsAssumption DEF UserIds
  <2>. QED  BY <2>3, <2>4, <2>5, Zenon
<1>. QED  BY <1>1, <1>2

LEMMA Searches ==
  ASSUME NEW e
  PROVE  /\ findUserByEmail(e) \in 0..MaxUsers
         /\ findUserByEmail(e) # 0 => findUserByEmail(e) \in UserIds /\ user[findUserByEmail(e)].made
<1>. DEFINE S == {u \in UserIds : user[u].made /\ user[u].email = e}
<1>1. S \in SUBSET UserIds
  OBVIOUS
<1>. QED  BY <1>1, OnlyMade DEF findUserByEmail

\* A new row takes the place of none that is made.
LEMMA InsertKeeps ==
  ASSUME AccountsTypeOK, NEW row \in UserRow, Insert(row)
  PROVE  /\ user' \in [UserIds -> UserRow]
         /\ \A u \in UserIds : user[u].made => user'[u] = user[u]
BY DEF AccountsTypeOK, Insert

\* A credential changes no phone, and a form in progress knows of it.
LEMMA CredentialKeeps ==
  ASSUME AccountsInv, NEW u \in UserIds, NEW row \in UserRow, Credential(u, row),
         row.made = user[u].made, row.phone = user[u].phone
  PROVE  /\ user' \in [UserIds -> UserRow] /\ raced' \subseteq UserIds /\ raced \subseteq raced'
         /\ \A v \in UserIds : user'[v].made = user[v].made /\ user'[v].phone = user[v].phone
         /\ \A f \in Forms : guest[f].light =>
              /\ user'[guest[f].found].made
              /\ Credentialed(guest[f].found)' /\ guest' = guest => guest[f].found \in raced'
<1>1. /\ user \in [UserIds -> UserRow] /\ raced \subseteq UserIds
      /\ user' = [user EXCEPT ![u] = row]
      /\ raced' = IF \E f \in Forms : guest[f].found = u THEN raced \union {u} ELSE raced
  BY DEF AccountsInv, AccountsTypeOK, Credential
<1>2. \A v \in UserIds : user'[v] = IF v = u THEN row ELSE user[v]
  BY <1>1
<1>3. user' \in [UserIds -> UserRow] /\ raced' \subseteq UserIds /\ raced \subseteq raced'
  BY <1>1
<1>4. ASSUME NEW f \in Forms, guest[f].light
      PROVE  /\ user'[guest[f].found].made
             /\ Credentialed(guest[f].found)' /\ guest' = guest => guest[f].found \in raced'
  <2>1. /\ guest[f].found \in UserIds /\ user[guest[f].found].made
        /\ Credentialed(guest[f].found) => guest[f].found \in raced
    BY <1>4 DEF AccountsInv, LightInHand
  <2>2. CASE guest[f].found = u
    BY <1>1, <1>2, <2>1, <2>2
  <2>3. CASE guest[f].found # u
    BY <1>2, <1>3, <2>1, <2>3 DEF Credentialed
  <2>. QED  BY <2>2, <2>3
<1>. QED  BY <1>2, <1>3, <1>4

\* A link that is made is somebody's.
LEMMA NewLinkKeeps ==
  ASSUME AccountsInv, NEW u \in UserIds, NEW type \in {"verify_email", "password_reset"}, NewLink(type, u)
  PROVE  link' \in [LinkIds -> LinkRow] /\ LinksHaveUsers'
<1>. DEFINE new == [type |-> type, user |-> u, state |-> "live"]
<1>1. link \in [LinkIds -> LinkRow] /\ LinksHaveUsers
  BY DEF AccountsInv, AccountsTypeOK, LinkRow
<1>2. new \in LinkRow
  BY AccountsAssumption DEF LinkRow, UserIds
<1>3. link' = link \/ \E l \in LinkIds : link' = [link EXCEPT ![l] = new]
  BY DEF NewLink
<1>. QED  BY <1>1, <1>2, <1>3 DEF LinksHaveUsers

\* A form reads and writes: only a light account gets a phone from it.
LEMMA FormKeeps ==
  ASSUME AccountsInv, NEW f \in Forms,
         resolveActor(f) \/ lookUpPhone(f) \/ fillPhone(f) \/ createGuest(f)
  PROVE  AccountsInv'
<1>1. UNCHANGED <<signup, google, link, raced>>
  BY DEF resolveActor, lookUpPhone, fillPhone, createGuest
<1>2. NoGuest \in GuestRow /\ NoGuest.step # "fill" /\ ~NoGuest.light
  BY AccountsAssumption DEF NoGuest, GuestRow
<1>3. guest[f] \in GuestRow /\ guest \in [Forms -> GuestRow]
  BY DEF AccountsInv, AccountsTypeOK, GuestRow
<1>4. PICK g \in GuestRow :
        /\ guest' = [guest EXCEPT ![f] = g]
        /\ g.step = "fill" => g.light
        /\ g.light => /\ g.found \in UserIds /\ user[g.found].made
                      /\ Credentialed(g.found) => g.found \in raced
  <2>1. CASE resolveActor(f)
    <3>1. PICK n \in Phones, e \in Emails \union {Nothing} :
            LET u == IF e = Nothing THEN 0 ELSE findUserByEmail(e)
            IN  guest' = [guest EXCEPT ![f] = [step |-> "phone", email |-> e, phone |-> n, found |-> u,
                                               light |-> u # 0 /\ Light(u)]]
      BY <2>1 DEF resolveActor
    <3>. DEFINE u == IF e = Nothing THEN 0 ELSE findUserByEmail(e)
    <3>2. PICK light \in BOOLEAN : light <=> u # 0 /\ Light(u)
      OBVIOUS
    <3>. DEFINE g == [step |-> "phone", email |-> e, phone |-> n, found |-> u, light |-> light]
    <3>3. u \in 0..MaxUsers /\ (u # 0 => u \in UserIds /\ user[u].made)
      BY Searches, AccountsAssumption
    <3>4. (u # 0 /\ Light(u)) = light
      BY <3>2 DEF Light
    <3>5. guest' = [guest EXCEPT ![f] = g]
      BY <3>1, <3>4
    <3>. HIDE DEF u
    <3>6. g \in GuestRow /\ g.step # "fill" /\ g.found = u /\ g.light = light
      BY <3>3 DEF GuestRow
    <3>7. light => u \in UserIds /\ user[u].made /\ ~Credentialed(u)
      BY <3>2, <3>3 DEF Light
    <3>. QED  BY <3>5, <3>6, <3>7
  <2>2. CASE lookUpPhone(f)
    <3>1. ASSUME NEW step \in {"create", "fill"}
          PROVE  /\ [guest[f] EXCEPT !.step = step] \in GuestRow
                 /\ [guest[f] EXCEPT !.step = step].step = step
                 /\ [guest[f] EXCEPT !.step = step].light = guest[f].light
                 /\ [guest[f] EXCEPT !.step = step].found = guest[f].found
      BY <1>3 DEF GuestRow
    <3>2. \/ guest' = [guest EXCEPT ![f] = [guest[f] EXCEPT !.step = "create"]]
          \/ guest[f].light /\ guest' = [guest EXCEPT ![f] = [guest[f] EXCEPT !.step = "fill"]]
          \/ guest' = [guest EXCEPT ![f] = NoGuest]
      BY <2>2 DEF lookUpPhone
    <3>3. guest[f].light => /\ guest[f].found \in UserIds /\ user[guest[f].found].made
                            /\ Credentialed(guest[f].found) => guest[f].found \in raced
      BY DEF AccountsInv, LightInHand
    <3>4. CASE guest' = [guest EXCEPT ![f] = [guest[f] EXCEPT !.step = "create"]]
      BY <3>1, <3>3, <3>4
    <3>5. CASE guest[f].light /\ guest' = [guest EXCEPT ![f] = [guest[f] EXCEPT !.step = "fill"]]
      BY <3>1, <3>3, <3>5
    <3>6. CASE guest' = [guest EXCEPT ![f] = NoGuest]
      BY <1>2, <3>6
    <3>. QED  BY <3>2, <3>4, <3>5, <3>6
  <2>3. CASE fillPhone(f) \/ createGuest(f)
    BY <1>2, <2>3 DEF fillPhone, createGuest
  <2>. QED  BY <2>1, <2>2, <2>3
<1>5. /\ user' \in [UserIds -> UserRow]
      /\ \A u \in UserIds : user[u].made => user'[u].made /\ (Credentialed(u)' <=> Credentialed(u))
  <2>1. user \in [UserIds -> UserRow]
    BY DEF AccountsInv, AccountsTypeOK
  <2>2. CASE resolveActor(f) \/ lookUpPhone(f)
    BY <2>1, <2>2 DEF resolveActor, lookUpPhone, Credentialed
  <2>3. CASE fillPhone(f)
    <3>. DEFINE u == guest[f].found
                filled == [user[u] EXCEPT !.phone = guest[f].phone]
    <3>1. guest[f].step = "fill" /\ (user' = user \/ user' = [user EXCEPT ![u] = filled])
      BY <2>3 DEF fillPhone
    <3>2. u \in UserIds /\ user[u] \in UserRow
      BY <2>1, <3>1 DEF AccountsInv, LightInHand
    <3>3. /\ filled \in UserRow /\ filled.made = user[u].made
          /\ filled.password = user[u].password /\ filled.google = user[u].google
      BY <1>3, <3>2 DEF UserRow, GuestRow
    <3>. HIDE DEF filled, u
    <3>. QED  BY <2>1, <3>1, <3>2, <3>3 DEF Credentialed
  <2>4. CASE createGuest(f)
    <3>. DEFINE new == [NoUser EXCEPT !.made = TRUE, !.email = guest[f].email, !.phone = guest[f].phone]
    <3>1. new \in UserRow
      BY <1>3 DEF UserRow, GuestRow, NoUser
    <3>. HIDE DEF new
    <3>2. Insert(new)
      BY <2>4 DEF createGuest, new
    <3>. QED  BY <3>1, <3>2, InsertKeeps DEF AccountsInv, Credentialed
  <2>. QED  BY <2>2, <2>3, <2>4
<1>6. AccountsTypeOK'
  <2>1. guest' \in [Forms -> GuestRow]
    BY <1>3, <1>4
  <2>. QED  BY <1>1, <1>5, <2>1 DEF AccountsInv, AccountsTypeOK, GuestRow
<1>7. LightInHand'
  <2>1. \A h \in Forms : guest'[h] = IF h = f THEN g ELSE guest[h]
    BY <1>3, <1>4
  <2>. QED  BY <1>1, <1>4, <1>5, <2>1 DEF AccountsInv, LightInHand
<1>8. LinksHaveUsers'
  BY <1>1 DEF AccountsInv, LinksHaveUsers
<1>. QED  BY <1>6, <1>7, <1>8 DEF AccountsInv

\* A registration or a return from Google reads, or gives a row its credential, or makes a row.
LEMMA SignupKeeps ==
  ASSUME AccountsInv, NEW r \in Signups, registerRead(r) \/ adoptGuestUser(r) \/ createUser(r)
  PROVE  AccountsInv'
<1>1. /\ user \in [UserIds -> UserRow] /\ signup \in [Signups -> FindRow] /\ link \in [LinkIds -> LinkRow]
      /\ raced \subseteq UserIds
  BY DEF AccountsInv, AccountsTypeOK, FindRow, LinkRow
<1>2. UNCHANGED <<guest, google>>
  BY DEF registerRead, adoptGuestUser, createUser
<1>3. signup' \in [Signups -> FindRow]
  <2>1. NoFind \in FindRow
    BY AccountsAssumption DEF NoFind, FindRow
  <2>2. CASE registerRead(r)
    <3>1. PICK e \in Emails :
            signup' = [signup EXCEPT ![r] = [step |-> "write", email |-> e, found |-> findUserByEmail(e)]]
      BY <2>2 DEF registerRead
    <3>2. [step |-> "write", email |-> e, found |-> findUserByEmail(e)] \in FindRow
      BY Searches DEF FindRow
    <3>. QED  BY <1>1, <3>1, <3>2
  <2>3. CASE adoptGuestUser(r) \/ createUser(r)
    BY <1>1, <2>1, <2>3 DEF adoptGuestUser, createUser
  <2>. QED  BY <2>2, <2>3
<1>4. CASE registerRead(r)
  <2>1. UNCHANGED <<user, guest, google, link, raced>>
    BY <1>4 DEF registerRead
  <2>2. AccountsTypeOK'
    BY <1>3, <2>1 DEF AccountsTypeOK, AccountsInv, FindRow
  <2>3. LightInHand' /\ LinksHaveUsers'
    BY <1>2, <2>1 DEF AccountsInv, LightInHand, LinksHaveUsers, Credentialed
  <2>. QED  BY <2>2, <2>3 DEF AccountsInv
<1>5. CASE adoptGuestUser(r)
  <2>. DEFINE u == signup[r].found
              row == [user[u] EXCEPT !.password = TRUE]
  <2>1. u \in UserIds
    BY <1>1, <1>5 DEF adoptGuestUser, FindRow, UserIds
  <2>2. row \in UserRow /\ row.made = user[u].made /\ row.phone = user[u].phone
    <3>1. user[u] \in UserRow
      BY <1>1, <2>1
    <3>. QED  BY <3>1 DEF UserRow
  <2>3. Credential(u, row) /\ NewLink("verify_email", u)
    BY <1>5 DEF adoptGuestUser
  <2>. HIDE DEF u, row
  <2>4. link' \in [LinkIds -> LinkRow] /\ LinksHaveUsers'
    BY <2>1, <2>3, NewLinkKeeps
  <2>5. /\ user' \in [UserIds -> UserRow] /\ raced' \subseteq UserIds
        /\ \A f \in Forms : guest[f].light =>
             /\ user'[guest[f].found].made
             /\ Credentialed(guest[f].found)' => guest[f].found \in raced'
    BY <1>2, <2>1, <2>2, <2>3, CredentialKeeps
  <2>6. LightInHand'
    BY <1>2, <2>5 DEF AccountsInv, LightInHand, Credentialed
  <2>. QED  BY <1>2, <1>3, <2>4, <2>5, <2>6 DEF AccountsInv, AccountsTypeOK, FindRow, LinkRow
<1>6. CASE createUser(r)
  <2>. DEFINE new == [NoUser EXCEPT !.made = TRUE, !.email = signup[r].email, !.password = TRUE]
  <2>1. new \in UserRow
    BY <1>1 DEF UserRow, FindRow, NoUser
  <2>2. Insert(new) /\ raced' = raced
    BY <1>6 DEF createUser
  <2>. HIDE DEF new
  <2>3. user' \in [UserIds -> UserRow] /\ \A u \in UserIds : user[u].made => user'[u] = user[u]
    BY <2>1, <2>2, InsertKeeps DEF AccountsInv
  <2>4. link' \in [LinkIds -> LinkRow] /\ LinksHaveUsers'
    <3>1. CASE link' = link
      BY <1>1, <3>1 DEF AccountsInv, LinksHaveUsers
    <3>2. CASE \E u \in UserIds : NewLink("verify_email", u)
      BY <3>2, NewLinkKeeps
    <3>. QED  BY <1>6, <3>1, <3>2 DEF createUser
  <2>5. LightInHand'
    BY <1>2, <2>2, <2>3 DEF AccountsInv, LightInHand, Credentialed
  <2>. QED  BY <1>1, <1>2, <1>3, <2>2, <2>3, <2>4, <2>5 DEF AccountsInv, AccountsTypeOK, FindRow, LinkRow
<1>. QED  BY <1>4, <1>5, <1>6

LEMMA LoginKeeps ==
  ASSUME AccountsInv, NEW r \in Logins, googleRead(r) \/ linkGoogleId(r) \/ createGoogleUser(r)
  PROVE  AccountsInv'
<1>1. /\ user \in [UserIds -> UserRow] /\ google \in [Logins -> FindRow]
      /\ raced \subseteq UserIds
  BY DEF AccountsInv, AccountsTypeOK, FindRow
<1>2. UNCHANGED <<guest, signup, link>>
  BY DEF googleRead, linkGoogleId, createGoogleUser
<1>3. google' \in [Logins -> FindRow]
  <2>1. NoFind \in FindRow
    BY AccountsAssumption DEF NoFind, FindRow
  <2>2. CASE googleRead(r)
    <3>1. PICK e \in Emails :
            google' = [google EXCEPT ![r] = [step |-> "write", email |-> e, found |-> findUserByEmail(e)]]
      BY <2>2 DEF googleRead
    <3>2. [step |-> "write", email |-> e, found |-> findUserByEmail(e)] \in FindRow
      BY Searches DEF FindRow
    <3>. QED  BY <1>1, <3>1, <3>2
  <2>3. CASE linkGoogleId(r) \/ createGoogleUser(r)
    BY <1>1, <2>1, <2>3 DEF linkGoogleId, createGoogleUser
  <2>. QED  BY <2>2, <2>3
<1>4. LinksHaveUsers'
  BY <1>2 DEF AccountsInv, LinksHaveUsers
<1>5. CASE UNCHANGED <<user, raced>>
  BY <1>2, <1>3, <1>4, <1>5 DEF AccountsInv, AccountsTypeOK, FindRow, LightInHand, Credentialed
<1>6. CASE linkGoogleId(r) /\ ~UNCHANGED <<user, raced>>
  <2>. DEFINE u == google[r].found
              row == [user[u] EXCEPT !.google = google[r].email]
  <2>1. u \in UserIds
    BY <1>1, <1>6 DEF linkGoogleId, FindRow, UserIds
  <2>2. row \in UserRow /\ row.made = user[u].made /\ row.phone = user[u].phone
    BY <1>1, <2>1 DEF UserRow, FindRow
  <2>3. Credential(u, row)
    BY <1>6 DEF linkGoogleId
  <2>. HIDE DEF u, row
  <2>4. /\ user' \in [UserIds -> UserRow] /\ raced' \subseteq UserIds
        /\ \A f \in Forms : guest[f].light =>
             /\ user'[guest[f].found].made
             /\ Credentialed(guest[f].found)' => guest[f].found \in raced'
    BY <1>2, <2>1, <2>2, <2>3, CredentialKeeps
  <2>5. LightInHand'
    BY <1>2, <2>4 DEF AccountsInv, LightInHand, Credentialed
  <2>. QED  BY <1>2, <1>3, <1>4, <2>4, <2>5 DEF AccountsInv, AccountsTypeOK, FindRow
<1>7. CASE createGoogleUser(r)
  <2>. DEFINE e == google[r].email
              new == [NoUser EXCEPT !.made = TRUE, !.email = e, !.google = e, !.verified = TRUE]
  <2>1. new \in UserRow
    BY <1>1 DEF UserRow, FindRow, NoUser
  <2>2. Insert(new) /\ raced' = raced
    BY <1>7 DEF createGoogleUser
  <2>. HIDE DEF new
  <2>3. user' \in [UserIds -> UserRow] /\ \A u \in UserIds : user[u].made => user'[u] = user[u]
    BY <2>1, <2>2, InsertKeeps DEF AccountsInv
  <2>4. LightInHand'
    BY <1>2, <2>2, <2>3 DEF AccountsInv, LightInHand, Credentialed
  <2>. QED  BY <1>1, <1>2, <1>3, <1>4, <2>2, <2>3, <2>4 DEF AccountsInv, AccountsTypeOK, FindRow
<1>8. CASE googleRead(r)
  BY <1>5, <1>8 DEF googleRead
<1>. QED  BY <1>5, <1>6, <1>7, <1>8

\* A link sets a password, or marks the e-mail, or is closed.
LEMMA LinkKeeps ==
  ASSUME AccountsInv,
         forgotPassword \/ \E l \in LinkIds : setPassword(l) \/ markEmailVerified(l) \/ markEmailTokenUsed(l)
  PROVE  AccountsInv'
<1>1. /\ user \in [UserIds -> UserRow] /\ link \in [LinkIds -> LinkRow] /\ raced \subseteq UserIds
  BY DEF AccountsInv, AccountsTypeOK, LinkRow
<1>2. UNCHANGED <<guest, signup, google>>
  BY DEF forgotPassword, setPassword, markEmailVerified, markEmailTokenUsed
<1>3. link' \in [LinkIds -> LinkRow] /\ LinksHaveUsers'
  <2>1. CASE forgotPassword
    <3>1. PICK e \in Emails : findUserByEmail(e) # 0 /\ NewLink("password_reset", findUserByEmail(e))
      BY <2>1 DEF forgotPassword
    <3>2. findUserByEmail(e) \in UserIds
      BY <3>1, Searches
    <3>. QED  BY <3>1, <3>2, NewLinkKeeps
  <2>2. ASSUME NEW l \in LinkIds, setPassword(l) \/ markEmailVerified(l) \/ markEmailTokenUsed(l)
        PROVE  link' \in [LinkIds -> LinkRow] /\ LinksHaveUsers'
    <3>1. PICK state \in {"taken", "used"} : link' = [link EXCEPT ![l] = [link[l] EXCEPT !.state = state]]
      BY <2>2 DEF setPassword, markEmailVerified, markEmailTokenUsed
    <3>2. /\ [link[l] EXCEPT !.state = state] \in LinkRow
          /\ [link[l] EXCEPT !.state = state].type = link[l].type
          /\ [link[l] EXCEPT !.state = state].user = link[l].user
      BY <1>1 DEF LinkRow
    <3>. QED  BY <1>1, <3>1, <3>2 DEF AccountsInv, LinksHaveUsers
  <2>. QED  BY <2>1, <2>2
<1>4. CASE UNCHANGED <<user, raced>>
  BY <1>1, <1>2, <1>3, <1>4 DEF AccountsInv, AccountsTypeOK, LinkRow, LightInHand, Credentialed
<1>5. ASSUME NEW l \in LinkIds, setPassword(l)
      PROVE  AccountsInv'
  <2>. DEFINE u == link[l].user
              row == [user[u] EXCEPT !.password = TRUE]
  <2>1. u \in UserIds
    BY <1>5 DEF setPassword, AccountsInv, LinksHaveUsers
  <2>2. row \in UserRow /\ row.made = user[u].made /\ row.phone = user[u].phone
    <3>1. user[u] \in UserRow
      BY <1>1, <2>1
    <3>. QED  BY <3>1 DEF UserRow
  <2>3. Credential(u, row)
    BY <1>5 DEF setPassword
  <2>. HIDE DEF u, row
  <2>4. /\ user' \in [UserIds -> UserRow] /\ raced' \subseteq UserIds
        /\ \A f \in Forms : guest[f].light =>
             /\ user'[guest[f].found].made
             /\ Credentialed(guest[f].found)' => guest[f].found \in raced'
    BY <1>2, <2>1, <2>2, <2>3, CredentialKeeps
  <2>5. LightInHand'
    BY <1>2, <2>4 DEF AccountsInv, LightInHand, Credentialed
  <2>. QED  BY <1>2, <1>3, <2>4, <2>5 DEF AccountsInv, AccountsTypeOK, LinkRow
<1>6. ASSUME NEW l \in LinkIds, markEmailVerified(l)
      PROVE  AccountsInv'
  <2>. DEFINE u == link[l].user
              row == [user[u] EXCEPT !.verified = TRUE]
  <2>1. u \in UserIds
    BY <1>6 DEF markEmailVerified, AccountsInv, LinksHaveUsers
  <2>2. /\ row \in UserRow /\ row.made = user[u].made
        /\ row.password = user[u].password /\ row.google = user[u].google
    BY <1>1, <2>1 DEF UserRow
  <2>3. user' = [user EXCEPT ![u] = row] /\ raced' = raced
    BY <1>6 DEF markEmailVerified
  <2>. HIDE DEF u, row
  <2>4. user' \in [UserIds -> UserRow] /\ LightInHand'
    BY <1>1, <1>2, <2>1, <2>2, <2>3 DEF AccountsInv, LightInHand, Credentialed
  <2>. QED  BY <1>1, <1>2, <1>3, <2>3, <2>4 DEF AccountsInv, AccountsTypeOK, LinkRow
<1>. QED  BY <1>4, <1>5, <1>6 DEF forgotPassword, markEmailTokenUsed

\* The invariant of the accounts.
THEOREM AccountsInductive == AccountsSpec => []AccountsInv
<1>1. AccountsInit => AccountsInv
  BY AccountsAssumption
  DEF AccountsInit, AccountsInv, AccountsTypeOK, UserRow, NoUser, NoGuest, NoFind, NoLink, LightInHand,
      LinksHaveUsers
<1>2. AccountsInv /\ [AccountsNext]_accountVars => AccountsInv'
  <2>1. CASE UNCHANGED accountVars
    BY <2>1 DEF accountVars, AccountsInv, AccountsTypeOK, LightInHand, LinksHaveUsers, Credentialed
  <2>. QED  BY <2>1, FormKeeps, SignupKeeps, LoginKeeps, LinkKeeps DEF AccountsNext
<1>. QED  BY <1>1, <1>2, PTL DEF AccountsSpec

\* No form without a session rewrites the phone of an account that has a credential, whatever the
\* order of forms, registrations, returns from Google and links.
THEOREM AccountsAreSpared == AccountsSpec => FormsSpareAccounts
<1>. DEFINE Spared == \A u \in UserIds : user[u].made /\ Credentialed(u) /\ user'[u].phone # user[u].phone
                                           => u \in raced
<1>1. AccountsInv /\ [AccountsNext]_accountVars => [Spared]_accountVars
  <2>. SUFFICES ASSUME AccountsInv, AccountsNext, NEW u \in UserIds, user[u].made, Credentialed(u),
                       user'[u].phone # user[u].phone
                PROVE  u \in raced
    OBVIOUS
  <2>1. user \in [UserIds -> UserRow]
    BY DEF AccountsInv, AccountsTypeOK
  <2>2. ASSUME NEW v \in UserIds, NEW row \in UserRow, row.phone = user[v].phone
        PROVE  user' # [user EXCEPT ![v] = row]
    BY <2>1, <2>2
  <2>. DEFINE WithPassword(row) == [row EXCEPT !.password = TRUE]
              Verified(row)     == [row EXCEPT !.verified = TRUE]
  <2>3. \A row \in UserRow : /\ WithPassword(row) \in UserRow /\ WithPassword(row).phone = row.phone
                             /\ Verified(row) \in UserRow /\ Verified(row).phone = row.phone
    BY DEF UserRow
  <2>4. ASSUME NEW row \in UserRow
        PROVE  ~Insert(row)
    BY <2>4, InsertKeeps DEF AccountsInv
  <2>5. PICK f \in Forms : fillPhone(f)
    <3>1. ASSUME NEW f \in Forms, createGuest(f)
          PROVE  FALSE
      <4>1. [NoUser EXCEPT !.made = TRUE, !.email = guest[f].email, !.phone = guest[f].phone] \in UserRow
        BY DEF AccountsInv, AccountsTypeOK, UserRow, NoUser
      <4>. QED  BY <2>4, <3>1, <4>1 DEF createGuest
    <3>2. ASSUME NEW r \in Signups, adoptGuestUser(r) \/ createUser(r)
          PROVE  FALSE
      <4>1. signup[r] \in FindRow
        BY DEF AccountsInv, AccountsTypeOK, FindRow
      <4>2. [NoUser EXCEPT !.made = TRUE, !.email = signup[r].email, !.password = TRUE] \in UserRow
        BY <4>1 DEF FindRow, UserRow, NoUser
      <4>3. ~createUser(r)
        BY <2>4, <4>2 DEF createUser
      <4>4. CASE adoptGuestUser(r)
        <5>1. signup[r].found \in UserIds
          BY <4>1, <4>4 DEF adoptGuestUser, FindRow, UserIds
        <5>2. user' = [user EXCEPT ![signup[r].found] = WithPassword(user[signup[r].found])]
          BY <4>4 DEF adoptGuestUser, Credential
        <5>. HIDE DEF WithPassword
        <5>. QED  BY <2>1, <2>2, <2>3, <5>1, <5>2
      <4>. QED  BY <3>2, <4>3, <4>4
    <3>3. ASSUME NEW r \in Logins, linkGoogleId(r) \/ createGoogleUser(r)
          PROVE  FALSE
      <4>1. google[r] \in FindRow
        BY DEF AccountsInv, AccountsTypeOK, FindRow
      <4>2. [NoUser EXCEPT !.made = TRUE, !.email = google[r].email, !.google = google[r].email,
                           !.verified = TRUE] \in UserRow
        BY <4>1 DEF FindRow, UserRow, NoUser
      <4>3. ~createGoogleUser(r)
        BY <2>4, <4>2 DEF createGoogleUser
      <4>4. CASE linkGoogleId(r)
        <5>1. google[r].found \in UserIds
          BY <4>1, <4>4 DEF linkGoogleId, FindRow, UserIds
        <5>2. /\ [user[google[r].found] EXCEPT !.google = google[r].email] \in UserRow
              /\ [user[google[r].found] EXCEPT !.google = google[r].email].phone = user[google[r].found].phone
          BY <2>1, <4>1, <5>1 DEF UserRow, FindRow
        <5>. QED  BY <2>2, <4>4, <5>1, <5>2 DEF linkGoogleId, Credential
      <4>. QED  BY <3>3, <4>3, <4>4
    <3>4. ASSUME NEW l \in LinkIds, setPassword(l) \/ markEmailVerified(l)
          PROVE  FALSE
      <4>1. link[l].user \in UserIds
        BY <3>4 DEF setPassword, markEmailVerified, AccountsInv, LinksHaveUsers
      <4>2. \/ user' = [user EXCEPT ![link[l].user] = WithPassword(user[link[l].user])]
            \/ user' = [user EXCEPT ![link[l].user] = Verified(user[link[l].user])]
        BY <3>4 DEF setPassword, markEmailVerified, Credential
      <4>. HIDE DEF WithPassword, Verified
      <4>. QED  BY <2>1, <2>2, <2>3, <4>1, <4>2
    <3>. QED
      BY <3>1, <3>2, <3>3, <3>4
      DEF AccountsNext, resolveActor, lookUpPhone, registerRead, googleRead, forgotPassword, markEmailTokenUsed
  <2>6. /\ guest[f].found \in UserIds
        /\ Credentialed(guest[f].found) => guest[f].found \in raced
    BY <2>5 DEF fillPhone, AccountsInv, LightInHand
  <2>7. user'[u] = user[u] \/ u = guest[f].found
    BY <2>1, <2>5, <2>6 DEF fillPhone
  <2>. QED  BY <2>6, <2>7
<1>. QED  BY <1>1, AccountsInductive, PTL DEF AccountsSpec, FormsSpareAccounts

-----------------------------------------------------------------------------
(* Sessions.                                                               *)

Present(n) == token[n] # Absent

\* The second row came of the first, and was not revoked without it.
Successor(n, m) ==
  /\ n \in TokenRows /\ m \in TokenRows /\ Present(n) /\ Present(m)
  /\ token[m].family = token[n].family
  /\ token[m].revoked => token[n].revoked

\* The row a tab has minted and whose answer has not arrived.
Pending(t) == renewal[t].step \in {"mark", "answer"} /\ renewal[t].next # 0
Busy(t)    == renewal[t].step # "idle"

\* What each stage of a renewal has found.
RenewalsGoOn ==
  \A t \in Tabs :
    /\ ~Busy(t) => renewal[t] = AtRest
    /\ Busy(t) => renewal[t].row \in TokenRows /\ Present(renewal[t].row)
    /\ renewal[t].step \in {"sent", "reuse", "mint"} => renewal[t].next = 0
    /\ renewal[t].step \in {"race", "mark"} => Successor(renewal[t].row, renewal[t].next)
    /\ Pending(t) => renewal[t].next \in TokenRows /\ Present(renewal[t].next)

Replacements ==
  /\ jar # 0 => Present(jar)
  /\ \A n \in TokenRows : token[n].replacedBy # 0 => Successor(n, token[n].replacedBy)

\* Nobody holds a pending row but the tab that minted it.
PendingUnseen ==
  \A t \in Tabs : Pending(t) =>
    /\ jar # renewal[t].next /\ token[renewal[t].next].replacedBy = 0
    /\ \A u \in Tabs : /\ Busy(u) => renewal[u].row # renewal[t].next
                       /\ u # t /\ Pending(u) => renewal[u].next # renewal[t].next

\* While nothing was lost or late, a cookie that is replaced is about to be set anew.
ReplacedIsAnswered ==
  ~excused /\ jar # 0 /\ token[jar].replacedBy # 0
    => \E t \in Tabs : renewal[t].step = "answer" /\ renewal[t].row = jar /\ renewal[t].next # 0

\* While nothing was lost or late, what replaces a row somebody holds is recent.
HeldIsRecent ==
  ~excused =>
    /\ \A t \in Tabs : Pending(t) \/ renewal[t].step = "race" => token[renewal[t].next].age = "recent"
    /\ jar # 0 /\ token[jar].replacedBy # 0 => token[token[jar].replacedBy].age = "recent"
    /\ \A t \in Tabs : Busy(t) /\ token[renewal[t].row].replacedBy # 0
                         => token[token[renewal[t].row].replacedBy].age = "recent"

SessionsInv ==
  /\ SessionsTypeOK /\ RenewalsGoOn /\ Replacements /\ PendingUnseen /\ ReplacedIsAnswered
  /\ HeldIsRecent /\ SessionSurvives

TokenRow   == [age : {"none", "recent", "old", "expired"}, family : 0..MaxRefreshTokens,
               replacedBy : 0..MaxRefreshTokens, revoked : BOOLEAN]
RenewalRow == [step : {"idle", "sent", "race", "reuse", "mint", "mark", "answer"},
               row : 0..MaxRefreshTokens, next : 0..MaxRefreshTokens]

\* A revocation ends the rows it names and changes nothing else of any row.
RevokesOnly(S) ==
  /\ token' \in [TokenRows -> TokenRow]
  /\ \A n \in TokenRows :
       /\ Present(n)' <=> Present(n)
       /\ token'[n].family = token[n].family /\ token'[n].replacedBy = token[n].replacedBy
       /\ token'[n].age = token[n].age
       /\ token'[n].revoked <=> (token[n].revoked \/ n \in S)

Family(f) == {n \in TokenRows : Present(n) /\ token[n].family = f}

LEMMA RevokedRows ==
  ASSUME SessionsTypeOK, NEW f, token' = Revoked(f)
  PROVE  RevokesOnly(Family(f))
<1>1. token \in [TokenRows -> TokenRow]
  BY DEF SessionsTypeOK, TokenRow
<1>2. ASSUME NEW n \in TokenRows
      PROVE  /\ token'[n] \in TokenRow
             /\ token'[n] # Absent <=> token[n] # Absent
             /\ token'[n].family = token[n].family /\ token'[n].replacedBy = token[n].replacedBy
             /\ token'[n].age = token[n].age
             /\ token'[n].revoked <=> (token[n].revoked \/ n \in Family(f))
  <2>. DEFINE ended == [token[n] EXCEPT !.revoked = TRUE]
  <2>1. /\ ended \in TokenRow /\ ended.family = token[n].family /\ ended.revoked
        /\ ended.replacedBy = token[n].replacedBy /\ ended.age = token[n].age
    BY <1>1 DEF TokenRow
  <2>2. ended # Absent
    BY <2>1 DEF Absent
  <2>. HIDE DEF ended
  <2>3. token'[n] = IF token[n].family = f /\ token[n] # Absent THEN ended ELSE token[n]
    BY DEF Revoked, ended
  <2>. QED  BY <1>1, <2>1, <2>2, <2>3 DEF Family, Present
<1>3. token' \in [TokenRows -> TokenRow]
  BY <1>2 DEF Revoked
<1>. QED  BY <1>2, <1>3 DEF RevokesOnly, Present

LEMMA AllRevoked ==
  ASSUME SessionsTypeOK, revokeAllForUser
  PROVE  RevokesOnly({n \in TokenRows : Present(n)})
<1>1. token \in [TokenRows -> TokenRow]
  BY DEF SessionsTypeOK, TokenRow
<1>2. ASSUME NEW n \in TokenRows
      PROVE  /\ token'[n] \in TokenRow
             /\ token'[n] # Absent <=> token[n] # Absent
             /\ token'[n].family = token[n].family /\ token'[n].replacedBy = token[n].replacedBy
             /\ token'[n].age = token[n].age
             /\ token'[n].revoked <=> (token[n].revoked \/ token[n] # Absent)
  <2>. DEFINE ended == [token[n] EXCEPT !.revoked = TRUE]
  <2>1. /\ ended \in TokenRow /\ ended.family = token[n].family /\ ended.revoked
        /\ ended.replacedBy = token[n].replacedBy /\ ended.age = token[n].age
    BY <1>1 DEF TokenRow
  <2>2. ended # Absent
    BY <2>1 DEF Absent
  <2>. HIDE DEF ended
  <2>3. token'[n] = IF token[n] = Absent THEN Absent ELSE ended
    BY DEF revokeAllForUser, ended
  <2>4. CASE token[n] = Absent
    BY <1>1, <2>3, <2>4
  <2>5. CASE token[n] # Absent
    BY <2>1, <2>2, <2>3, <2>5
  <2>. QED  BY <2>4, <2>5
<1>3. token' \in [TokenRows -> TokenRow]
  BY <1>2 DEF revokeAllForUser
<1>. QED  BY <1>2, <1>3 DEF RevokesOnly, Present

\* A revocation of whole families, which may end a renewal that asked for it or clear the cookie.
LEMMA RevocationKeeps ==
  ASSUME SessionsInv, NEW S, RevokesOnly(S),
         \A n, m \in TokenRows : Successor(n, m) /\ m \in S => n \in S,
         jar' \in {0, jar}, excused' = excused, renewal' \in [Tabs -> RenewalRow],
         \A t \in Tabs : \/ renewal'[t] = renewal[t]
                         \/ /\ renewal[t].step = "reuse" /\ renewal'[t].step = "answer"
                            /\ renewal'[t].row = renewal[t].row /\ renewal'[t].next = renewal[t].next
  PROVE  SessionsInv'
<1>. USE DEF SessionsInv
<1>1. SessionsTypeOK'
  <2>1. jar' \in 0..MaxRefreshTokens /\ excused' \in BOOLEAN
    BY SessionsAssumption DEF SessionsTypeOK
  <2>2. token' \in [TokenRows -> TokenRow]
    BY DEF RevokesOnly
  <2>. QED  BY <2>1, <2>2 DEF SessionsTypeOK, TokenRow, RenewalRow
<1>2. \A n, m : Successor(n, m) => Successor(n, m)'
  BY DEF Successor, RevokesOnly
<1>3. \A t \in Tabs : /\ Pending(t)' <=> Pending(t)
                      /\ Busy(t)' <=> Busy(t)
                      /\ renewal'[t].row = renewal[t].row /\ renewal'[t].next = renewal[t].next
                      /\ renewal[t].step = "answer" => renewal'[t].step = "answer"
                      /\ renewal'[t].step = "race" => renewal[t].step = "race"
                      /\ renewal'[t].step = "reuse" => renewal[t].step = "reuse"
  BY DEF Pending, Busy, RenewalsGoOn
<1>4. \A n \in TokenRows : /\ Present(n)' <=> Present(n)
                           /\ token'[n].replacedBy = token[n].replacedBy
                           /\ token'[n].age = token[n].age
                           /\ token[n].revoked => token'[n].revoked
  BY DEF RevokesOnly
<1>5. RenewalsGoOn'
  <2>1. ASSUME NEW t \in Tabs, renewal'[t] = renewal[t]
        PROVE  /\ ~Busy(t)' => renewal'[t] = AtRest
               /\ Busy(t)' => renewal'[t].row \in TokenRows /\ Present(renewal[t].row)'
               /\ renewal'[t].step \in {"sent", "reuse", "mint"} => renewal'[t].next = 0
               /\ renewal'[t].step \in {"race", "mark"} => Successor(renewal[t].row, renewal[t].next)'
               /\ Pending(t)' => renewal'[t].next \in TokenRows /\ Present(renewal[t].next)'
    BY <1>2, <1>4, <2>1 DEF RenewalsGoOn, Pending, Busy, Successor, Present
  <2>2. ASSUME NEW t \in Tabs, renewal[t].step = "reuse", renewal'[t].step = "answer",
               renewal'[t].row = renewal[t].row, renewal'[t].next = renewal[t].next
        PROVE  /\ renewal'[t].row \in TokenRows /\ Present(renewal[t].row)'
               /\ renewal'[t].next = 0
    BY <1>4, <2>2 DEF RenewalsGoOn, Busy, Present
  <2>3. ASSUME NEW t \in Tabs
        PROVE  /\ ~Busy(t)' => renewal'[t] = AtRest
               /\ Busy(t)' => renewal'[t].row \in TokenRows /\ Present(renewal[t].row)'
               /\ renewal'[t].step \in {"sent", "reuse", "mint"} => renewal'[t].next = 0
               /\ renewal'[t].step \in {"race", "mark"} => Successor(renewal[t].row, renewal[t].next)'
               /\ Pending(t)' => renewal'[t].next \in TokenRows /\ Present(renewal[t].next)'
    <3>1. CASE renewal'[t] = renewal[t]
      BY <2>1, <3>1
    <3>2. CASE renewal'[t] # renewal[t]
      BY <2>2, <3>2 DEF Busy, Pending
    <3>. QED  BY <3>1, <3>2
  <2>. QED  BY <2>3 DEF RenewalsGoOn
<1>6. jar # 0 => jar \in TokenRows
  BY SessionsAssumption DEF SessionsTypeOK, TokenRows
<1>7. Replacements'
  <2>1. jar' # 0 => Present(jar)'
    BY <1>4, <1>6 DEF Replacements, Present
  <2>2. ASSUME NEW n \in TokenRows, token'[n].replacedBy # 0
        PROVE  Successor(n, token[n].replacedBy)'
    <3>. DEFINE m == token[n].replacedBy
    <3>1. Successor(n, m) /\ token'[n].replacedBy = m
      BY <1>4, <2>2 DEF Replacements
    <3>. QED  BY <3>1 DEF Successor, RevokesOnly, Present
  <2>. QED  BY <2>1, <2>2 DEF Replacements
<1>8. PendingUnseen'
  <2>. SUFFICES ASSUME NEW t \in Tabs, Pending(t)'
                PROVE  /\ jar' # renewal'[t].next /\ token'[renewal'[t].next].replacedBy = 0
                       /\ \A u \in Tabs : /\ Busy(u)' => renewal'[u].row # renewal'[t].next
                                          /\ u # t /\ Pending(u)' => renewal'[u].next # renewal'[t].next
    BY DEF PendingUnseen
  <2>1. Pending(t) /\ renewal'[t].next = renewal[t].next
    BY <1>3
  <2>2. renewal[t].next \in TokenRows /\ renewal[t].next # 0
    BY <2>1 DEF RenewalsGoOn, Pending
  <2>3. /\ jar # renewal[t].next /\ token[renewal[t].next].replacedBy = 0
        /\ \A u \in Tabs : /\ Busy(u) => renewal[u].row # renewal[t].next
                           /\ u # t /\ Pending(u) => renewal[u].next # renewal[t].next
    BY <2>1 DEF PendingUnseen
  <2>. QED  BY <1>3, <1>4, <2>1, <2>2, <2>3
<1>9. ReplacedIsAnswered'
  BY <1>3, <1>4, <1>6 DEF ReplacedIsAnswered
<1>10. HeldIsRecent'
  <2>1. \A n \in TokenRows : token[n].replacedBy # 0 => token[n].replacedBy \in TokenRows
    BY DEF Replacements, Successor
  <2>2. \A t \in Tabs : Busy(t) => renewal[t].row \in TokenRows
    BY DEF RenewalsGoOn
  <2>3. \A t \in Tabs : Pending(t) \/ renewal[t].step = "race" => renewal[t].next \in TokenRows
    BY DEF RenewalsGoOn, Successor
  <2>. QED  BY <1>3, <1>4, <1>6, <2>1, <2>2, <2>3 DEF HeldIsRecent
<1>11. SessionSurvives'
  BY <1>3, <1>4 DEF SessionSurvives, RenewalsGoOn, Busy
<1>. QED  BY <1>1, <1>5, <1>7, <1>8, <1>9, <1>10, <1>11

\* A renewal that was taken for reuse, a logout, and the reset of a password.
LEMMA EndingKeeps ==
  ASSUME SessionsInv, logout \/ revokeAllForUser \/ \E t \in Tabs : revokeFamily(t)
  PROVE  SessionsInv'
<1>1. SessionsTypeOK /\ renewal \in [Tabs -> RenewalRow]
  BY DEF SessionsInv, SessionsTypeOK, RenewalRow
<1>2. \A f : \A n, m \in TokenRows : Successor(n, m) /\ m \in Family(f) => n \in Family(f)
  BY DEF Successor, Family
<1>3. CASE logout
  <2>1. RevokesOnly(Family(token[jar].family))
    BY <1>1, <1>3, RevokedRows DEF logout
  <2>2. jar' = 0 /\ excused' = excused /\ renewal' = renewal
    BY <1>3 DEF logout
  <2>. QED  BY <1>1, <1>2, <2>1, <2>2, RevocationKeeps
<1>4. CASE revokeAllForUser
  <2>1. RevokesOnly({n \in TokenRows : Present(n)})
    BY <1>1, <1>4, AllRevoked
  <2>2. UNCHANGED <<jar, renewal, excused>>
    BY <1>4 DEF revokeAllForUser
  <2>3. \A n, m \in TokenRows : Successor(n, m) => n \in {k \in TokenRows : Present(k)}
    BY DEF Successor
  <2>. QED  BY <1>1, <2>1, <2>2, <2>3, RevocationKeeps
<1>5. ASSUME NEW t \in Tabs, revokeFamily(t)
      PROVE  SessionsInv'
  <2>1. RevokesOnly(Family(token[renewal[t].row].family))
    BY <1>1, <1>5, RevokedRows DEF revokeFamily
  <2>. DEFINE ended == [renewal[t] EXCEPT !.step = "answer"]
  <2>2. /\ ended \in RenewalRow /\ ended.step = "answer"
        /\ ended.row = renewal[t].row /\ ended.next = renewal[t].next
    BY <1>1 DEF RenewalRow
  <2>3. renewal' = [renewal EXCEPT ![t] = ended] /\ renewal[t].step = "reuse"
    BY <1>5 DEF revokeFamily, Go
  <2>. HIDE DEF ended
  <2>4. renewal' \in [Tabs -> RenewalRow] /\ \A u \in Tabs : renewal'[u] = IF u = t THEN ended ELSE renewal[u]
    BY <1>1, <2>2, <2>3
  <2>5. UNCHANGED <<jar, excused>>
    BY <1>5 DEF revokeFamily
  <2>. QED  BY <1>2, <2>1, <2>2, <2>3, <2>4, <2>5, RevocationKeeps
<1>. QED  BY <1>3, <1>4, <1>5

\* A tab goes on without writing: with the cookie, or with the row it has.
LEMMA ReadingKeeps ==
  ASSUME SessionsInv, NEW t \in Tabs, NEW q \in RenewalRow, renewal' = [renewal EXCEPT ![t] = q],
         UNCHANGED <<token, jar, excused>>,
         ~Pending(t), q.step \notin {"idle", "mark"},
         (q.row # 0 /\ q.row = jar) \/ (Busy(t) /\ q.row = renewal[t].row),
         q.step # "race" => q.next = 0,
         q.step = "race" => /\ Successor(q.row, q.next)
                            /\ excused \/ token[q.next].age = "recent",
         q.step = "reuse" => excused \/ token[q.row].revoked
  PROVE  SessionsInv'
<1>. USE DEF SessionsInv
<1>1. \A u \in Tabs : renewal'[u] = IF u = t THEN q ELSE renewal[u]
  BY DEF SessionsTypeOK
<1>2. SessionsTypeOK'
  <2>1. renewal' \in [Tabs -> RenewalRow]
    BY DEF SessionsTypeOK, RenewalRow
  <2>. QED  BY <2>1 DEF SessionsTypeOK, RenewalRow
<1>3. jar # 0 => jar \in TokenRows
  BY SessionsAssumption DEF SessionsTypeOK, TokenRows
<1>4. q.row \in TokenRows /\ Present(q.row)
  BY <1>3 DEF RenewalsGoOn, Replacements
<1>5. RenewalsGoOn'
  BY <1>1, <1>4 DEF RenewalsGoOn, Pending, Busy, Successor, Present
<1>6. Replacements'
  BY DEF Replacements, Successor, Present
<1>7. \A u \in Tabs : /\ Pending(u)' => u # t /\ Pending(u)
                      /\ u # t => /\ Busy(u)' <=> Busy(u)
                                  /\ renewal'[u] = renewal[u]
  BY <1>1 DEF Pending, Busy
<1>8. PendingUnseen'
  <2>. SUFFICES ASSUME NEW v \in Tabs, Pending(v)'
                PROVE  /\ jar # renewal'[v].next /\ token[renewal'[v].next].replacedBy = 0
                       /\ \A u \in Tabs : /\ Busy(u)' => renewal'[u].row # renewal'[v].next
                                          /\ u # v /\ Pending(u)' => renewal'[u].next # renewal'[v].next
    BY DEF PendingUnseen
  <2>1. v # t /\ Pending(v) /\ renewal'[v] = renewal[v]
    BY <1>7
  <2>2. /\ jar # renewal[v].next /\ token[renewal[v].next].replacedBy = 0
        /\ \A u \in Tabs : /\ Busy(u) => renewal[u].row # renewal[v].next
                           /\ u # v /\ Pending(u) => renewal[u].next # renewal[v].next
    BY <2>1 DEF PendingUnseen
  <2>. QED  BY <1>1, <1>7, <2>1, <2>2
<1>9. ReplacedIsAnswered'
  BY <1>1 DEF ReplacedIsAnswered, Pending
<1>10. HeldIsRecent'
  BY <1>1, <1>7 DEF HeldIsRecent, Pending, Busy
<1>11. SessionSurvives'
  BY <1>1 DEF SessionSurvives
<1>. QED  BY <1>2, <1>5, <1>6, <1>8, <1>9, <1>10, <1>11

\* The three steps of a renewal before it writes.
LEMMA RenewalReads ==
  ASSUME SessionsInv, NEW t \in Tabs, sendRefresh(t) \/ rotateRead(t) \/ isClientRace(t)
  PROVE  SessionsInv'
<1>. USE DEF SessionsInv
<1>1. UNCHANGED <<token, jar, excused>>
  BY DEF sendRefresh, rotateRead, isClientRace
<1>. DEFINE r == renewal[t]
<1>2. r \in RenewalRow
  BY DEF SessionsTypeOK, RenewalRow
<1>. DEFINE At(step, next) == [r EXCEPT !.step = step, !.next = next]
<1>3. \A step \in {"race", "reuse", "mint", "answer"}, next \in 0..MaxRefreshTokens :
        /\ At(step, next) \in RenewalRow /\ At(step, next).row = r.row
        /\ At(step, next).step = step /\ At(step, next).next = next
  BY <1>2 DEF RenewalRow
<1>4. CASE sendRefresh(t)
  <2>. DEFINE q == [step |-> "sent", row |-> jar, next |-> 0]
  <2>1. renewal' = [renewal EXCEPT ![t] = q] /\ renewal[t] = AtRest /\ jar # 0
    BY <1>4 DEF sendRefresh
  <2>2. q \in RenewalRow /\ q.step = "sent" /\ q.row = jar /\ q.next = 0
    BY SessionsAssumption DEF RenewalRow, SessionsTypeOK
  <2>3. ~Pending(t)
    BY <2>1 DEF Pending, AtRest
  <2>. HIDE DEF q
  <2>4. renewal' = [renewal EXCEPT ![t] = q]
    BY <2>1
  <2>. QED  BY <1>1, <2>1, <2>2, <2>3, <2>4, ReadingKeeps
<1>5. CASE rotateRead(t)
  <2>1. r.step = "sent" /\ r.next = 0 /\ r.row \in TokenRows /\ Present(r.row)
    BY <1>5 DEF rotateRead, RenewalsGoOn, Busy
  <2>2. ~Pending(t) /\ Busy(t)
    BY <2>1 DEF Pending, Busy
  <2>3. CASE \E step \in {"mint", "answer"} : Go(t, step)
    <3>1. PICK step \in {"mint", "answer"} : renewal' = [renewal EXCEPT ![t].step = step]
      BY <2>3 DEF Go
    <3>2. renewal' = [renewal EXCEPT ![t] = At(step, 0)]
      <4>1. [r EXCEPT !.step = step] = At(step, 0)
        BY <1>2, <2>1 DEF RenewalRow
      <4>. QED  BY <3>1, <4>1
    <3>3. 0 \in 0..MaxRefreshTokens
      BY SessionsAssumption
    <3>. DEFINE q == At(step, 0)
    <3>. HIDE DEF At
    <3>4. q \in RenewalRow /\ q.step = step /\ q.next = 0 /\ q.row = r.row
      BY <1>3, <3>3
    <3>. HIDE DEF q
    <3>5. renewal' = [renewal EXCEPT ![t] = q]
      BY <3>2 DEF q
    <3>. QED  BY <1>1, <2>2, <3>4, <3>5, ReadingKeeps
  <2>4. CASE /\ token[r.row].replacedBy # 0
             /\ renewal' = [renewal EXCEPT ![t].step = "race", ![t].next = token[r.row].replacedBy]
    <3>. DEFINE m == token[r.row].replacedBy
                q == At("race", m)
    <3>1. Successor(r.row, m)
      BY <2>1, <2>4 DEF Replacements
    <3>2. m \in 0..MaxRefreshTokens
      BY <3>1, SessionsAssumption DEF Successor, TokenRows
    <3>3. excused \/ token[m].age = "recent"
      BY <2>2, <2>4 DEF HeldIsRecent
    <3>4. q \in RenewalRow /\ q.step = "race" /\ q.next = m /\ q.row = r.row
      BY <1>3, <3>2
    <3>5. renewal' = [renewal EXCEPT ![t] = q]
      BY <2>4 DEF SessionsTypeOK
    <3>. HIDE DEF q, m
    <3>. QED  BY <1>1, <2>2, <3>1, <3>3, <3>4, <3>5, ReadingKeeps
  <2>. QED  BY <1>5, <2>3, <2>4 DEF rotateRead
<1>6. CASE isClientRace(t)
  <2>1. r.step = "race" /\ Successor(r.row, r.next)
    BY <1>6 DEF isClientRace, RenewalsGoOn
  <2>2. ~Pending(t) /\ Busy(t)
    BY <2>1 DEF Pending, Busy
  <2>3. PICK step \in {"reuse", "mint", "answer"} :
          /\ renewal' = [renewal EXCEPT ![t].next = 0, ![t].step = step]
          /\ step = "reuse" => ~clientRace(token[r.next])
    BY <1>6 DEF isClientRace
  <2>4. renewal' = [renewal EXCEPT ![t] = At(step, 0)]
    <3>1. [r EXCEPT !.next = 0, !.step = step] = At(step, 0)
      BY <1>2 DEF RenewalRow
    <3>2. renewal' = [renewal EXCEPT ![t] = [r EXCEPT !.next = 0, !.step = step]]
      BY <2>3 DEF SessionsTypeOK
    <3>. QED  BY <3>1, <3>2
  <2>5. step = "reuse" => excused \/ token[r.row].revoked
    BY <2>1, <2>3 DEF clientRace, Successor, HeldIsRecent
  <2>. DEFINE q == At(step, 0)
  <2>. HIDE DEF At
  <2>6. q \in RenewalRow /\ q.step = step /\ q.next = 0 /\ q.row = r.row
    BY <1>3, SessionsAssumption
  <2>. HIDE DEF q
  <2>7. renewal' = [renewal EXCEPT ![t] = q]
    BY <2>4 DEF q
  <2>. QED  BY <1>1, <2>2, <2>5, <2>6, <2>7, ReadingKeeps
<1>. QED  BY <1>4, <1>5, <1>6

\* A login, and the row a renewal mints, are rows nobody has seen.
LEMMA FreshRow ==
  ASSUME SessionsInv, NEW n \in TokenRows, Fresh(n)
  PROVE  /\ n # 0 /\ n # jar /\ ~Present(n)
         /\ \A m \in TokenRows : token[m].replacedBy # n
         /\ \A u \in Tabs : Busy(u) => renewal[u].row # n
         /\ \A u \in Tabs : Pending(u) \/ renewal[u].step = "race" => renewal[u].next # n
<1>1. n # 0 /\ ~Present(n)
  BY SessionsAssumption DEF TokenRows, Fresh, Present
<1>. QED  BY <1>1 DEF SessionsInv, RenewalsGoOn, Replacements, Successor

LEMMA NewRow ==
  ASSUME SessionsInv, NEW n \in TokenRows, Fresh(n), NEW f \in 0..MaxRefreshTokens,
         token' = [token EXCEPT ![n] = NewToken(f)]
  PROVE  /\ token' \in [TokenRows -> TokenRow]
         /\ \A m \in TokenRows : m # n => token'[m] = token[m]
         /\ \A m \in TokenRows : Present(m) => Present(m)' /\ token'[m] = token[m]
         /\ Present(n)' /\ token'[n].replacedBy = 0 /\ token'[n].age = "recent"
         /\ token'[n].family = f /\ ~token'[n].revoked
<1>1. token \in [TokenRows -> TokenRow]
  BY DEF SessionsInv, SessionsTypeOK, TokenRow
<1>2. /\ NewToken(f) \in TokenRow /\ NewToken(f).age = "recent" /\ NewToken(f).replacedBy = 0
      /\ NewToken(f).family = f /\ NewToken(f).revoked = FALSE
  BY SessionsAssumption DEF NewToken, TokenRow
<1>3. NewToken(f) # Absent
  BY <1>2 DEF Absent
<1>4. ~Present(n)
  BY DEF Fresh, Present
<1>. QED  BY <1>1, <1>2, <1>3, <1>4 DEF Present

LEMMA IssueKeeps ==
  ASSUME SessionsInv, issue
  PROVE  SessionsInv'
<1>. USE DEF SessionsInv
<1>1. PICK n \in TokenRows : Fresh(n) /\ token' = [token EXCEPT ![n] = NewToken(n)] /\ jar' = n
  BY DEF issue
<1>2. UNCHANGED <<renewal, excused>>
  BY DEF issue
<1>3. n \in 0..MaxRefreshTokens
  BY SessionsAssumption DEF TokenRows
<1>4. /\ token' \in [TokenRows -> TokenRow]
      /\ \A m \in TokenRows : Present(m) => Present(m)' /\ token'[m] = token[m]
      /\ \A m \in TokenRows : m # n => token'[m] = token[m]
      /\ Present(n)' /\ token'[n].replacedBy = 0
  BY <1>1, <1>3, NewRow
<1>5. /\ n # 0
      /\ \A m \in TokenRows : token[m].replacedBy # n
      /\ \A u \in Tabs : Busy(u) => renewal[u].row # n
      /\ \A u \in Tabs : Pending(u) \/ renewal[u].step = "race" => renewal[u].next # n
  BY <1>1, FreshRow
<1>6. \A a, b : Successor(a, b) => Successor(a, b)'
  BY <1>4 DEF Successor
<1>7. SessionsTypeOK'
  BY <1>1, <1>2, <1>3, <1>4 DEF SessionsTypeOK, TokenRow
<1>8. RenewalsGoOn'
  BY <1>2, <1>4, <1>6 DEF RenewalsGoOn, Pending, Busy
<1>9. Replacements'
  BY <1>1, <1>4, <1>6 DEF Replacements, Successor
<1>10. PendingUnseen'
  BY <1>1, <1>2, <1>4, <1>5 DEF PendingUnseen, RenewalsGoOn, Pending, Busy
<1>11. ReplacedIsAnswered'
  BY <1>1, <1>4 DEF ReplacedIsAnswered
<1>12. HeldIsRecent'
  <2>. SUFFICES ASSUME ~excused
                PROVE  HeldIsRecent'
    BY <1>2 DEF HeldIsRecent
  <2>1. ASSUME NEW u \in Tabs, Pending(u) \/ renewal[u].step = "race"
        PROVE  token'[renewal[u].next].age = "recent"
    BY <1>4, <2>1 DEF HeldIsRecent, RenewalsGoOn, Successor
  <2>2. ASSUME NEW u \in Tabs, Busy(u), token'[renewal[u].row].replacedBy # 0
        PROVE  token'[token'[renewal[u].row].replacedBy].age = "recent"
    BY <1>4, <2>2 DEF HeldIsRecent, RenewalsGoOn, Replacements, Successor
  <2>. QED  BY <1>1, <1>2, <1>4, <2>1, <2>2 DEF HeldIsRecent, Pending, Busy
<1>13. SessionSurvives'
  BY <1>2, <1>4 DEF SessionSurvives, RenewalsGoOn, Busy
<1>. QED  BY <1>7, <1>8, <1>9, <1>10, <1>11, <1>12, <1>13

LEMMA MintKeeps ==
  ASSUME SessionsInv, NEW t \in Tabs, mint(t)
  PROVE  SessionsInv'
<1>. USE DEF SessionsInv
<1>. DEFINE r == renewal[t]
            f == token[r.row].family
<1>1. PICK n \in TokenRows : /\ Fresh(n) /\ token' = [token EXCEPT ![n] = NewToken(f)]
                             /\ renewal' = [renewal EXCEPT ![t].step = "mark", ![t].next = n]
  BY DEF mint
<1>2. r.step = "mint" /\ UNCHANGED <<jar, excused>>
  BY DEF mint
<1>3. r.row \in TokenRows /\ Present(r.row)
  BY <1>2 DEF RenewalsGoOn, Busy
<1>4. f \in 0..MaxRefreshTokens
  BY <1>3 DEF SessionsTypeOK
<1>5. /\ token' \in [TokenRows -> TokenRow]
      /\ \A m \in TokenRows : Present(m) => Present(m)' /\ token'[m] = token[m]
      /\ \A m \in TokenRows : m # n => token'[m] = token[m]
      /\ Present(n)' /\ token'[n].replacedBy = 0 /\ token'[n].age = "recent"
      /\ token'[n].family = f /\ ~token'[n].revoked
  BY <1>1, <1>4, NewRow
<1>6. /\ n # 0 /\ n # jar
      /\ \A m \in TokenRows : token[m].replacedBy # n
      /\ \A u \in Tabs : Busy(u) => renewal[u].row # n
      /\ \A u \in Tabs : Pending(u) \/ renewal[u].step = "race" => renewal[u].next # n
  BY <1>1, FreshRow
<1>. DEFINE q == [r EXCEPT !.step = "mark", !.next = n]
<1>7. /\ q \in RenewalRow /\ q.step = "mark" /\ q.next = n /\ q.row = r.row
  <2>1. r \in RenewalRow
    BY DEF SessionsTypeOK, RenewalRow
  <2>2. n \in 0..MaxRefreshTokens
    BY SessionsAssumption DEF TokenRows
  <2>. QED  BY <2>1, <2>2 DEF RenewalRow
<1>8. renewal' = [renewal EXCEPT ![t] = q]
  BY <1>1 DEF SessionsTypeOK
<1>. HIDE DEF q, f, r
<1>9. renewal' \in [Tabs -> RenewalRow] /\ \A u \in Tabs : renewal'[u] = IF u = t THEN q ELSE renewal[u]
  BY <1>7, <1>8 DEF SessionsTypeOK, RenewalRow
<1>10. \A u \in Tabs : /\ u # t => Pending(u)' = Pending(u)
                       /\ Busy(u)' => Busy(u) /\ renewal'[u].row = renewal[u].row
  BY <1>2, <1>7, <1>9 DEF Pending, Busy, r
<1>11. \A a, b : Successor(a, b) => Successor(a, b)'
  BY <1>5 DEF Successor
<1>12. Successor(renewal[t].row, renewal[t].next)'
  <2>1. renewal'[t].row = renewal[t].row /\ renewal'[t].next = n
    BY <1>7, <1>9 DEF r
  <2>2. renewal[t].row \in TokenRows /\ Present(renewal[t].row) /\ f = token[renewal[t].row].family
    BY <1>3 DEF r, f
  <2>. QED  BY <1>5, <2>1, <2>2 DEF Successor
<1>13. SessionsTypeOK'
  BY <1>2, <1>5, <1>9 DEF SessionsTypeOK, TokenRow, RenewalRow
<1>14. RenewalsGoOn'
  <2>. SUFFICES ASSUME NEW u \in Tabs
                PROVE  /\ ~Busy(u)' => renewal'[u] = AtRest
                       /\ Busy(u)' => renewal'[u].row \in TokenRows /\ Present(renewal[u].row)'
                       /\ renewal'[u].step \in {"sent", "reuse", "mint"} => renewal'[u].next = 0
                       /\ renewal'[u].step \in {"race", "mark"} => Successor(renewal[u].row, renewal[u].next)'
                       /\ Pending(u)' => renewal'[u].next \in TokenRows /\ Present(renewal[u].next)'
    BY DEF RenewalsGoOn
  <2>1. CASE u = t
    <3>1. renewal'[u] = q /\ Successor(renewal[u].row, renewal[u].next)'
      BY <1>9, <1>12, <2>1
    <3>2. /\ renewal'[u].row \in TokenRows /\ Present(renewal[u].row)'
          /\ renewal'[u].next \in TokenRows /\ Present(renewal[u].next)'
      BY <3>1 DEF Successor
    <3>. QED  BY <1>7, <3>1, <3>2 DEF Busy
  <2>2. CASE u # t
    BY <1>5, <1>9, <1>11, <2>2 DEF RenewalsGoOn, Pending, Busy
  <2>. QED  BY <2>1, <2>2
<1>15. Replacements'
  <2>1. jar' # 0 => Present(jar)'
    BY <1>2, <1>5, SessionsAssumption DEF Replacements, SessionsTypeOK, TokenRows
  <2>2. ASSUME NEW m \in TokenRows, token'[m].replacedBy # 0
        PROVE  Successor(m, token[m].replacedBy)'
    <3>1. token'[m] = token[m] /\ Successor(m, token[m].replacedBy)
      BY <1>5, <2>2 DEF Replacements
    <3>. QED  BY <1>5, <3>1 DEF Successor
  <2>. QED  BY <2>1, <2>2 DEF Replacements
<1>16. PendingUnseen'
  <2>. SUFFICES ASSUME NEW v \in Tabs, Pending(v)'
                PROVE  /\ jar # renewal'[v].next /\ token'[renewal'[v].next].replacedBy = 0
                       /\ \A u \in Tabs : /\ Busy(u)' => renewal'[u].row # renewal'[v].next
                                          /\ u # v /\ Pending(u)' => renewal'[u].next # renewal'[v].next
    BY <1>2 DEF PendingUnseen
  <2>1. CASE v = t
    BY <1>5, <1>6, <1>7, <1>9, <1>10, <2>1
  <2>2. CASE v # t
    <3>1. Pending(v) /\ renewal'[v] = renewal[v] /\ renewal[v].next \in TokenRows /\ renewal[v].next # n
      BY <1>6, <1>9, <1>10, <2>2 DEF RenewalsGoOn
    <3>2. /\ jar # renewal[v].next /\ token[renewal[v].next].replacedBy = 0
          /\ \A u \in Tabs : /\ Busy(u) => renewal[u].row # renewal[v].next
                             /\ u # v /\ Pending(u) => renewal[u].next # renewal[v].next
      BY <3>1 DEF PendingUnseen
    <3>. QED  BY <1>5, <1>7, <1>9, <1>10, <3>1, <3>2
  <2>. QED  BY <2>1, <2>2
<1>17. ReplacedIsAnswered'
  <2>. SUFFICES ASSUME ~excused, jar # 0, token'[jar].replacedBy # 0
                PROVE  \E u \in Tabs : renewal'[u].step = "answer" /\ renewal'[u].row = jar /\ renewal'[u].next # 0
    BY <1>2 DEF ReplacedIsAnswered
  <2>1. token[jar].replacedBy # 0
    BY <1>5 DEF Replacements, SessionsTypeOK, TokenRows
  <2>2. PICK u \in Tabs : renewal[u].step = "answer" /\ renewal[u].row = jar /\ renewal[u].next # 0
    BY <2>1 DEF ReplacedIsAnswered
  <2>. QED  BY <1>2, <1>9, <2>2 DEF r
<1>18. HeldIsRecent'
  <2>. SUFFICES ASSUME ~excused
                PROVE  HeldIsRecent'
    BY <1>2 DEF HeldIsRecent
  <2>1. ASSUME NEW u \in Tabs, Pending(u)' \/ renewal'[u].step = "race"
        PROVE  token'[renewal'[u].next].age = "recent"
    <3>1. CASE u = t
      BY <1>5, <1>7, <1>9, <3>1
    <3>2. CASE u # t
      BY <1>5, <1>9, <1>10, <2>1, <3>2 DEF HeldIsRecent, RenewalsGoOn, Successor
    <3>. QED  BY <3>1, <3>2
  <2>2. ASSUME NEW m \in TokenRows, Present(m), token'[m].replacedBy # 0,
               m = jar \/ \E u \in Tabs : Busy(u) /\ m = renewal[u].row
        PROVE  token'[token'[m].replacedBy].age = "recent"
    <3>1. token'[m] = token[m] /\ token[m].replacedBy \in TokenRows /\ Present(token[m].replacedBy)
      BY <1>5, <2>2 DEF Replacements, Successor
    <3>2. token[token[m].replacedBy].age = "recent"
      BY <2>2, <3>1, SessionsAssumption DEF HeldIsRecent, TokenRows
    <3>. QED  BY <1>5, <3>1, <3>2
  <2>3. jar # 0 => jar \in TokenRows /\ Present(jar)
    BY SessionsAssumption DEF SessionsTypeOK, TokenRows, Replacements
  <2>4. \A u \in Tabs : Busy(u)' => /\ renewal'[u].row = renewal[u].row /\ Busy(u)
                                    /\ renewal[u].row \in TokenRows /\ Present(renewal[u].row)
    BY <1>10 DEF RenewalsGoOn
  <2>. QED  BY <1>2, <2>1, <2>2, <2>3, <2>4 DEF HeldIsRecent
<1>19. SessionSurvives'
  BY <1>2, <1>5, <1>7, <1>9 DEF SessionSurvives, RenewalsGoOn, Busy
<1>. QED  BY <1>13, <1>14, <1>15, <1>16, <1>17, <1>18, <1>19

LEMMA MarkKeeps ==
  ASSUME SessionsInv, NEW t \in Tabs, markReplaced(t)
  PROVE  SessionsInv'
<1>. USE DEF SessionsInv
<1>. DEFINE r == renewal[t]
            n == r.row
            m == r.next
            marked == [token[n] EXCEPT !.replacedBy = m]
            q == [r EXCEPT !.step = "answer"]
<1>1. /\ r.step = "mark" /\ UNCHANGED <<jar, excused>>
      /\ token' = [token EXCEPT ![n] = marked] /\ renewal' = [renewal EXCEPT ![t] = q]
  BY DEF markReplaced, Go
<1>2. Pending(t) /\ Busy(t) /\ Successor(n, m) /\ m # 0
  <2>1. Successor(n, m)
    BY <1>1 DEF RenewalsGoOn
  <2>. QED  BY <1>1, <2>1, SessionsAssumption DEF Pending, Busy, Successor, TokenRows
<1>3. n \in TokenRows /\ m \in TokenRows /\ m \in 0..MaxRefreshTokens /\ token[n] \in TokenRow /\ Present(n)
  BY <1>2, SessionsAssumption DEF Successor, TokenRows, SessionsTypeOK, TokenRow
<1>4. /\ marked \in TokenRow /\ marked.replacedBy = m /\ marked.age = token[n].age
      /\ marked.family = token[n].family /\ marked.revoked = token[n].revoked
  BY <1>3 DEF TokenRow
<1>5. marked # Absent
  BY <1>2, <1>4 DEF Absent
<1>6. q \in RenewalRow /\ q.step = "answer" /\ q.row = n /\ q.next = m
  <2>1. r \in RenewalRow
    BY DEF SessionsTypeOK, RenewalRow
  <2>. QED  BY <2>1 DEF RenewalRow
<1>. HIDE DEF marked, q, n, m
<1>7. /\ token' \in [TokenRows -> TokenRow] /\ renewal' \in [Tabs -> RenewalRow]
      /\ \A k \in TokenRows : token'[k] = IF k = n THEN marked ELSE token[k]
      /\ \A u \in Tabs : renewal'[u] = IF u = t THEN q ELSE renewal[u]
  BY <1>1, <1>4, <1>6 DEF SessionsTypeOK, TokenRow, RenewalRow
<1>8. \A k \in TokenRows : /\ Present(k)' <=> Present(k)
                           /\ token'[k].age = token[k].age /\ token'[k].family = token[k].family
                           /\ token'[k].revoked = token[k].revoked
                           /\ token'[k].replacedBy = IF k = n THEN m ELSE token[k].replacedBy
  BY <1>3, <1>4, <1>5, <1>7 DEF Present
<1>9. \A u \in Tabs : /\ Pending(u)' <=> Pending(u)
                      /\ Busy(u)' <=> Busy(u)
                      /\ renewal'[u].row = renewal[u].row /\ renewal'[u].next = renewal[u].next
                      /\ u # t => renewal'[u] = renewal[u]
  BY <1>1, <1>2, <1>6, <1>7 DEF Pending, Busy, n, m
<1>10. \A a, b : Successor(a, b) => Successor(a, b)'
  BY <1>8 DEF Successor
<1>11. jar # 0 => jar \in TokenRows
  BY SessionsAssumption DEF SessionsTypeOK, TokenRows
<1>12. SessionsTypeOK'
  BY <1>1, <1>7 DEF SessionsTypeOK, TokenRow, RenewalRow
<1>13. RenewalsGoOn'
  <2>. SUFFICES ASSUME NEW u \in Tabs
                PROVE  /\ ~Busy(u)' => renewal'[u] = AtRest
                       /\ Busy(u)' => renewal'[u].row \in TokenRows /\ Present(renewal[u].row)'
                       /\ renewal'[u].step \in {"sent", "reuse", "mint"} => renewal'[u].next = 0
                       /\ renewal'[u].step \in {"race", "mark"} => Successor(renewal[u].row, renewal[u].next)'
                       /\ Pending(u)' => renewal'[u].next \in TokenRows /\ Present(renewal[u].next)'
    BY DEF RenewalsGoOn
  <2>1. CASE u = t
    BY <1>2, <1>3, <1>6, <1>7, <1>8, <1>9, <2>1 DEF RenewalsGoOn, Successor, Present
  <2>2. CASE u # t
    BY <1>8, <1>9, <1>10, <2>2 DEF RenewalsGoOn, Present
  <2>. QED  BY <2>1, <2>2
<1>14. Replacements'
  <2>1. jar' # 0 => Present(jar)'
    BY <1>1, <1>8, <1>11 DEF Replacements, Present
  <2>2. ASSUME NEW k \in TokenRows, token'[k].replacedBy # 0
        PROVE  Successor(k, token[k].replacedBy)'
    <3>. DEFINE b == IF k = n THEN m ELSE token[k].replacedBy
    <3>1. Successor(k, b) /\ token'[k].replacedBy = b
      BY <1>2, <1>8, <2>2 DEF Replacements
    <3>. HIDE DEF b
    <3>. QED  BY <1>8, <3>1 DEF Successor
  <2>. QED  BY <2>1, <2>2 DEF Replacements
<1>15. PendingUnseen'
  <2>. SUFFICES ASSUME NEW v \in Tabs, Pending(v)'
                PROVE  /\ jar # renewal'[v].next /\ token'[renewal'[v].next].replacedBy = 0
                       /\ \A u \in Tabs : /\ Busy(u)' => renewal'[u].row # renewal'[v].next
                                          /\ u # v /\ Pending(u)' => renewal'[u].next # renewal'[v].next
    BY <1>1 DEF PendingUnseen
  <2>1. Pending(v) /\ renewal'[v].next = renewal[v].next /\ renewal[v].next \in TokenRows
    BY <1>9 DEF RenewalsGoOn
  <2>2. /\ jar # renewal[v].next /\ token[renewal[v].next].replacedBy = 0
        /\ \A u \in Tabs : /\ Busy(u) => renewal[u].row # renewal[v].next
                           /\ u # v /\ Pending(u) => renewal[u].next # renewal[v].next
    BY <2>1 DEF PendingUnseen
  <2>3. renewal[v].next # n
    BY <1>2, <2>2 DEF n
  <2>. QED  BY <1>8, <1>9, <2>1, <2>2, <2>3
<1>16. ReplacedIsAnswered'
  <2>. SUFFICES ASSUME ~excused, jar # 0, token'[jar].replacedBy # 0
                PROVE  \E u \in Tabs : renewal'[u].step = "answer" /\ renewal'[u].row = jar /\ renewal'[u].next # 0
    BY <1>1 DEF ReplacedIsAnswered
  <2>1. CASE jar = n
    BY <1>2, <1>6, <1>7, <2>1
  <2>2. CASE jar # n
    <3>1. PICK u \in Tabs : renewal[u].step = "answer" /\ renewal[u].row = jar /\ renewal[u].next # 0
      BY <1>8, <1>11, <2>2 DEF ReplacedIsAnswered
    <3>. QED  BY <1>1, <1>9, <3>1
  <2>. QED  BY <2>1, <2>2
<1>17. HeldIsRecent'
  <2>. SUFFICES ASSUME ~excused
                PROVE  HeldIsRecent'
    BY <1>1 DEF HeldIsRecent
  <2>1. ASSUME NEW u \in Tabs, Pending(u)' \/ renewal'[u].step = "race"
        PROVE  token'[renewal'[u].next].age = "recent"
    <3>1. Pending(u) \/ renewal[u].step = "race"
      BY <1>6, <1>7, <1>9, <2>1
    <3>2. renewal[u].next \in TokenRows
      BY <3>1 DEF RenewalsGoOn, Successor
    <3>. QED  BY <1>8, <1>9, <3>1, <3>2 DEF HeldIsRecent
  <2>2. ASSUME NEW k \in TokenRows, token'[k].replacedBy # 0,
               k = jar \/ \E u \in Tabs : Busy(u) /\ k = renewal[u].row
        PROVE  token'[token'[k].replacedBy].age = "recent"
    <3>1. CASE k = n
      <4>1. token[m].age = "recent"
        BY <1>2 DEF HeldIsRecent, m
      <4>. QED  BY <1>3, <1>8, <3>1, <4>1
    <3>2. CASE k # n
      <4>1. token'[k].replacedBy = token[k].replacedBy /\ token[k].replacedBy \in TokenRows
        BY <1>8, <2>2, <3>2 DEF Replacements, Successor
      <4>2. token[token[k].replacedBy].age = "recent"
        BY <2>2, <4>1, SessionsAssumption DEF HeldIsRecent, TokenRows
      <4>. QED  BY <1>8, <4>1, <4>2
    <3>. QED  BY <3>1, <3>2
  <2>3. \A u \in Tabs : Busy(u)' => /\ renewal'[u].row = renewal[u].row /\ Busy(u)
                                    /\ renewal[u].row \in TokenRows
    BY <1>9 DEF RenewalsGoOn
  <2>. QED  BY <1>1, <1>11, <2>1, <2>2, <2>3 DEF HeldIsRecent
<1>18. SessionSurvives'
  BY <1>1, <1>6, <1>7, <1>8, <1>9 DEF SessionSurvives, RenewalsGoOn, Busy
<1>. QED  BY <1>12, <1>13, <1>14, <1>15, <1>16, <1>17, <1>18

\* An answer that arrives brings a row nobody has replaced; one that is lost excuses.
LEMMA AnswerKeeps ==
  ASSUME SessionsInv, NEW t \in Tabs, answer(t)
  PROVE  SessionsInv'
<1>. USE DEF SessionsInv
<1>1. /\ renewal[t].step = "answer" /\ renewal' = [renewal EXCEPT ![t] = AtRest] /\ token' = token
      /\ \/ jar' = renewal[t].next /\ excused' = excused
         \/ jar' = jar /\ excused' = TRUE
  BY DEF answer
<1>2. AtRest \in RenewalRow /\ AtRest.step = "idle"
  BY SessionsAssumption DEF AtRest, RenewalRow
<1>3. /\ renewal' \in [Tabs -> RenewalRow]
      /\ \A u \in Tabs : renewal'[u] = IF u = t THEN AtRest ELSE renewal[u]
  BY <1>1, <1>2 DEF SessionsTypeOK, RenewalRow
<1>4. \A u \in Tabs : /\ Pending(u)' => u # t /\ Pending(u)
                      /\ Busy(u)' => u # t /\ Busy(u)
                      /\ u # t => renewal'[u] = renewal[u]
  BY <1>2, <1>3 DEF Pending, Busy
<1>5. renewal[t].next # 0 => Pending(t) /\ renewal[t].next \in TokenRows /\ Present(renewal[t].next)
  BY <1>1 DEF RenewalsGoOn, Pending
<1>6. jar' # jar => excused' = excused /\ jar' = renewal[t].next
  BY <1>1
<1>7. SessionsTypeOK'
  <2>1. jar' \in 0..MaxRefreshTokens /\ excused' \in BOOLEAN
    <3>1. renewal[t].next \in 0..MaxRefreshTokens /\ jar \in 0..MaxRefreshTokens /\ excused \in BOOLEAN
      BY DEF SessionsTypeOK
    <3>. QED  BY <1>1, <3>1
  <2>. QED  BY <1>1, <1>3, <2>1 DEF SessionsTypeOK, TokenRow, RenewalRow
<1>8. RenewalsGoOn'
  BY <1>1, <1>2, <1>3, <1>4 DEF RenewalsGoOn, Busy, Present, Successor
<1>9. Replacements'
  BY <1>1, <1>5 DEF Replacements, Present, Successor
<1>10. PendingUnseen'
  <2>. SUFFICES ASSUME NEW v \in Tabs, Pending(v)'
                PROVE  /\ jar' # renewal'[v].next /\ token'[renewal'[v].next].replacedBy = 0
                       /\ \A u \in Tabs : /\ Busy(u)' => renewal'[u].row # renewal'[v].next
                                          /\ u # v /\ Pending(u)' => renewal'[u].next # renewal'[v].next
    BY DEF PendingUnseen
  <2>1. v # t /\ Pending(v) /\ renewal'[v] = renewal[v] /\ renewal[v].next # 0
    BY <1>4 DEF Pending
  <2>2. /\ jar # renewal[v].next /\ token[renewal[v].next].replacedBy = 0
        /\ \A u \in Tabs : /\ Busy(u) => renewal[u].row # renewal[v].next
                           /\ u # v /\ Pending(u) => renewal[u].next # renewal[v].next
    BY <2>1 DEF PendingUnseen
  <2>3. jar' # renewal[v].next
    BY <1>1, <1>5, <2>1, <2>2
  <2>. QED  BY <1>1, <1>4, <2>1, <2>2, <2>3
<1>11. ReplacedIsAnswered'
  <2>. SUFFICES ASSUME ~excused', jar' # 0, token[jar'].replacedBy # 0
                PROVE  FALSE
    BY <1>1 DEF ReplacedIsAnswered
  <2>1. jar' = renewal[t].next
    BY <1>1
  <2>. QED  BY <1>5, <2>1 DEF PendingUnseen
<1>12. HeldIsRecent'
  <2>. SUFFICES ASSUME ~excused'
                PROVE  HeldIsRecent'
    BY DEF HeldIsRecent
  <2>1. jar' = renewal[t].next /\ ~excused
    BY <1>1
  <2>2. jar' # 0 => token[jar'].replacedBy = 0
    BY <1>5, <2>1 DEF PendingUnseen
  <2>3. ASSUME NEW u \in Tabs, Pending(u)' \/ renewal'[u].step = "race"
        PROVE  token[renewal'[u].next].age = "recent"
    BY <1>2, <1>3, <1>4, <2>1, <2>3 DEF HeldIsRecent
  <2>4. ASSUME NEW u \in Tabs, Busy(u)', token[renewal'[u].row].replacedBy # 0
        PROVE  token[token[renewal'[u].row].replacedBy].age = "recent"
    BY <1>4, <2>1, <2>4 DEF HeldIsRecent
  <2>. QED  BY <1>1, <2>2, <2>3, <2>4 DEF HeldIsRecent
<1>13. SessionSurvives'
  BY <1>1, <1>2, <1>3 DEF SessionSurvives
<1>. QED  BY <1>7, <1>8, <1>9, <1>10, <1>11, <1>12, <1>13

\* Time excuses whoever is on the way; with nobody on the way no held row is replaced.
LEMMA AgeKeeps ==
  ASSUME SessionsInv, NEW n \in TokenRows, Age(n)
  PROVE  SessionsInv'
<1>. USE DEF SessionsInv
<1>1. /\ token[n].age \in {"recent", "old"} /\ UNCHANGED <<jar, renewal>>
      /\ excused' = (excused \/ \E u \in Tabs : renewal[u] # AtRest)
  BY DEF Age
<1>2. PICK age \in {"old", "expired"} : token' = [token EXCEPT ![n] = [token[n] EXCEPT !.age = age]]
  BY DEF Age
<1>. DEFINE aged == [token[n] EXCEPT !.age = age]
<1>3. token \in [TokenRows -> TokenRow]
  BY DEF SessionsTypeOK, TokenRow
<1>4. /\ aged \in TokenRow /\ aged.family = token[n].family /\ aged.age # "none"
      /\ aged.replacedBy = token[n].replacedBy /\ aged.revoked = token[n].revoked
  BY <1>3 DEF TokenRow
<1>5. aged # Absent /\ token[n] # Absent
  BY <1>1, <1>4 DEF Absent
<1>. HIDE DEF aged
<1>6. token' = [token EXCEPT ![n] = aged]
  BY <1>2 DEF aged
<1>7. /\ token' \in [TokenRows -> TokenRow]
      /\ \A k \in TokenRows : /\ Present(k)' <=> Present(k)
                              /\ token'[k].family = token[k].family
                              /\ token'[k].revoked = token[k].revoked
                              /\ token'[k].replacedBy = token[k].replacedBy
  BY <1>3, <1>4, <1>5, <1>6 DEF Present
<1>8. jar # 0 => jar \in TokenRows
  BY SessionsAssumption DEF SessionsTypeOK, TokenRows
<1>9. \A a, b : Successor(a, b) => Successor(a, b)'
  BY <1>7 DEF Successor
<1>10. SessionsTypeOK'
  BY <1>1, <1>7 DEF SessionsTypeOK, TokenRow
<1>11. RenewalsGoOn'
  BY <1>1, <1>7, <1>9 DEF RenewalsGoOn, Pending, Busy, Successor
<1>12. Replacements'
  <2>1. jar' # 0 => Present(jar)'
    BY <1>1, <1>7, <1>8 DEF Replacements, Present
  <2>2. ASSUME NEW k \in TokenRows, token'[k].replacedBy # 0
        PROVE  Successor(k, token[k].replacedBy)'
    <3>. DEFINE b == token[k].replacedBy
    <3>1. Successor(k, b) /\ token'[k].replacedBy = b
      BY <1>7, <2>2 DEF Replacements
    <3>. HIDE DEF b
    <3>. QED  BY <1>7, <3>1 DEF Successor
  <2>. QED  BY <2>1, <2>2 DEF Replacements
<1>13. PendingUnseen'
  BY <1>1, <1>7 DEF PendingUnseen, RenewalsGoOn, Pending, Busy
<1>14. ReplacedIsAnswered'
  BY <1>1, <1>7, <1>8 DEF ReplacedIsAnswered
<1>15. HeldIsRecent'
  <2>. SUFFICES ASSUME ~excused'
                PROVE  HeldIsRecent'
    BY DEF HeldIsRecent
  <2>1. ~excused /\ \A u \in Tabs : renewal[u] = AtRest
    BY <1>1
  <2>2. \A u \in Tabs : ~Pending(u)' /\ ~Busy(u)' /\ renewal'[u].step # "race" /\ renewal[u].step # "answer"
    BY <1>1, <2>1 DEF Pending, Busy, AtRest
  <2>3. jar # 0 => token[jar].replacedBy = 0
    BY <2>1, <2>2 DEF ReplacedIsAnswered
  <2>. QED  BY <1>1, <1>7, <1>8, <2>2, <2>3 DEF HeldIsRecent
<1>16. SessionSurvives'
  BY <1>1, <1>7 DEF SessionSurvives, RenewalsGoOn, Busy
<1>. QED  BY <1>10, <1>11, <1>12, <1>13, <1>14, <1>15, <1>16

\* The invariant of the sessions.
THEOREM SessionsInductive == SessionsSpec => []SessionsInv
<1>1. SessionsInit => SessionsInv
  <2>. SUFFICES ASSUME SessionsInit
                PROVE  SessionsInv
    OBVIOUS
  <2>1. /\ \A t \in Tabs : renewal[t] = AtRest
        /\ \A n \in TokenRows : token[n].replacedBy = 0
        /\ jar = 0 /\ excused = FALSE
    BY DEF SessionsInit, Absent
  <2>2. SessionsTypeOK
    <3>1. 0 \in 0..MaxRefreshTokens
      BY SessionsAssumption
    <3>2. Absent \in TokenRow /\ AtRest \in RenewalRow
      BY <3>1 DEF Absent, AtRest, TokenRow, RenewalRow
    <3>. QED  BY <2>1, <3>1, <3>2 DEF SessionsInit, SessionsTypeOK, TokenRow, RenewalRow
  <2>3. \A t \in Tabs : renewal[t].step = "idle" /\ ~Pending(t) /\ ~Busy(t)
    BY <2>1 DEF AtRest, Pending, Busy
  <2>4. RenewalsGoOn /\ SessionSurvives /\ PendingUnseen
    BY <2>1, <2>3 DEF RenewalsGoOn, SessionSurvives, PendingUnseen
  <2>5. Replacements /\ ReplacedIsAnswered /\ HeldIsRecent
    BY <2>1, <2>3 DEF Replacements, ReplacedIsAnswered, HeldIsRecent
  <2>. QED  BY <2>2, <2>4, <2>5 DEF SessionsInv
<1>2. SessionsInv /\ [SessionsNext]_sessionVars => SessionsInv'
  <2>1. CASE UNCHANGED sessionVars
    BY <2>1
    DEF sessionVars, SessionsInv, SessionsTypeOK, RenewalsGoOn, Replacements, PendingUnseen,
        ReplacedIsAnswered, HeldIsRecent, SessionSurvives, Pending, Busy, Successor, Present
  <2>. QED
    BY <2>1, IssueKeeps, EndingKeeps, AgeKeeps, RenewalReads, MintKeeps, MarkKeeps, AnswerKeeps
    DEF SessionsNext
<1>. QED  BY <1>1, <1>2, PTL DEF SessionsSpec

\* However many tabs renew at once, none is taken for a thief unless an answer was lost, the grace
\* ran out meanwhile, or the session was ended.
THEOREM TabsDoNotLockEachOtherOut == SessionsSpec => []SessionSurvives
<1>1. SessionsInv => SessionSurvives
  BY DEF SessionsInv
<1>. QED  BY <1>1, SessionsInductive, PTL

-----------------------------------------------------------------------------
(* Pix keys.  The argument follows the owner: a key is stored with its     *)
(* owner, a proof copies both from the store, a verdict compares the payer *)
(* with the copy.  Each copy may be stale, but only at a store in crossed. *)

ProofRow  == [state : {"pending", "verified", "rejected", "expired"}, store : Stores, key : Keys,
              owner : Keys, qr : BOOLEAN, live : BOOLEAN, payer : AnyKey \union {Unclear}]
SaveRow   == [step : {"checked", "loaded", "drained"}, store : Stores, old : AnyKey, new : Keys,
              owner : AnyKey]
AskRow    == [step : {"owner", "create", "charge"}, key : Keys, owner : Keys, id : 0..MaxProofs]
SettleRow == [step : {"close", "mark"}, id : Proofs, verdict : {"verified", "rejected", "expired"},
              saw : AnyKey]

\* The types of what the argument is about.
KeysTypeOK ==
  /\ keyOf \in [Stores -> KeyState] /\ saving \in [Saves -> SaveState]
  /\ asking \in [Stores -> AskState] /\ proof \in [Proofs -> ProofState]
  /\ settling \in [Settlers -> SettleState]
  /\ crossed \subseteq Stores

\* The owner beside a key is the holder of that key.
OwnerGoesWithKey ==
  /\ \A s \in Stores \ crossed : keyOf[s].owner \in {NoKey, keyOf[s].key}
  /\ \A v \in Saves : saving[v] # NoSave => saving[v].owner \in {NoKey, saving[v].new}
  /\ \A s \in Stores \ crossed : asking[s] # NoAsk => asking[s].owner = asking[s].key
  /\ \A i \in Proofs : proof[i] # NoProof /\ proof[i].store \notin crossed
                         => proof[i].owner = proof[i].key

\* A request that charges the cent has its row.
ChargedHasRow ==
  \A s \in Stores : asking[s] # NoAsk /\ asking[s].step = "charge"
    => asking[s].id \in Proofs /\ proof[asking[s].id] # NoProof

\* A worker that is going to say yes has compared payer and owner, and the two keys.
VerdictIsEarned ==
  \A w \in Settlers : settling[w] # NoSettle =>
    /\ proof[settling[w].id] # NoProof
    /\ settling[w].step = "mark" => settling[w].verdict = "verified"
    /\ settling[w].verdict = "verified" =>
         /\ proof[settling[w].id].payer = proof[settling[w].id].owner
         /\ proof[settling[w].id].key = settling[w].saw

KeysInv ==
  KeysTypeOK /\ OwnerGoesWithKey /\ ChargedHasRow /\ VerdictIsEarned /\ ProvedByItsHolder

\* A row that exists is told from one that does not by its fields.
LEMMA Rows ==
  /\ \A r \in ProofRow : r # NoProof
  /\ \A r \in SaveRow : r # NoSave
  /\ \A r \in AskRow : r # NoAsk
  /\ \A r \in SettleRow : r # NoSettle
  /\ ProofState = {NoProof} \union ProofRow
  /\ SaveState = {NoSave} \union SaveRow
  /\ AskState = {NoAsk} \union AskRow
  /\ SettleState = {NoSettle} \union SettleRow
<1>1. \A r \in ProofRow : r.state # NoProof.state
  BY DEF ProofRow, NoProof
<1>2. \A r \in SaveRow : r.step # NoSave.step
  BY DEF SaveRow, NoSave
<1>3. \A r \in AskRow : r.step # NoAsk.step
  BY DEF AskRow, NoAsk
<1>4. \A r \in SettleRow : r.step # NoSettle.step
  BY DEF SettleRow, NoSettle
<1>5. /\ ProofState = {NoProof} \union ProofRow
      /\ SaveState = {NoSave} \union SaveRow
      /\ AskState = {NoAsk} \union AskRow
      /\ SettleState = {NoSettle} \union SettleRow
  BY DEF ProofState, SaveState, AskState, SettleState, ProofRow, SaveRow, AskRow, SettleRow
<1>. QED  BY <1>1, <1>2, <1>3, <1>4, <1>5

\* What a step that leaves the keys and the requests alone may do to the proofs.
RowsGoOn ==
  \A i \in Proofs : proof[i] # NoProof =>
    /\ proof'[i] # NoProof
    /\ proof'[i].store = proof[i].store /\ proof'[i].key = proof[i].key
    /\ proof'[i].owner = proof[i].owner
    /\ proof[i].payer # NoKey => proof'[i].payer = proof[i].payer

\* Proofs that only go on break nothing said of the keys and the workers.
LEMMA RowsGoOnKeeps ==
  ASSUME KeysInv, RowsGoOn, crossed \subseteq crossed', UNCHANGED <<keyOf, settling>>
  PROVE  VerdictIsEarned' /\ ProvedByItsHolder'
<1>1. VerdictIsEarned'
  <2>. SUFFICES ASSUME NEW w \in Settlers, settling[w] # NoSettle
                PROVE  /\ proof'[settling[w].id] # NoProof
                       /\ settling[w].step = "mark" => settling[w].verdict = "verified"
                       /\ settling[w].verdict = "verified" =>
                            /\ proof'[settling[w].id].payer = proof'[settling[w].id].owner
                            /\ proof'[settling[w].id].key = settling[w].saw
    BY DEF VerdictIsEarned
  <2>. DEFINE p == proof[settling[w].id]
  <2>1. settling[w].id \in Proofs /\ p # NoProof
        /\ (settling[w].step = "mark" => settling[w].verdict = "verified")
    BY Rows DEF KeysInv, KeysTypeOK, VerdictIsEarned, SettleRow
  <2>2. CASE settling[w].verdict = "verified"
    <3>1. p.payer = p.owner /\ p.key = settling[w].saw
      BY <2>2 DEF KeysInv, VerdictIsEarned
    <3>2. p \in ProofRow
      BY <2>1, Rows DEF KeysInv, KeysTypeOK
    <3>3. p.payer # NoKey
      BY <3>1, <3>2, PixKeyAssumption DEF ProofRow, NoKey
    <3>. QED  BY <2>1, <3>1, <3>3 DEF RowsGoOn
  <2>3. CASE settling[w].verdict # "verified"
    BY <2>1, <2>3 DEF RowsGoOn
  <2>. QED  BY <2>2, <2>3
<1>2. ProvedByItsHolder'
  <2>. SUFFICES ASSUME NEW s \in Stores \ crossed, keyOf[s].status = "verified"
                PROVE  \E i \in Proofs : /\ proof'[i] # NoProof /\ proof'[i].store = s
                                         /\ proof'[i].key = keyOf[s].key
                                         /\ proof'[i].payer = keyOf[s].key
    BY DEF ProvedByItsHolder
  <2>1. PICK i \in Proofs : /\ proof[i] # NoProof /\ proof[i].store = s
                            /\ proof[i].key = keyOf[s].key /\ proof[i].payer = keyOf[s].key
    BY DEF KeysInv, ProvedByItsHolder
  <2>2. proof[i].key # NoKey
    BY <2>1, Rows, PixKeyAssumption DEF KeysInv, KeysTypeOK, ProofRow, NoKey
  <2>. QED  BY <2>1, <2>2 DEF RowsGoOn
<1>. QED  BY <1>1, <1>2

keyVars == <<keyOf, saving, asking, proof, settling, crossed>>

LEMMA StandsStill ==
  ASSUME KeysInv, UNCHANGED keyVars
  PROVE  KeysInv'
BY DEF KeysInv, keyVars, KeysTypeOK, OwnerGoesWithKey, ChargedHasRow, VerdictIsEarned, ProvedByItsHolder

\* A save carries the owner the DICT named for the new key.
LEMMA SavingKeeps ==
  ASSUME KeysInv, NEW v \in Saves,
         (\E s \in Stores, k \in Keys : putRead(v, s, k)) \/ putLook(v) \/ putDrain(v)
  PROVE  KeysInv'
<1>1. UNCHANGED <<keyOf, asking, proof, settling, crossed>>
  BY DEF putRead, putLook, putDrain
<1>2. PICK a \in SaveState : saving' = [saving EXCEPT ![v] = a]
                             /\ (a # NoSave => a.owner \in {NoKey, a.new})
  <2>1. CASE \E s \in Stores, k \in Keys : putRead(v, s, k)
    <3>1. PICK s \in Stores, k \in Keys : putRead(v, s, k)
      BY <2>1
    <3>2. PICK owner \in {k, NoKey} :
            saving' = [saving EXCEPT ![v] = [step |-> "checked", store |-> s, old |-> keyOf[s].key,
                                             new |-> k, owner |-> owner]]
      BY <3>1 DEF putRead, checkPixKeyOwner
    <3>. DEFINE a == [step |-> "checked", store |-> s, old |-> keyOf[s].key, new |-> k, owner |-> owner]
    <3>3. keyOf[s].key \in AnyKey
      BY DEF KeysInv, KeysTypeOK, KeyState
    <3>4. a \in SaveRow
      BY <3>3 DEF SaveRow, AnyKey
    <3>5. a \in SaveState
      BY <3>4, Rows
    <3>. QED  BY <3>2, <3>5
  <2>2. saving[v] \in SaveState /\ NoSave \in SaveState
    BY Rows DEF KeysInv, KeysTypeOK
  <2>3. ASSUME NEW step \in {"loaded", "drained"}, saving[v] # NoSave
        PROVE  /\ [saving[v] EXCEPT !.step = step] \in SaveState
               /\ [saving[v] EXCEPT !.step = step].owner = saving[v].owner
               /\ [saving[v] EXCEPT !.step = step].new = saving[v].new
    <3>1. saving[v] \in SaveRow
      BY <2>2, <2>3, Rows
    <3>2. [saving[v] EXCEPT !.step = step] \in SaveRow
      BY <3>1 DEF SaveRow
    <3>. QED  BY <3>1, <3>2, Rows DEF SaveRow
  <2>4. saving[v] # NoSave => saving[v].owner \in {NoKey, saving[v].new}
    BY DEF KeysInv, OwnerGoesWithKey
  <2>5. CASE putLook(v) \/ putDrain(v)
    <3>1. saving[v] # NoSave
      BY <2>5 DEF putLook, putDrain, NoSave
    <3>2. PICK step \in {"loaded", "drained"} :
            saving' \in {[saving EXCEPT ![v] = NoSave], [saving EXCEPT ![v].step = step]}
      BY <2>5 DEF putLook, putDrain
    <3>. QED  BY <2>2, <2>3, <2>4, <3>1, <3>2
  <2>. QED  BY <2>1, <2>5
<1>3. saving' \in [Saves -> SaveState]
      /\ \A u \in Saves : saving'[u] # NoSave => saving'[u].owner \in {NoKey, saving'[u].new}
  BY <1>2 DEF KeysInv, KeysTypeOK, OwnerGoesWithKey
<1>. QED
  BY <1>1, <1>3 DEF KeysInv, KeysTypeOK, OwnerGoesWithKey, ChargedHasRow, VerdictIsEarned, ProvedByItsHolder

\* A saved key comes with its owner and has to be proved anew.
LEMMA SavedKeeps ==
  ASSUME KeysInv, NEW v \in Saves, setWooviConnect(v)
  PROVE  KeysInv'
<1>1. UNCHANGED <<asking, proof, settling, crossed>> /\ saving' = [saving EXCEPT ![v] = NoSave]
  BY DEF setWooviConnect
<1>2. saving[v] # NoSave /\ saving[v] \in SaveRow /\ saving[v].owner \in {NoKey, saving[v].new}
  <2>1. saving[v] # NoSave
    BY DEF setWooviConnect, NoSave
  <2>. QED  BY <2>1, Rows DEF KeysInv, KeysTypeOK, OwnerGoesWithKey
<1>3. saving' \in [Saves -> SaveState]
      /\ \A u \in Saves : saving'[u] # NoSave => saving'[u].owner \in {NoKey, saving'[u].new}
  BY <1>1, Rows DEF KeysInv, KeysTypeOK, OwnerGoesWithKey
<1>4. CASE keyOf' = keyOf
  BY <1>1, <1>3, <1>4 DEF KeysInv, KeysTypeOK, OwnerGoesWithKey, ChargedHasRow, VerdictIsEarned, ProvedByItsHolder
<1>5. CASE keyOf' # keyOf
  <2>. DEFINE s == saving[v].store
              new == [key |-> saving[v].new, status |-> "pending", owner |-> saving[v].owner]
  <2>1. keyOf' = [keyOf EXCEPT ![s] = new]
    BY <1>5 DEF setWooviConnect
  <2>2. s \in Stores /\ new \in KeyState
    BY <1>2 DEF SaveRow, KeyState, AnyKey
  <2>3. new.owner \in {NoKey, new.key} /\ new.status # "verified"
    BY <1>2
  <2>. HIDE DEF new, s
  <2>4. keyOf' \in [Stores -> KeyState]
    BY <2>1, <2>2 DEF KeysInv, KeysTypeOK
  <2>5. \A t \in Stores \ crossed : keyOf'[t].owner \in {NoKey, keyOf'[t].key}
    BY <2>1, <2>2, <2>3 DEF KeysInv, KeysTypeOK, OwnerGoesWithKey
  <2>6. ProvedByItsHolder'
    <3>1. \A t \in Stores : keyOf'[t].status = "verified" => keyOf'[t] = keyOf[t]
      BY <2>1, <2>2, <2>3 DEF KeysInv, KeysTypeOK
    <3>. QED  BY <1>1, <3>1 DEF KeysInv, ProvedByItsHolder
  <2>. QED
    BY <1>1, <1>3, <2>4, <2>5, <2>6 DEF KeysInv, KeysTypeOK, OwnerGoesWithKey, ChargedHasRow, VerdictIsEarned
<1>. QED  BY <1>4, <1>5

\* A request for a proof takes the key and the owner from one reading of the store.
LEMMA AskingKeeps ==
  ASSUME KeysInv, NEW s \in Stores, verifyRead(s)
  PROVE  KeysInv'
<1>. DEFINE k == keyOf[s].key
            o == IF keyOf[s].owner = NoKey THEN k ELSE keyOf[s].owner
            new == [step |-> IF keyOf[s].owner = NoKey THEN "owner" ELSE "create",
                    key |-> k, owner |-> o, id |-> 0]
<1>1. /\ UNCHANGED <<keyOf, saving, proof, settling, crossed>>
      /\ k # NoKey /\ asking' = [asking EXCEPT ![s] = new]
  BY DEF verifyRead
<1>2. k \in Keys /\ o \in Keys
  BY <1>1 DEF KeysInv, KeysTypeOK, KeyState, AnyKey
<1>3. 0 \in 0..MaxProofs
  BY PixKeyAssumption
<1>4. new \in AskState /\ new.step # "charge"
  BY <1>2, <1>3, Rows DEF AskRow
<1>5. s \notin crossed => new.owner = new.key
  BY DEF KeysInv, OwnerGoesWithKey
<1>. HIDE DEF new
<1>6. asking' \in [Stores -> AskState]
  BY <1>1, <1>4 DEF KeysInv, KeysTypeOK
<1>7. \A t \in Stores : (t = s /\ asking'[t] = new) \/ asking'[t] = asking[t]
  BY <1>1 DEF KeysInv, KeysTypeOK
<1>8. KeysTypeOK' /\ VerdictIsEarned' /\ ProvedByItsHolder'
  BY <1>1, <1>6 DEF KeysInv, KeysTypeOK, VerdictIsEarned, ProvedByItsHolder
<1>9. OwnerGoesWithKey'
  BY <1>1, <1>5, <1>7 DEF KeysInv, OwnerGoesWithKey
<1>10. ChargedHasRow'
  BY <1>1, <1>4, <1>7 DEF KeysInv, ChargedHasRow
<1>. QED  BY <1>8, <1>9, <1>10 DEF KeysInv

\* The owner is stored beside whatever key the store has now: the other key's, if the store crossed.
LEMMA OwnerKeeps ==
  ASSUME KeysInv, NEW s \in Stores, setWooviPixKeyOwner(s)
  PROVE  KeysInv'
<1>1. /\ UNCHANGED <<saving, proof, settling>>
      /\ asking[s] # NoAsk /\ asking' = [asking EXCEPT ![s].step = "create"]
      /\ keyOf' = [keyOf EXCEPT ![s].owner = asking[s].owner]
      /\ crossed' = IF keyOf[s].key = asking[s].key THEN crossed ELSE crossed \union {s}
  BY DEF setWooviPixKeyOwner, Cross, NoAsk
<1>2. asking[s] \in AskRow
  BY <1>1, Rows DEF KeysInv, KeysTypeOK
<1>. DEFINE ask == [asking[s] EXCEPT !.step = "create"]
            kept == [keyOf[s] EXCEPT !.owner = asking[s].owner]
<1>3. ask \in AskState /\ ask.step = "create" /\ ask.owner = asking[s].owner /\ ask.key = asking[s].key
  <2>1. ask \in AskRow
    BY <1>2 DEF AskRow
  <2>. QED  BY <1>2, <2>1, Rows DEF AskRow
<1>4. keyOf[s] \in KeyState
  BY DEF KeysInv, KeysTypeOK
<1>5. kept \in KeyState /\ kept.owner = asking[s].owner /\ kept.key = keyOf[s].key
      /\ kept.status = keyOf[s].status
  BY <1>2, <1>4 DEF KeyState, AskRow, AnyKey
<1>6. asking' = [asking EXCEPT ![s] = ask] /\ keyOf' = [keyOf EXCEPT ![s] = kept]
  BY <1>1
<1>. HIDE DEF ask, kept
<1>7. crossed \subseteq crossed' /\ crossed' \subseteq Stores
  BY <1>1 DEF KeysInv, KeysTypeOK
<1>8. KeysTypeOK'
  BY <1>1, <1>3, <1>5, <1>6, <1>7 DEF KeysInv, KeysTypeOK
<1>9. s \notin crossed' => keyOf[s].key = asking[s].key /\ asking[s].owner = asking[s].key
  BY <1>1 DEF KeysInv, OwnerGoesWithKey
<1>10. \A t \in Stores : /\ asking'[t] = IF t = s THEN ask ELSE asking[t]
                         /\ keyOf'[t] = IF t = s THEN kept ELSE keyOf[t]
  BY <1>6 DEF KeysInv, KeysTypeOK
<1>11. OwnerGoesWithKey'
  BY <1>1, <1>3, <1>5, <1>7, <1>9, <1>10 DEF KeysInv, OwnerGoesWithKey
<1>12. ChargedHasRow'
  BY <1>1, <1>3, <1>10 DEF KeysInv, ChargedHasRow
<1>13. VerdictIsEarned'
  BY <1>1 DEF KeysInv, VerdictIsEarned
<1>14. ProvedByItsHolder'
  BY <1>1, <1>5, <1>7, <1>10 DEF KeysInv, ProvedByItsHolder
<1>. QED  BY <1>8, <1>11, <1>12, <1>13, <1>14 DEF KeysInv

\* The row of a proof copies key and owner from the request.
LEMMA NewProofKeeps ==
  ASSUME KeysInv, NEW s \in Stores, createVerification(s)
  PROVE  KeysInv'
<1>1. /\ UNCHANGED <<keyOf, saving, settling, crossed>> /\ asking[s] # NoAsk
  BY DEF createVerification, NoAsk
<1>2. asking[s] \in AskRow
  BY <1>1, Rows DEF KeysInv, KeysTypeOK
<1>. DEFINE new == [state |-> "pending", store |-> s, key |-> asking[s].key, owner |-> asking[s].owner,
                    qr |-> FALSE, live |-> TRUE, payer |-> NoKey]
<1>3. PICK i \in Proofs : /\ proof[i] = NoProof
                          /\ proof' = [proof EXCEPT ![i] = new]
                          /\ asking' = [asking EXCEPT ![s].step = "charge", ![s].id = i]
  BY DEF createVerification
<1>. DEFINE ask == [asking[s] EXCEPT !.step = "charge", !.id = i]
<1>4. i \in 0..MaxProofs
  BY PixKeyAssumption DEF Proofs
<1>5. ask \in AskState /\ ask.id = i /\ ask.owner = asking[s].owner /\ ask.key = asking[s].key
  <2>1. ask \in AskRow
    BY <1>2, <1>4 DEF AskRow
  <2>. QED  BY <1>2, <2>1, Rows DEF AskRow
<1>6. asking' = [asking EXCEPT ![s] = ask]
  <2>1. asking \in [Stores -> AskState]
    BY DEF KeysInv, KeysTypeOK
  <2>. QED  BY <1>3, <2>1
<1>7. new \in ProofState /\ new # NoProof /\ new.store = s
      /\ new.key = asking[s].key /\ new.owner = asking[s].owner
  <2>1. new \in ProofRow
    BY <1>2 DEF ProofRow, AskRow, AnyKey
  <2>. QED  BY <2>1, Rows
<1>. HIDE DEF ask, new
<1>8. \A t \in Stores : asking'[t] = IF t = s THEN ask ELSE asking[t]
  BY <1>6 DEF KeysInv, KeysTypeOK
<1>9. \A j \in Proofs : proof'[j] = IF j = i THEN new ELSE proof[j]
  BY <1>3 DEF KeysInv, KeysTypeOK
<1>10. asking' \in [Stores -> AskState] /\ proof' \in [Proofs -> ProofState]
  <2>1. proof' = [proof EXCEPT ![i] = new]
    BY <1>3
  <2>2. asking' \in [Stores -> AskState]
    BY <1>5, <1>6 DEF KeysInv, KeysTypeOK
  <2>3. proof' \in [Proofs -> ProofState]
    BY <1>7, <2>1 DEF KeysInv, KeysTypeOK
  <2>. QED  BY <2>2, <2>3
<1>11. KeysTypeOK'
  BY <1>1, <1>10 DEF KeysInv, KeysTypeOK
<1>12. OwnerGoesWithKey'
  BY <1>1, <1>5, <1>7, <1>8, <1>9 DEF KeysInv, OwnerGoesWithKey
<1>13. ChargedHasRow'
  BY <1>5, <1>7, <1>8, <1>9 DEF KeysInv, ChargedHasRow
<1>14. RowsGoOn
  BY <1>3, <1>9 DEF RowsGoOn
<1>. QED  BY <1>1, <1>11, <1>12, <1>13, <1>14, RowsGoOnKeeps DEF KeysInv

\* The QR code, the payer and the end of a proof's hour.
LEMMA ProofLifeKeeps ==
  ASSUME KeysInv,
         \/ \E s \in Stores : createPlainCharge(s)
         \/ \E i \in Proofs : payProof(i) \/ proofExpires(i)
  PROVE  KeysInv'
<1>1. UNCHANGED <<keyOf, saving, settling, crossed>>
  BY DEF createPlainCharge, payProof, proofExpires
<1>2. PICK i \in Proofs, p \in ProofRow :
        /\ proof[i] # NoProof /\ proof' = [proof EXCEPT ![i] = p]
        /\ p.store = proof[i].store /\ p.key = proof[i].key /\ p.owner = proof[i].owner
        /\ proof[i].payer # NoKey => p.payer = proof[i].payer
  <2>1. \A i \in Proofs : proof[i] # NoProof => proof[i] \in ProofRow
    BY Rows DEF KeysInv, KeysTypeOK
  <2>2. ASSUME NEW s \in Stores, createPlainCharge(s)
        PROVE  \E i \in Proofs, p \in ProofRow :
                 /\ proof[i] # NoProof /\ proof' = [proof EXCEPT ![i] = p]
                 /\ p.store = proof[i].store /\ p.key = proof[i].key /\ p.owner = proof[i].owner
                 /\ proof[i].payer # NoKey => p.payer = proof[i].payer
    <3>. DEFINE i == asking[s].id
    <3>1. asking[s] # NoAsk /\ asking[s].step = "charge"
      BY <2>2 DEF createPlainCharge, NoAsk
    <3>2. i \in Proofs /\ proof[i] # NoProof
      BY <3>1 DEF KeysInv, ChargedHasRow
    <3>3. PICK made \in BOOLEAN : proof' = [proof EXCEPT ![i] = [proof[i] EXCEPT !.qr = made]]
      BY <2>2 DEF createPlainCharge
    <3>4. [proof[i] EXCEPT !.qr = made] \in ProofRow
      BY <2>1, <3>2 DEF ProofRow
    <3>5. /\ [proof[i] EXCEPT !.qr = made].store = proof[i].store
          /\ [proof[i] EXCEPT !.qr = made].key = proof[i].key
          /\ [proof[i] EXCEPT !.qr = made].owner = proof[i].owner
          /\ [proof[i] EXCEPT !.qr = made].payer = proof[i].payer
      BY <2>1, <3>2 DEF ProofRow
    <3>. QED  BY <3>2, <3>3, <3>4, <3>5
  <2>3. ASSUME NEW i \in Proofs, payProof(i)
        PROVE  \E p \in ProofRow :
                 /\ proof[i] # NoProof /\ proof' = [proof EXCEPT ![i] = p]
                 /\ p.store = proof[i].store /\ p.key = proof[i].key /\ p.owner = proof[i].owner
                 /\ proof[i].payer # NoKey => p.payer = proof[i].payer
    <3>1. PICK payer \in Keys \union {Unclear} : proof' = [proof EXCEPT ![i] = [proof[i] EXCEPT !.payer = payer]]
      BY <2>3 DEF payProof
    <3>2. proof[i] # NoProof /\ proof[i].payer = NoKey
      BY <2>3 DEF payProof
    <3>3. [proof[i] EXCEPT !.payer = payer] \in ProofRow
      BY <2>1, <3>2 DEF ProofRow, AnyKey
    <3>4. /\ [proof[i] EXCEPT !.payer = payer].store = proof[i].store
          /\ [proof[i] EXCEPT !.payer = payer].key = proof[i].key
          /\ [proof[i] EXCEPT !.payer = payer].owner = proof[i].owner
      BY <2>1, <3>2 DEF ProofRow
    <3>. QED  BY <3>1, <3>2, <3>3, <3>4
  <2>4. ASSUME NEW i \in Proofs, proofExpires(i)
        PROVE  \E p \in ProofRow :
                 /\ proof[i] # NoProof /\ proof' = [proof EXCEPT ![i] = p]
                 /\ p.store = proof[i].store /\ p.key = proof[i].key /\ p.owner = proof[i].owner
                 /\ proof[i].payer # NoKey => p.payer = proof[i].payer
    <3>1. proof[i] # NoProof /\ proof' = [proof EXCEPT ![i] = [proof[i] EXCEPT !.live = FALSE]]
      BY <2>4 DEF proofExpires
    <3>2. [proof[i] EXCEPT !.live = FALSE] \in ProofRow
      BY <2>1, <3>1 DEF ProofRow
    <3>3. /\ [proof[i] EXCEPT !.live = FALSE].store = proof[i].store
          /\ [proof[i] EXCEPT !.live = FALSE].key = proof[i].key
          /\ [proof[i] EXCEPT !.live = FALSE].owner = proof[i].owner
          /\ [proof[i] EXCEPT !.live = FALSE].payer = proof[i].payer
      BY <2>1, <3>1 DEF ProofRow
    <3>. QED  BY <3>1, <3>2, <3>3
  <2>. QED  BY <2>2, <2>3, <2>4
<1>3. \A t \in Stores : asking'[t] = asking[t] \/ asking'[t] = NoAsk
  BY DEF KeysInv, KeysTypeOK, createPlainCharge, payProof, proofExpires
<1>4. asking' \in [Stores -> AskState]
  BY Rows DEF KeysInv, KeysTypeOK, createPlainCharge, payProof, proofExpires
<1>5. \A j \in Proofs : proof'[j] = IF j = i THEN p ELSE proof[j]
  BY <1>2 DEF KeysInv, KeysTypeOK
<1>6. p # NoProof /\ p \in ProofState
  BY Rows
<1>7. KeysTypeOK'
  <2>1. proof' \in [Proofs -> ProofState]
    BY <1>2, <1>6 DEF KeysInv, KeysTypeOK
  <2>. QED  BY <1>1, <1>4, <2>1 DEF KeysInv, KeysTypeOK
<1>8. OwnerGoesWithKey'
  <2>1. \A j \in Proofs : proof'[j] # NoProof =>
          /\ proof[j] # NoProof
          /\ proof'[j].store = proof[j].store /\ proof'[j].key = proof[j].key
          /\ proof'[j].owner = proof[j].owner
    BY <1>2, <1>5
  <2>2. \A j \in Proofs : proof'[j] # NoProof /\ proof'[j].store \notin crossed'
                            => proof'[j].owner = proof'[j].key
    BY <1>1, <2>1 DEF KeysInv, OwnerGoesWithKey
  <2>3. \A t \in Stores \ crossed' : asking'[t] # NoAsk => asking'[t].owner = asking'[t].key
    BY <1>1, <1>3 DEF KeysInv, OwnerGoesWithKey
  <2>. QED  BY <1>1, <2>2, <2>3 DEF KeysInv, OwnerGoesWithKey
<1>9. ChargedHasRow'
  BY <1>3, <1>5, <1>6 DEF KeysInv, ChargedHasRow
<1>10. RowsGoOn
  BY <1>2, <1>5, <1>6 DEF RowsGoOn
<1>. QED  BY <1>1, <1>7, <1>8, <1>9, <1>10, RowsGoOnKeeps DEF KeysInv

\* A worker compares at its reading what it will mark at the end.
LEMMA SettleReadKeeps ==
  ASSUME KeysInv, NEW w \in Settlers, NEW i \in Proofs, settleRead(w, i)
  PROVE  KeysInv'
<1>1. /\ UNCHANGED <<keyOf, saving, asking, proof, crossed>>
      /\ proof[i] # NoProof /\ Verdict(i) # "pending"
  BY DEF settleRead
<1>2. proof[i] \in ProofRow
  BY <1>1, Rows DEF KeysInv, KeysTypeOK
<1>. DEFINE new == [step |-> "close", id |-> i, verdict |-> Verdict(i), saw |-> keyOf[proof[i].store].key]
<1>3. settling' = [settling EXCEPT ![w] = new]
  BY DEF settleRead
<1>4. proof[i].owner # Unclear
  BY <1>2, PixKeyAssumption DEF ProofRow, Unclear
<1>5. /\ Verdict(i) \in {"verified", "rejected", "expired"}
      /\ Verdict(i) = "verified" => /\ proof[i].payer = proof[i].owner
                                    /\ keyOf[proof[i].store].key = proof[i].key
  BY <1>1 DEF Verdict, compareTaxId
<1>6. new \in SettleState
  <2>1. keyOf[proof[i].store].key \in AnyKey
    BY <1>2 DEF KeysInv, KeysTypeOK, KeyState, ProofRow
  <2>. QED  BY <1>5, <2>1, Rows DEF SettleRow
<1>7. KeysTypeOK'
  <2>1. settling' \in [Settlers -> SettleState]
    BY <1>3, <1>6 DEF KeysInv, KeysTypeOK
  <2>. QED  BY <1>1, <2>1 DEF KeysInv, KeysTypeOK
<1>8. VerdictIsEarned'
  <2>1. \A u \in Settlers : settling'[u] = IF u = w THEN new ELSE settling[u]
    BY <1>3 DEF KeysInv, KeysTypeOK
  <2>. QED  BY <1>1, <1>5, <2>1 DEF KeysInv, VerdictIsEarned
<1>. QED
  BY <1>1, <1>7, <1>8 DEF KeysInv, OwnerGoesWithKey, ChargedHasRow, ProvedByItsHolder

\* Closing a proof keeps everything a worker compared.
LEMMA SettleCloseKeeps ==
  ASSUME KeysInv, NEW w \in Settlers, settleClose(w)
  PROVE  KeysInv'
<1>. DEFINE i == settling[w].id
            v == settling[w].verdict
            p == [proof[i] EXCEPT !.state = v]
<1>1. /\ UNCHANGED <<keyOf, saving, asking, crossed>> /\ settling[w] # NoSettle
      /\ proof' = [proof EXCEPT ![i] = p]
  BY DEF settleClose, NoSettle
<1>2. settling[w] \in SettleRow
  BY <1>1, Rows DEF KeysInv, KeysTypeOK
<1>3. PICK q \in SettleState : /\ settling' = [settling EXCEPT ![w] = q]
                               /\ q # NoSettle => /\ v = "verified" /\ q.id = i /\ q.verdict = v
                                                  /\ q.saw = settling[w].saw
  <2>1. CASE v = "verified"
    <3>1. [settling[w] EXCEPT !.step = "mark"] \in SettleRow
      BY <1>2 DEF SettleRow
    <3>2. /\ [settling[w] EXCEPT !.step = "mark"].id = i
          /\ [settling[w] EXCEPT !.step = "mark"].verdict = v
          /\ [settling[w] EXCEPT !.step = "mark"].saw = settling[w].saw
      BY <1>2 DEF SettleRow
    <3>3. settling' = [settling EXCEPT ![w] = [settling[w] EXCEPT !.step = "mark"]]
      BY <2>1 DEF settleClose
    <3>. QED  BY <2>1, <3>1, <3>2, <3>3, Rows
  <2>2. CASE v # "verified"
    BY <2>2, Rows DEF settleClose
  <2>. QED  BY <2>1, <2>2
<1>4. /\ i \in Proofs /\ v \in {"verified", "rejected", "expired"}
  BY <1>2 DEF SettleRow
<1>5. proof[i] \in ProofRow /\ proof[i] # NoProof
  BY <1>1, <1>4, Rows DEF KeysInv, KeysTypeOK, VerdictIsEarned
<1>6. p \in ProofRow
  BY <1>4, <1>5 DEF ProofRow
<1>7. /\ p.store = proof[i].store /\ p.key = proof[i].key
      /\ p.owner = proof[i].owner /\ p.payer = proof[i].payer
  BY <1>5 DEF ProofRow
<1>. HIDE DEF p
<1>8. p \in ProofState /\ p # NoProof
  BY <1>6, Rows
<1>9. \A j \in Proofs : proof'[j] = IF j = i THEN p ELSE proof[j]
  BY <1>1 DEF KeysInv, KeysTypeOK
<1>10. KeysTypeOK'
  <2>1. proof' \in [Proofs -> ProofState]
    BY <1>1, <1>8 DEF KeysInv, KeysTypeOK
  <2>2. settling' \in [Settlers -> SettleState]
    BY <1>3 DEF KeysInv, KeysTypeOK
  <2>. QED  BY <1>1, <2>1, <2>2 DEF KeysInv, KeysTypeOK
<1>11. \A j \in Proofs : /\ proof'[j] = NoProof <=> proof[j] = NoProof
                         /\ proof'[j].store = proof[j].store /\ proof'[j].key = proof[j].key
                         /\ proof'[j].owner = proof[j].owner /\ proof'[j].payer = proof[j].payer
  BY <1>5, <1>7, <1>8, <1>9
<1>12. OwnerGoesWithKey'
  BY <1>1, <1>11 DEF KeysInv, OwnerGoesWithKey
<1>13. ChargedHasRow'
  BY <1>1, <1>11 DEF KeysInv, ChargedHasRow
<1>14. VerdictIsEarned'
  <2>. SUFFICES ASSUME NEW u \in Settlers, settling'[u] # NoSettle
                PROVE  /\ proof'[settling'[u].id] # NoProof
                       /\ settling'[u].step = "mark" => settling'[u].verdict = "verified"
                       /\ settling'[u].verdict = "verified" =>
                            /\ proof'[settling'[u].id].payer = proof'[settling'[u].id].owner
                            /\ proof'[settling'[u].id].key = settling'[u].saw
    BY DEF VerdictIsEarned
  <2>1. PICK x \in Settlers : /\ settling[x] # NoSettle
                              /\ settling'[u].id = settling[x].id /\ settling'[u].saw = settling[x].saw
                              /\ settling'[u].verdict = settling[x].verdict
                              /\ settling'[u].step = "mark" => settling[x].verdict = "verified"
    <3>1. CASE u = w
      BY <1>1, <1>3, <3>1 DEF KeysInv, KeysTypeOK
    <3>2. CASE u # w
      BY <1>3, <3>2 DEF KeysInv, KeysTypeOK, VerdictIsEarned
    <3>. QED  BY <3>1, <3>2
  <2>2. settling[x].id \in Proofs
    BY <2>1, Rows DEF KeysInv, KeysTypeOK, SettleRow
  <2>. QED  BY <1>11, <2>1, <2>2 DEF KeysInv, VerdictIsEarned
<1>15. ProvedByItsHolder'
  BY <1>1, <1>11 DEF KeysInv, ProvedByItsHolder
<1>. QED  BY <1>10, <1>12, <1>13, <1>14, <1>15 DEF KeysInv

\* The store is marked for the key that was compared, or it crossed.
LEMMA SettleMarkKeeps ==
  ASSUME KeysInv, NEW w \in Settlers, settleMark(w)
  PROVE  KeysInv'
<1>. DEFINE p == proof[settling[w].id]
            s == p.store
<1>1. /\ UNCHANGED <<saving, asking, proof>> /\ settling[w] # NoSettle
      /\ settling[w].step = "mark" /\ settling' = [settling EXCEPT ![w] = NoSettle]
  BY DEF settleMark, NoSettle
<1>2. /\ settling[w].id \in Proofs /\ p # NoProof
      /\ p.payer = p.owner /\ p.key = settling[w].saw
  BY <1>1, Rows DEF KeysInv, KeysTypeOK, VerdictIsEarned, SettleRow
<1>3. p \in ProofRow /\ s \in Stores
  BY <1>2, Rows DEF KeysInv, KeysTypeOK, ProofRow
<1>4. settling' \in [Settlers -> SettleState] /\ VerdictIsEarned'
  BY <1>1, Rows DEF KeysInv, KeysTypeOK, VerdictIsEarned
<1>5. CASE UNCHANGED <<keyOf, crossed>>
  BY <1>1, <1>4, <1>5 DEF KeysInv, KeysTypeOK, OwnerGoesWithKey, ChargedHasRow, ProvedByItsHolder
<1>6. CASE /\ keyOf' = [keyOf EXCEPT ![s].status = "verified"]
           /\ crossed' = IF keyOf[s].key = settling[w].saw THEN crossed ELSE crossed \union {s}
  <2>. DEFINE kept == [keyOf[s] EXCEPT !.status = "verified"]
  <2>1. keyOf[s] \in KeyState
    BY <1>3 DEF KeysInv, KeysTypeOK
  <2>2. kept \in KeyState /\ kept.key = keyOf[s].key /\ kept.owner = keyOf[s].owner
    BY <2>1 DEF KeyState
  <2>3. keyOf' = [keyOf EXCEPT ![s] = kept]
    BY <1>6
  <2>. HIDE DEF kept, s
  <2>4. keyOf' \in [Stores -> KeyState] /\ crossed' \subseteq Stores /\ crossed \subseteq crossed'
    BY <1>3, <1>6, <2>2, <2>3 DEF KeysInv, KeysTypeOK
  <2>5. \A t \in Stores : /\ keyOf'[t].key = keyOf[t].key /\ keyOf'[t].owner = keyOf[t].owner
                          /\ t # s => keyOf'[t].status = keyOf[t].status
    BY <1>3, <2>2, <2>3 DEF KeysInv, KeysTypeOK
  <2>6. KeysTypeOK'
    BY <1>1, <1>4, <2>4 DEF KeysInv, KeysTypeOK
  <2>7. OwnerGoesWithKey'
    BY <1>1, <2>4, <2>5 DEF KeysInv, OwnerGoesWithKey
  <2>8. ChargedHasRow'
    BY <1>1 DEF KeysInv, ChargedHasRow
  <2>9. s \notin crossed' => keyOf[s].key = p.key /\ p.payer = p.key
    BY <1>2, <1>3, <1>6 DEF KeysInv, OwnerGoesWithKey, s
  <2>10. ProvedByItsHolder'
    <3>. SUFFICES ASSUME NEW t \in Stores \ crossed', keyOf'[t].status = "verified"
                  PROVE  \E i \in Proofs : /\ proof[i] # NoProof /\ proof[i].store = t
                                           /\ proof[i].key = keyOf[t].key /\ proof[i].payer = keyOf[t].key
      BY <1>1, <2>5 DEF ProvedByItsHolder
    <3>1. CASE t = s
      BY <1>2, <2>9, <3>1 DEF s
    <3>2. CASE t # s
      BY <2>4, <2>5, <3>2 DEF KeysInv, ProvedByItsHolder
    <3>. QED  BY <3>1, <3>2
  <2>. QED  BY <1>4, <2>6, <2>7, <2>8, <2>10 DEF KeysInv
<1>. QED  BY <1>5, <1>6 DEF settleMark, Cross

\* The invariant of keys and proofs.
THEOREM KeysInductive == PixSpec => []KeysInv
<1>1. PixInit => KeysInv
  <2>. SUFFICES ASSUME PixInit
                PROVE  KeysInv
    OBVIOUS
  <2>1. KeysTypeOK
    BY Rows DEF PixInit, KeysTypeOK, KeyState, AnyKey
  <2>2. \A s \in Stores : keyOf[s].owner = NoKey /\ keyOf[s].status # "verified"
    BY DEF PixInit
  <2>. QED
    BY <2>1, <2>2 DEF PixInit, KeysInv, OwnerGoesWithKey, ChargedHasRow, VerdictIsEarned, ProvedByItsHolder
<1>2. KeysInv /\ [PixNext]_pixVars => KeysInv'
  <2>. SUFFICES ASSUME KeysInv, [PixNext]_pixVars
                PROVE  KeysInv'
    OBVIOUS
  <2>1. ASSUME NEW v \in Saves,
               \/ \E s \in Stores, k \in Keys : putRead(v, s, k)
               \/ putLook(v) \/ putDrain(v) \/ setWooviConnect(v)
        PROVE  KeysInv'
    BY <2>1, SavingKeeps, SavedKeeps
  <2>2. ASSUME NEW s \in Stores,
               verifyRead(s) \/ setWooviPixKeyOwner(s) \/ createVerification(s) \/ createPlainCharge(s)
        PROVE  KeysInv'
    BY <2>2, AskingKeeps, OwnerKeeps, NewProofKeeps, ProofLifeKeeps
  <2>3. ASSUME NEW i \in Proofs, payProof(i) \/ proofExpires(i) \/ \E w \in Settlers : settleRead(w, i)
        PROVE  KeysInv'
    BY <2>3, ProofLifeKeeps, SettleReadKeeps
  <2>4. ASSUME NEW w \in Settlers, settleClose(w) \/ settleMark(w)
        PROVE  KeysInv'
    BY <2>4, SettleCloseKeeps, SettleMarkKeeps
  <2>5. ASSUME \/ \E s \in Stores : withdrawWoovi(s) \/ \E c \in Charges : createCharge(c, s)
               \/ \E c \in Charges : payCharge(c) \/ enqueueWooviWithdraw(c)
               \/ \E k \in Keys : relayWithdraw(k)
        PROVE  KeysInv'
    <3>1. UNCHANGED keyVars
      BY <2>5 DEF withdrawWoovi, createCharge, payCharge, enqueueWooviWithdraw, relayWithdraw, keyVars
    <3>. QED  BY <3>1, StandsStill
  <2>6. CASE UNCHANGED pixVars
    BY <2>6, StandsStill DEF pixVars, keyVars
  <2>. QED  BY <2>1, <2>2, <2>3, <2>4, <2>5, <2>6 DEF PixNext
<1>. QED  BY <1>1, <1>2, PTL DEF PixSpec

\* Whatever the store saves and however late a worker closes a proof, a key is verified only if its
\* holder paid the cent, unless the key changed under a request.
THEOREM VerifiedKeyIsProved == PixSpec => []ProvedByItsHolder
<1>1. KeysInv => ProvedByItsHolder
  BY DEF KeysInv
<1>. QED  BY <1>1, KeysInductive, PTL

=============================================================================
