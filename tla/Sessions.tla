------------------------------ MODULE Sessions ------------------------------
(***************************************************************************)
(* The refresh tokens of one browser and the rotation that renews them     *)
(* (src/src/http/api/auth/tokens.service.ts, refresh, login, logout,       *)
(* reset-password).                                                        *)
(*                                                                         *)
(* The tabs share one cookie.  A renewal reads the row of the token, mints *)
(* the next one and marks the row replaced in three statements; its answer *)
(* sets the cookie, and may be lost.  Tabs renew at the same time.         *)
(***************************************************************************)
EXTENDS Integers

CONSTANTS
  Tabs,
  MaxRefreshTokens   \* rows of refresh_tokens

ASSUME SessionsAssumption == MaxRefreshTokens \in Nat

TokenRows == 1..MaxRefreshTokens
Absent    == [age |-> "none", family |-> 0, replacedBy |-> 0, revoked |-> FALSE]

VARIABLES
  token,    \* the rows, in order of their creation; a family is named after its first row
  jar,      \* the cookie of the browser: a row, or 0
  renewal,  \* what the request of each tab has done
  excused   \* history: an answer was lost, or the grace ran out while a request was under way

sessionVars == <<token, jar, renewal, excused>>

AtRest == [step |-> "idle", row |-> 0, next |-> 0]

SessionsTypeOK ==
  /\ token \in [TokenRows -> [age : {"none", "recent", "old", "expired"}, family : 0..MaxRefreshTokens,
                         replacedBy : 0..MaxRefreshTokens, revoked : BOOLEAN]]
  /\ jar \in 0..MaxRefreshTokens
  /\ renewal \in [Tabs -> [step : {"idle", "sent", "race", "reuse", "mint", "mark", "answer"},
                           row : 0..MaxRefreshTokens, next : 0..MaxRefreshTokens]]
  /\ excused \in BOOLEAN

SessionsInit ==
  /\ token = [n \in TokenRows |-> Absent]
  /\ jar = 0
  /\ renewal = [t \in Tabs |-> AtRest]
  /\ excused = FALSE

Fresh(n) == token[n] = Absent /\ \A m \in 1..(n - 1) : token[m] # Absent
NewToken(family) == [age |-> "recent", family |-> family, replacedBy |-> 0, revoked |-> FALSE]
Revoked(family) == [n \in TokenRows |-> IF token[n].family = family /\ token[n] # Absent
                                   THEN [token[n] EXCEPT !.revoked = TRUE] ELSE token[n]]
Go(t, step) == renewal' = [renewal EXCEPT ![t].step = step]

\* Login, registration, the return from Google.
issue ==
  /\ jar = 0
  /\ \E n \in TokenRows : Fresh(n) /\ token' = [token EXCEPT ![n] = NewToken(n)] /\ jar' = n
  /\ UNCHANGED <<renewal, excused>>

sendRefresh(t) ==
  /\ renewal[t] = AtRest /\ jar # 0
  /\ renewal' = [renewal EXCEPT ![t] = [step |-> "sent", row |-> jar, next |-> 0]]
  /\ UNCHANGED <<token, jar, excused>>

\* findRefreshTokenByHash, and what follows from the row alone; next = 0 answers with an error.
rotateRead(t) ==
  LET held == token[renewal[t].row]
  IN
  /\ renewal[t].step = "sent"
  /\ \/ held.revoked /\ Go(t, "answer")
     \/ ~held.revoked /\ held.replacedBy # 0
        /\ renewal' = [renewal EXCEPT ![t].step = "race", ![t].next = held.replacedBy]
     \/ ~held.revoked /\ held.replacedBy = 0 /\ Go(t, IF held.age = "expired" THEN "answer" ELSE "mint")
  /\ UNCHANGED <<token, jar, excused>>

\* A fault: a token presented again is always taken for stolen (REFRESH_REUSE_GRACE_S = 0).
Faulty_clientRace(replacement) == FALSE

\* The replacement is recent and valid: two tabs, or a reload, renewed together.
clientRace(replacement) == ~replacement.revoked /\ replacement.age = "recent"

isClientRace(t) ==
  /\ renewal[t].step = "race"
  /\ renewal' = [renewal EXCEPT ![t].next = 0, ![t].step =
       IF ~clientRace(token[renewal[t].next]) THEN "reuse"
       ELSE IF token[renewal[t].row].age = "expired" THEN "answer" ELSE "mint"]
  /\ UNCHANGED <<token, jar, excused>>

revokeFamily(t) ==
  /\ renewal[t].step = "reuse"
  /\ token' = Revoked(token[renewal[t].row].family)
  /\ Go(t, "answer")
  /\ UNCHANGED <<jar, excused>>

mint(t) ==
  /\ renewal[t].step = "mint"
  /\ \E n \in TokenRows :
       /\ Fresh(n)
       /\ token' = [token EXCEPT ![n] = NewToken(token[renewal[t].row].family)]
       /\ renewal' = [renewal EXCEPT ![t].step = "mark", ![t].next = n]
  /\ UNCHANGED <<jar, excused>>

markReplaced(t) ==
  /\ renewal[t].step = "mark"
  /\ token' = [token EXCEPT ![renewal[t].row].replacedBy = renewal[t].next]
  /\ Go(t, "answer")
  /\ UNCHANGED <<jar, excused>>

\* The answer sets the cookie, or clears it on an error; or it never arrives.
answer(t) ==
  /\ renewal[t].step = "answer"
  /\ renewal' = [renewal EXCEPT ![t] = AtRest]
  /\ \/ jar' = renewal[t].next /\ excused' = excused
     \/ jar' = jar /\ excused' = TRUE
  /\ UNCHANGED token

logout ==
  /\ jar # 0
  /\ token' = Revoked(token[jar].family)
  /\ jar' = 0
  /\ UNCHANGED <<renewal, excused>>

\* Resetting the password.
revokeAllForUser ==
  /\ \E n \in TokenRows : token[n] # Absent /\ ~token[n].revoked
  /\ token' = [n \in TokenRows |-> IF token[n] = Absent THEN Absent ELSE [token[n] EXCEPT !.revoked = TRUE]]
  /\ UNCHANGED <<jar, renewal, excused>>

\* The grace of a row ends, and much later its life; older rows first.
Age(n) ==
  /\ \/ /\ token[n].age = "recent" /\ \A m \in 1..(n - 1) : token[m].age # "recent"
        /\ token' = [token EXCEPT ![n].age = "old"]
     \/ /\ token[n].age = "old" /\ \A m \in 1..(n - 1) : token[m].age = "expired"
        /\ token' = [token EXCEPT ![n].age = "expired"]
  /\ excused' = (excused \/ \E t \in Tabs : renewal[t] # AtRest)
  /\ UNCHANGED <<jar, renewal>>

SessionsNext ==
  \/ issue \/ logout \/ revokeAllForUser
  \/ \E n \in TokenRows : Age(n)
  \/ \E t \in Tabs : \/ sendRefresh(t) \/ rotateRead(t) \/ isClientRace(t) \/ revokeFamily(t)
                     \/ mint(t) \/ markReplaced(t) \/ answer(t)

SessionsSpec == SessionsInit /\ [][SessionsNext]_sessionVars

-----------------------------------------------------------------------------
(* Tabs that renew together never throw the person out: a token is taken   *)
(* for reused only after an answer was lost, or when a renewal took longer *)
(* than the grace, or when its family was ended anyway (isClientRace,      *)
(* "tratamos como corrida do próprio cliente").                            *)
SessionSurvives ==
  \A t \in Tabs : renewal[t].step = "reuse" => excused \/ token[renewal[t].row].revoked
=============================================================================
