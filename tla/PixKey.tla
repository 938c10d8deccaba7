------------------------------- MODULE PixKey -------------------------------
(***************************************************************************)
(* The Pix key a store receives on: declaring it, proving whose it is,     *)
(* and emptying the subaccount that bears it (src/src/http/api/connect,    *)
(* src/src/workers/pix-key-verification.ts, enqueueWooviWithdraw).         *)
(*                                                                         *)
(* At Woovi the subaccount IS the key.  A store may change its key at any  *)
(* moment, and every request here reads the row of the store first and     *)
(* writes by the store's id later.  Whom a key belongs to is written with  *)
(* the key itself: the owner k is the holder of the account of the key k.  *)
(***************************************************************************)
EXTENDS Integers, FiniteSets

CONSTANTS
  Stores, Keys,
  Saves,       \* requests that save a key
  Settlers,     \* runs of the webhook processor
  MaxProofs,   \* rows of woovi_pix_key_verifications
  MaxCharges   \* Pix charges of orders and donations

ASSUME PixKeyAssumption == /\ MaxProofs \in Nat /\ MaxCharges \in Nat
                           /\ "none" \notin Keys /\ "unclear" \notin Keys

VARIABLES
  keyOf,     \* per store: wooviPixKey, its status, and the owner stored with it
  saving,    \* what each save has read and done
  asking,    \* per store: the request for a proof in progress
  proof,     \* the rows of the verifications, and who paid the cent
  settling,  \* what each worker is closing
  charge,    \* Pix charges whose split names a key
  queue,     \* keys named by the pending outbox rows woovi.withdraw
  balance,   \* Woovi: what each subaccount holds, in charges
  crossed    \* history: the stores whose key changed between a read and a write of another request

pixVars == <<keyOf, saving, asking, proof, settling, charge, queue, balance, crossed>>

NoKey   == "none"
Unclear == "unclear"   \* a payer whose document is missing or cannot be compared
Proofs  == 1..MaxProofs
Charges == 1..MaxCharges
AnyKey  == Keys \union {NoKey}

KeyState    == [key : AnyKey, status : {"none", "pending", "verified", "legacy"}, owner : AnyKey]
NoSave      == [step |-> "idle"]
NoAsk       == [step |-> "idle"]
NoSettle    == [step |-> "idle"]
NoProof     == [state |-> "none"]
NoCharge    == [state |-> "none"]
SaveState   == {NoSave} \union
  [step : {"checked", "loaded", "drained"}, store : Stores, old : AnyKey, new : Keys, owner : AnyKey]
AskState    == {NoAsk} \union
  [step : {"owner", "create", "charge"}, key : Keys, owner : Keys, id : 0..MaxProofs]
ProofState  == {NoProof} \union
  [state : {"pending", "verified", "rejected", "expired"}, store : Stores, key : Keys, owner : Keys,
   qr : BOOLEAN, live : BOOLEAN, payer : AnyKey \union {Unclear}]
SettleState == {NoSettle} \union
  [step : {"close", "mark"}, id : Proofs, verdict : {"verified", "rejected", "expired"}, saw : AnyKey]
ChargeState == {NoCharge} \union [state : {"open", "paid", "told"}, store : Stores, key : Keys]

PixTypeOK ==
  /\ keyOf \in [Stores -> KeyState] /\ saving \in [Saves -> SaveState]
  /\ asking \in [Stores -> AskState] /\ proof \in [Proofs -> ProofState]
  /\ settling \in [Settlers -> SettleState] /\ charge \in [Charges -> ChargeState]
  /\ queue \subseteq Keys /\ balance \in [Keys -> 0..MaxCharges] /\ crossed \subseteq Stores

Declared(k) == {s \in Stores : keyOf[s].key = k}

\* A key that was there before keys had to be proved is "legacy".
PixInit ==
  /\ keyOf \in [Stores -> {[key |-> NoKey, status |-> "none", owner |-> NoKey]} \union
                          {[key |-> k, status |-> "legacy", owner |-> NoKey] : k \in Keys}]
  /\ \A k \in Keys : Cardinality(Declared(k)) <= 1
  /\ saving = [v \in Saves |-> NoSave] /\ asking = [s \in Stores |-> NoAsk]
  /\ proof = [i \in Proofs |-> NoProof] /\ settling = [w \in Settlers |-> NoSettle]
  /\ charge = [c \in Charges |-> NoCharge]
  /\ queue = {} /\ balance = [k \in Keys |-> 0] /\ crossed = {}

-----------------------------------------------------------------------------
(* Woovi.  Every call may also fail.                                       *)

getSubAccount(k) == balance[k]

\* It takes everything there is, or it is blocked and moves nothing.
withdrawSubAccount(k) == {[status |-> "requested", balance |-> [balance EXCEPT ![k] = 0]],
                          [status |-> "blocked", balance |-> balance]}

\* Whose account the DICT says a key leads to, unless it cannot be asked now.
checkPixKey(k) == {"owner", "rate limited", "forbidden", "unknown"}

checkPixKeyOwner(k) == {IF r = "owner" THEN k ELSE NoKey : r \in checkPixKey(k) \ {"unknown"}}

compareTaxId(owner, payer) ==
  IF payer = Unclear THEN "inconclusive" ELSE IF payer = owner THEN "match" ELSE "mismatch"

-----------------------------------------------------------------------------
(* putWooviConnect: a key is saved.  The same key again returns at once, a *)
(* key another store has is refused, and so is one the DICT does not know. *)

putRead(v, s, k) ==
  /\ saving[v] = NoSave
  /\ keyOf[s].key # k /\ Declared(k) = {}
  /\ \E owner \in checkPixKeyOwner(k) :
       saving' = [saving EXCEPT ![v] = [step |-> "checked", store |-> s, old |-> keyOf[s].key,
                                        new |-> k, owner |-> owner]]
  /\ UNCHANGED <<keyOf, asking, proof, settling, charge, queue, balance, crossed>>

\* getSubAccount of the old key; the request may fail here as at every call to Woovi.
putLook(v) ==
  /\ saving[v].step = "checked"
  /\ saving' \in {[saving EXCEPT ![v] = NoSave],
                  [saving EXCEPT ![v].step =
                     IF saving[v].old # NoKey /\ getSubAccount(saving[v].old) > 0 THEN "loaded" ELSE "drained"]}
  /\ UNCHANGED <<keyOf, asking, proof, settling, charge, queue, balance, crossed>>

\* The old subaccount is emptied; if that is blocked the save is refused.
putDrain(v) ==
  /\ saving[v].step = "loaded"
  /\ \E w \in withdrawSubAccount(saving[v].old) :
       /\ balance' = w.balance
       /\ saving' = IF w.status = "blocked" THEN [saving EXCEPT ![v] = NoSave]
                    ELSE [saving EXCEPT ![v].step = "drained"]
  /\ UNCHANGED <<keyOf, asking, proof, settling, charge, queue, crossed>>

\* createSubAccount and setWooviConnect: the unique index refuses a key taken in the meantime.
setWooviConnect(v) ==
  LET s == saving[v].store
      k == saving[v].new
  IN
  /\ saving[v].step = "drained"
  /\ saving' = [saving EXCEPT ![v] = NoSave]
  /\ \/ /\ Declared(k) \subseteq {s}
        /\ keyOf' = [keyOf EXCEPT ![s] = [key |-> k, status |-> "pending", owner |-> saving[v].owner]]
     \/ keyOf' = keyOf
  /\ UNCHANGED <<asking, proof, settling, charge, queue, balance, crossed>>

-----------------------------------------------------------------------------
(* verifyWooviPixKey: the proof is asked for.                              *)

\* A live pending proof of the same key is handed out again instead.
LiveProof(s) == \E i \in Proofs : /\ proof[i] # NoProof /\ proof[i].state = "pending" /\ proof[i].live
                                  /\ proof[i].store = s /\ proof[i].key = keyOf[s].key

verifyRead(s) ==
  /\ asking[s] = NoAsk
  /\ keyOf[s].key # NoKey /\ keyOf[s].status # "verified" /\ ~LiveProof(s)
  /\ asking' = [asking EXCEPT ![s] =
       [step |-> IF keyOf[s].owner = NoKey THEN "owner" ELSE "create", key |-> keyOf[s].key,
        owner |-> IF keyOf[s].owner = NoKey THEN keyOf[s].key ELSE keyOf[s].owner, id |-> 0]]
  /\ UNCHANGED <<keyOf, saving, proof, settling, charge, queue, balance, crossed>>

Cross(s, k) == crossed' = IF keyOf[s].key = k THEN crossed ELSE crossed \union {s}

setWooviPixKeyOwner(s) ==
  /\ asking[s].step = "owner"
  /\ keyOf' = [keyOf EXCEPT ![s].owner = asking[s].owner]
  /\ asking' = [asking EXCEPT ![s].step = "create"]
  /\ Cross(s, asking[s].key)
  /\ UNCHANGED <<saving, proof, settling, charge, queue, balance>>

createVerification(s) ==
  /\ asking[s].step = "create"
  /\ \E i \in Proofs :
       /\ proof[i] = NoProof /\ \A j \in 1..(i - 1) : proof[j] # NoProof
       /\ proof' = [proof EXCEPT ![i] = [state |-> "pending", store |-> s, key |-> asking[s].key,
                      owner |-> asking[s].owner, qr |-> FALSE, live |-> TRUE, payer |-> NoKey]]
       /\ asking' = [asking EXCEPT ![s].step = "charge", ![s].id = i]
  /\ UNCHANGED <<keyOf, saving, settling, charge, queue, balance, crossed>>

\* createPlainCharge and the row's QR code; when it fails the row stays without one.
createPlainCharge(s) ==
  /\ asking[s].step = "charge"
  /\ asking' = [asking EXCEPT ![s] = NoAsk]
  /\ \E made \in BOOLEAN : proof' = [proof EXCEPT ![asking[s].id].qr = made]
  /\ UNCHANGED <<keyOf, saving, settling, charge, queue, balance, crossed>>

\* Somebody pays the cent, or the hour passes.
payProof(i) ==
  /\ proof[i] # NoProof /\ proof[i].qr /\ proof[i].live /\ proof[i].payer = NoKey
  /\ \E p \in Keys \union {Unclear} : proof' = [proof EXCEPT ![i].payer = p]
  /\ UNCHANGED <<keyOf, saving, asking, settling, charge, queue, balance, crossed>>

proofExpires(i) ==
  /\ proof[i] # NoProof /\ proof[i].state = "pending" /\ proof[i].live
  /\ proof' = [proof EXCEPT ![i].live = FALSE]
  /\ UNCHANGED <<keyOf, saving, asking, settling, charge, queue, balance, crossed>>

-----------------------------------------------------------------------------
(* settleWooviPixKeyVerification: the event of the cent, delivered once or *)
(* more often.                                                             *)

\* A fault: the key of the store is not compared with the key of the proof.
Faulty_Verdict(i) ==
  CASE compareTaxId(proof[i].owner, proof[i].payer) = "match"        -> "verified"
    [] compareTaxId(proof[i].owner, proof[i].payer) = "mismatch"     -> "rejected"
    [] compareTaxId(proof[i].owner, proof[i].payer) = "inconclusive" -> "pending"

Verdict(i) ==
  IF keyOf[proof[i].store].key # proof[i].key THEN "expired"
  ELSE CASE compareTaxId(proof[i].owner, proof[i].payer) = "match"        -> "verified"
         [] compareTaxId(proof[i].owner, proof[i].payer) = "mismatch"     -> "rejected"
         [] compareTaxId(proof[i].owner, proof[i].payer) = "inconclusive" -> "pending"

settleRead(w, i) ==
  /\ settling[w] = NoSettle
  /\ proof[i] # NoProof /\ proof[i].state = "pending" /\ proof[i].payer # NoKey
  /\ Verdict(i) # "pending"   \* else the row is left as it is
  /\ settling' = [settling EXCEPT ![w] = [step |-> "close", id |-> i, verdict |-> Verdict(i),
                                            saw |-> keyOf[proof[i].store].key]]
  /\ UNCHANGED <<keyOf, saving, asking, proof, charge, queue, balance, crossed>>

settleClose(w) ==
  LET v == settling[w].verdict
  IN
  /\ settling[w].step = "close"
  /\ proof' = [proof EXCEPT ![settling[w].id].state = v]
  /\ settling' = [settling EXCEPT ![w] = IF v = "verified" THEN [@ EXCEPT !.step = "mark"] ELSE NoSettle]
  /\ UNCHANGED <<keyOf, saving, asking, charge, queue, balance, crossed>>

\* The store is marked by its id; a failure before leaves a verified row and a pending key.
settleMark(w) ==
  LET p == proof[settling[w].id]
  IN
  /\ settling[w].step = "mark"
  /\ settling' = [settling EXCEPT ![w] = NoSettle]
  /\ \/ keyOf' = [keyOf EXCEPT ![p.store].status = "verified"] /\ Cross(p.store, settling[w].saw)
     \/ UNCHANGED <<keyOf, crossed>>
  /\ UNCHANGED <<saving, asking, proof, charge, queue, balance>>

-----------------------------------------------------------------------------
(* Money: the split of a charge names the key the store had when it was    *)
(* made, the withdrawal the one it has when the payment is processed.      *)

wooviCanReceive(s) == keyOf[s].status \in {"verified", "legacy"}

createCharge(c, s) ==
  /\ charge[c] = NoCharge /\ \A d \in 1..(c - 1) : charge[d] # NoCharge
  /\ wooviCanReceive(s)
  /\ charge' = [charge EXCEPT ![c] = [state |-> "open", store |-> s, key |-> keyOf[s].key]]
  /\ UNCHANGED <<keyOf, saving, asking, proof, settling, queue, balance, crossed>>

payCharge(c) ==
  /\ charge[c].state = "open"
  /\ charge' = [charge EXCEPT ![c].state = "paid"]
  /\ balance' = [balance EXCEPT ![charge[c].key] = @ + 1]
  /\ UNCHANGED <<keyOf, saving, asking, proof, settling, queue, crossed>>

enqueueWooviWithdraw(c) ==
  /\ charge[c].state = "paid"
  /\ charge' = [charge EXCEPT ![c].state = "told"]
  /\ queue' = queue \union {keyOf[charge[c].store].key}
  /\ UNCHANGED <<keyOf, saving, asking, proof, settling, balance, crossed>>

\* The relay's branch; a blocked subaccount ends the row too.
relayWithdraw(k) ==
  /\ k \in queue
  /\ queue' = queue \ {k}
  /\ \E w \in withdrawSubAccount(k) : balance' = w.balance
  /\ UNCHANGED <<keyOf, saving, asking, proof, settling, charge, crossed>>

withdrawWoovi(s) ==
  /\ keyOf[s].key # NoKey
  /\ \E w \in withdrawSubAccount(keyOf[s].key) : balance' = w.balance
  /\ UNCHANGED <<keyOf, saving, asking, proof, settling, charge, queue, crossed>>

PixNext ==
  \/ \E v \in Saves : \/ \E s \in Stores, k \in Keys : putRead(v, s, k)
                      \/ putLook(v) \/ putDrain(v) \/ setWooviConnect(v)
  \/ \E s \in Stores : \/ verifyRead(s) \/ setWooviPixKeyOwner(s) \/ createVerification(s)
                       \/ createPlainCharge(s) \/ withdrawWoovi(s)
                       \/ \E c \in Charges : createCharge(c, s)
  \/ \E i \in Proofs : payProof(i) \/ proofExpires(i) \/ \E w \in Settlers : settleRead(w, i)
  \/ \E w \in Settlers : settleClose(w) \/ settleMark(w)
  \/ \E c \in Charges : payCharge(c) \/ enqueueWooviWithdraw(c)
  \/ \E k \in Keys : relayWithdraw(k)

PixSpec == PixInit /\ [][PixNext]_pixVars

-----------------------------------------------------------------------------
(* A key counts as proved only when the cent was paid from the account of  *)
(* that very key, unless the key changed while another request held the    *)
(* one before (settleWooviPixKeyVerification, "ela vale para a chave que   *)
(* estava declarada, não para a que está lá agora").                       *)
ProvedByItsHolder ==
  \A s \in Stores \ crossed : keyOf[s].status = "verified" =>
    \E i \in Proofs : /\ proof[i] # NoProof /\ proof[i].store = s
                      /\ proof[i].key = keyOf[s].key /\ proof[i].payer = keyOf[s].key

(* Money in a subaccount is never out of sight: its key is a store's key,  *)
(* or a withdrawal names it, or the event of its payment is still to come  *)
(* (put-woovi-connect, "Trocar de chave com saldo na subconta antiga       *)
(* esconderia esse dinheiro para sempre").                                 *)
NothingLeftBehind ==
  \A k \in Keys : balance[k] > 0 =>
    \/ Declared(k) # {} \/ k \in queue
    \/ \E c \in Charges : charge[c] # NoCharge /\ charge[c].state = "paid" /\ charge[c].key = k
=============================================================================
