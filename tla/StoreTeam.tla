------------------------------ MODULE StoreTeam ------------------------------
(***************************************************************************)
(* The people who look after a store and the invitations that bring them   *)
(* in (src/src/http/api/stores/team).                                      *)
(*                                                                         *)
(* Inviting and accepting read first and write later, and nothing in the   *)
(* database holds an e-mail to one open invitation: two requests of the    *)
(* owner may create two.  Accepting writes the row and the role together,  *)
(* by the id and the role that were read.                                  *)
(***************************************************************************)
EXTENDS Integers, FiniteSets

CONSTANTS
  Persons,     \* accounts, each with an e-mail of its own
  Owner,       \* the one that created the store
  Clicks,      \* the owner's requests to invite, at most one each at a time
  MaxInvites,  \* rows of store_invites
  MaxTokens    \* tokens mailed

ASSUME StoreTeamAssumption == Owner \in Persons /\ MaxInvites \in Nat /\ MaxTokens \in Nat

Invites == 1..MaxInvites
Tokens  == 1..MaxTokens
Roles   == {"admin", "staff"}

VARIABLES
  role,      \* user_store_roles: "none" is no row
  invite,    \* the rows of store_invites; the state "none" is no row
  tokens,    \* tokens mailed so far
  inviting,  \* what each request of the owner has read
  accepting  \* what each person's acceptance has read

teamVars == <<role, invite, tokens, inviting, accepting>>

NoInvite == [state |-> "none", to |-> Owner, role |-> "staff", token |-> 0, expired |-> FALSE]
NoClick  == [to |-> Owner, role |-> "staff", pending |-> -1]
NoAccept == [id |-> 0, role |-> "staff"]
Row      == [state : {"none", "open", "accepted", "revoked"}, to : Persons, role : Roles,
             token : 0..MaxTokens, expired : BOOLEAN]

TeamTypeOK ==
  /\ role \in [Persons -> {"none", "owner"} \union Roles]
  /\ invite \in [Invites -> Row]
  /\ tokens \in 0..MaxTokens
  /\ inviting \in [Clicks -> [to : Persons, role : Roles, pending : -1..MaxInvites]]
  /\ accepting \in [Persons -> [id : 0..MaxInvites, role : Roles]]

TeamInit ==
  /\ role = [p \in Persons |-> IF p = Owner THEN "owner" ELSE "none"]
  /\ invite = [i \in Invites |-> NoInvite]
  /\ tokens = 0
  /\ inviting = [c \in Clicks |-> NoClick]
  /\ accepting = [p \in Persons |-> NoAccept]

-----------------------------------------------------------------------------
\* A fault: whoever is in the team already may be invited.
Faulty_Invitable(p) == TRUE

Invitable(p) == role[p] = "none"   \* else already_member

Pending(p) == {i \in Invites : invite[i].state = "open" /\ invite[i].to = p}

\* The owner invites: is the person a member, and is there an open invitation for the e-mail?
InviteRead(c) ==
  /\ inviting[c] = NoClick /\ tokens < MaxTokens
  /\ \E p \in Persons, r \in Roles :
       /\ Invitable(p)
       /\ \E i \in IF Pending(p) = {} THEN {0} ELSE Pending(p) :
            inviting' = [inviting EXCEPT ![c] = [to |-> p, role |-> r, pending |-> i]]
  /\ UNCHANGED <<role, invite, tokens, accepting>>

\* renewInvite by its id, or createInvite; the new token goes out by e-mail.
Save(c) ==
  LET q == inviting[c]
      new == [state |-> "open", to |-> q.to, role |-> q.role, token |-> tokens + 1, expired |-> FALSE]
  IN
  /\ q # NoClick /\ tokens < MaxTokens
  /\ tokens' = tokens + 1
  /\ IF q.pending = 0
     THEN \E i \in Invites :
            /\ invite[i].state = "none"
            /\ \A j \in Invites : invite[j].state = "none" => i <= j
            /\ invite' = [invite EXCEPT ![i] = new]
     ELSE invite' = [invite EXCEPT ![q.pending] = [new EXCEPT !.state = invite[q.pending].state]]
  /\ inviting' = [inviting EXCEPT ![c] = NoClick]
  /\ UNCHANGED <<role, accepting>>

revokeInvite(i) ==
  /\ invite[i].state = "open"
  /\ invite' = [invite EXCEPT ![i].state = "revoked"]
  /\ UNCHANGED <<role, tokens, inviting, accepting>>

Expires(i) ==
  /\ invite[i].state = "open" /\ ~invite[i].expired
  /\ invite' = [invite EXCEPT ![i].expired = TRUE]
  /\ UNCHANGED <<role, tokens, inviting, accepting>>

\* The link that was mailed last for a row finds it; the account must have the invited e-mail.
findLive(p, i) ==
  /\ accepting[p] = NoAccept
  /\ invite[i].state = "open" /\ ~invite[i].expired /\ invite[i].to = p
  /\ accepting' = [accepting EXCEPT ![p] = [id |-> i, role |-> invite[i].role]]
  /\ UNCHANGED <<role, invite, tokens, inviting>>

acceptInvite(p) ==
  /\ accepting[p] # NoAccept
  /\ invite' = [invite EXCEPT ![accepting[p].id].state =
                  IF @ = "revoked" THEN "revoked" ELSE "accepted"]
  /\ role' = [role EXCEPT ![p] = accepting[p].role]
  /\ accepting' = [accepting EXCEPT ![p] = NoAccept]
  /\ UNCHANGED <<tokens, inviting>>

\* targetMember: a member, and not the owner.
Target(p) == role[p] \notin {"none", "owner"}

setMemberRole(p) ==
  /\ Target(p)
  /\ \E r \in Roles : role' = [role EXCEPT ![p] = r]
  /\ UNCHANGED <<invite, tokens, inviting, accepting>>

removeMember(p) ==
  /\ Target(p)
  /\ role' = [role EXCEPT ![p] = "none"]
  /\ UNCHANGED <<invite, tokens, inviting, accepting>>

TeamNext ==
  \/ \E c \in Clicks : InviteRead(c) \/ Save(c)
  \/ \E i \in Invites : revokeInvite(i) \/ Expires(i)
  \/ \E p \in Persons, i \in Invites : findLive(p, i)
  \/ \E p \in Persons : acceptInvite(p) \/ setMemberRole(p) \/ removeMember(p)

TeamSpec == TeamInit /\ [][TeamNext]_teamVars

-----------------------------------------------------------------------------
(* The store keeps its one owner: no invitation, renewed or accepted twice *)
(* or beside a removal, overwrites the owner's role, which nothing in the  *)
(* code could give back (acceptInvite writes whatever role it read;        *)
(* TeamService.invite and targetMember are what keeps the owner out).      *)
OwnerStands == {p \in Persons : role[p] = "owner"} = {Owner}
=============================================================================
