----------------------------- MODULE Campaigns -----------------------------
(***************************************************************************)
(* What the people of a store do to one campaign (src/src/http/api/        *)
(* campaigns): publish, pause, finish, archive, edit the gallery and the   *)
(* cover, delete.                                                          *)
(*                                                                         *)
(* Every handler reads the row, decides, and writes by the id: nothing in  *)
(* the write says that the row is still what was read.                     *)
(***************************************************************************)
EXTENDS Integers, FiniteSets

CONSTANTS
  Admins,      \* requests of the store's people
  Photos,
  MaxDonations

ASSUME CampaignsAssumption == MaxDonations \in Nat

VARIABLES
  campaign,    \* the row; its status is "gone" once it is deleted
  editing,     \* what each request has read and is about to write
  donations,   \* donations that name the campaign
  stale        \* history: the columns that were written over a value nobody had read

campaignVars == <<campaign, editing, donations, stale>>

NoCover  == "none"
Same     == {"same"}   \* a gallery the request does not touch
Statuses == {"draft", "active", "paused", "finished"}
Unbusy   == [op |-> "none"]

CampaignState == [status : Statuses \union {"gone"}, archived : BOOLEAN,
                  images : SUBSET Photos, cover : Photos \union {NoCover}]
Edits == {Unbusy} \union [op : {"delete", "donate"}] \union
  [op : {"status"}, saw : Statuses, to : Statuses] \union [op : {"archive"}, to : BOOLEAN] \union
  [op : {"photos"}, saw : SUBSET Photos, images : (SUBSET Photos) \union {Same}, cover : Photos \union {NoCover, "same"}]

CampaignsTypeOK ==
  /\ campaign \in CampaignState /\ editing \in [Admins -> Edits]
  /\ donations \in 0..MaxDonations /\ stale \subseteq {"status", "photos"}

\* createCampaign: without a choice the cover is a photo of the gallery.
CampaignsInit ==
  /\ \E images \in SUBSET Photos, cover \in Photos \union {NoCover} :
       /\ (images = {} \/ cover \in images)
       /\ campaign = [status |-> "draft", archived |-> FALSE, images |-> images, cover |-> cover]
  /\ editing = [a \in Admins |-> Unbusy]
  /\ donations = 0
  /\ stale = {}

Starts(a) == editing[a] = Unbusy /\ campaign.status # "gone"
Will(a, edit) == editing' = [editing EXCEPT ![a] = edit] /\ UNCHANGED <<campaign, donations, stale>>

\* A write to a deleted row is an exception (P2025).
Writes(a, op) == editing[a].op = op /\ editing' = [editing EXCEPT ![a] = Unbusy]
Lost == campaign.status = "gone" /\ UNCHANGED <<campaign, donations, stale>>

-----------------------------------------------------------------------------
\* A fault: a finished campaign may be opened again.
Faulty_ALLOWED(status) ==
  CASE status = "draft" -> {"active"} [] status = "active" -> {"paused", "finished"}
    [] OTHER -> {"active", "finished"} \ {status}

ALLOWED(status) ==
  CASE status = "draft"    -> {"active"}
    [] status = "active"   -> {"paused", "finished"}
    [] status = "paused"   -> {"active", "finished"}
    [] status = "finished" -> {}

updateCampaignStatus(a) ==
  /\ Starts(a)
  /\ \E to \in ALLOWED(campaign.status) : Will(a, [op |-> "status", saw |-> campaign.status, to |-> to])

setCampaignStatus(a) ==
  /\ Writes(a, "status")
  /\ \/ Lost
     \/ /\ campaign.status # "gone"
        /\ campaign' = [campaign EXCEPT !.status = editing[a].to]
        /\ stale' = stale \union (IF campaign.status = editing[a].saw THEN {} ELSE {"status"})
        /\ UNCHANGED donations

archiveCampaign(a) ==
  /\ Starts(a)
  /\ \E to \in BOOLEAN : (to => campaign.status = "finished") /\ Will(a, [op |-> "archive", to |-> to])

setArchived(a) ==
  /\ Writes(a, "archive")
  /\ \/ Lost
     \/ /\ campaign.status # "gone"
        /\ campaign' = [campaign EXCEPT !.archived = editing[a].to]
        /\ UNCHANGED <<donations, stale>>

-----------------------------------------------------------------------------

\* assertCoverInGallery: an empty gallery takes any cover.
CoverInGallery(cover, images) ==
  LET gallery == IF images = Same THEN campaign.images ELSE images
  IN cover \in {"same", NoCover} \union gallery \/ gallery = {}

updateCampaign(a) ==
  /\ Starts(a)
  /\ \E images \in (SUBSET Photos) \union {Same}, cover \in Photos \union {NoCover, "same"} :
       /\ CoverInGallery(cover, images)
       /\ Will(a, [op |-> "photos", saw |-> campaign.images, images |-> images, cover |-> cover])

\* A gallery changed without a cover takes its first photo as the cover.
update(a) ==
  LET e == editing[a]
      FirstOf(images) == IF images = {} THEN {NoCover} ELSE images
  IN
  /\ Writes(a, "photos")
  /\ \/ Lost
     \/ /\ campaign.status # "gone"
        /\ \E cover \in IF e.cover # "same" THEN {e.cover}
                        ELSE IF e.images # Same THEN FirstOf(e.images) ELSE {campaign.cover} :
             campaign' = [campaign EXCEPT !.cover = cover,
                            !.images = IF e.images = Same THEN @ ELSE e.images]
        /\ stale' = stale \union (IF campaign.images = e.saw THEN {} ELSE {"photos"})
        /\ UNCHANGED donations

-----------------------------------------------------------------------------
\* Only a draft without donations is deleted.
deleteCampaign(a) ==
  /\ Starts(a)
  /\ campaign.status = "draft" /\ donations = 0
  /\ Will(a, [op |-> "delete"])

\* The foreign key of donations refuses the deletion.
deleteById(a) ==
  /\ Writes(a, "delete")
  /\ campaign' = IF donations = 0 THEN [campaign EXCEPT !.status = "gone"] ELSE campaign
  /\ UNCHANGED <<donations, stale>>

\* A donation is accepted by the campaign as it was read, and written later.
isCampaignOpenForDonation(a) ==
  /\ Starts(a)
  /\ campaign.status = "active"
  /\ Will(a, [op |-> "donate"])

createDonation(a) ==
  /\ Writes(a, "donate")
  /\ \/ Lost
     \/ /\ campaign.status # "gone" /\ donations < MaxDonations
        /\ donations' = donations + 1
        /\ UNCHANGED <<campaign, stale>>

CampaignsNext ==
  \E a \in Admins :
    \/ updateCampaignStatus(a) \/ setCampaignStatus(a) \/ archiveCampaign(a) \/ setArchived(a)
    \/ updateCampaign(a) \/ update(a) \/ deleteCampaign(a) \/ deleteById(a)
    \/ isCampaignOpenForDonation(a) \/ createDonation(a)

CampaignsSpec == CampaignsInit /\ [][CampaignsNext]_campaignVars

-----------------------------------------------------------------------------
(* An archived campaign takes no donations: whoever archives has seen it   *)
(* finished, and nothing opens it again but a change of status that raced  *)
(* another (archive-campaign, "sumir com uma que ainda recebe doação       *)
(* esconderia dinheiro entrando").                                         *)
ArchivedIsClosed == campaign.archived => campaign.status \in {"finished", "gone"} \/ "status" \in stale

(* The cover of a campaign is a photo of its gallery, whoever changed      *)
(* which of the two last, unless two edits of the gallery raced            *)
(* (assertCoverInGallery, "capa solta é uma imagem que a loja vê na página *)
(* e não encontra em lugar nenhum para trocar").                           *)
CoverIsShown ==
  campaign.cover \in {NoCover} \union campaign.images \/ campaign.images = {} \/ "photos" \in stale
=============================================================================
