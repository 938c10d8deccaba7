---------------------------- MODULE MCBackOffice ----------------------------
(***************************************************************************)
(* The parts of the back office do not read each other's state, so that    *)
(* their behaviours side by side would only multiply the states.  A        *)
(* behaviour of this module is a behaviour of one of them, chosen in the   *)
(* initial state; the others stay in an initial state of theirs.           *)
(***************************************************************************)
EXTENDS Agenda, Interests, Billing, StoreTeam, PixKey, Sessions, Campaigns,
        Onboarding, Accounts, Catalogue, Categories, Pages, MCStatement, TLC

VARIABLE part

\* The one pair of opens_at and closes_at a batch may carry.
SaleWindows == {[opens |-> 0, closes |-> 1]}

\* The model values play every role in turn: u1 and u2 are two requests, or two stores; v1 and v2
\* two people, keys, phones or workers.
Symmetry == Permutations(Organisers) \union Permutations(Keys)

BackOfficeInit ==
  /\ part \in {"agenda", "interests", "billing", "team", "pix key", "sessions", "campaigns",
                      "onboarding", "accounts", "catalogue", "categories", "pages", "statement"}
  /\ AgendaInit
  /\ InterestsInit
  /\ BillingInit
  /\ TeamInit
  /\ PixInit
  /\ SessionsInit
  /\ CampaignsInit
  /\ OnboardingInit
  /\ AccountsInit
  /\ CatalogueInit
  /\ CategoriesInit
  /\ PagesInit
  /\ StatementInit
  /\ part # "pix key"   => \A s \in Stores : keyOf[s].key = NoKey
  /\ part # "campaigns" => campaign.images = {} /\ campaign.cover = NoCover
  /\ part # "pages"     => \A r \in Ids : item[r] = Unmade

BackOfficeNext ==
  \/ /\ part = "agenda" /\ AgendaNext
     /\ UNCHANGED <<part, interestsVars, billingVars, teamVars, pixVars, sessionVars, campaignVars,
                      onboardingVars, accountVars, catalogueVars, categoryVars, pagesVars,
                      statementVars>>
  \/ /\ part = "interests" /\ InterestsNext
     /\ UNCHANGED <<part, agendaVars, billingVars, teamVars, pixVars, sessionVars, campaignVars,
                      onboardingVars, accountVars, catalogueVars, categoryVars, pagesVars,
                      statementVars>>
  \/ /\ part = "billing" /\ BillingNext
     /\ UNCHANGED <<part, agendaVars, interestsVars, teamVars, pixVars, sessionVars, campaignVars,
                      onboardingVars, accountVars, catalogueVars, categoryVars, pagesVars,
                      statementVars>>
  \/ /\ part = "team" /\ TeamNext
     /\ UNCHANGED <<part, agendaVars, interestsVars, billingVars, pixVars, sessionVars, campaignVars,
                      onboardingVars, accountVars, catalogueVars, categoryVars, pagesVars,
                      statementVars>>
  \/ /\ part = "pix key" /\ PixNext
     /\ UNCHANGED <<part, agendaVars, interestsVars, billingVars, teamVars, sessionVars, campaignVars,
                      onboardingVars, accountVars, catalogueVars, categoryVars, pagesVars,
                      statementVars>>
  \/ /\ part = "sessions" /\ SessionsNext
     /\ UNCHANGED <<part, agendaVars, interestsVars, billingVars, teamVars, pixVars, campaignVars,
                      onboardingVars, accountVars, catalogueVars, categoryVars, pagesVars,
                      statementVars>>
  \/ /\ part = "campaigns" /\ CampaignsNext
     /\ UNCHANGED <<part, agendaVars, interestsVars, billingVars, teamVars, pixVars, sessionVars,
                      onboardingVars, accountVars, catalogueVars, categoryVars, pagesVars,
                      statementVars>>
  \/ /\ part = "onboarding" /\ OnboardingNext
     /\ UNCHANGED <<part, agendaVars, interestsVars, billingVars, teamVars, pixVars, sessionVars,
                      campaignVars, accountVars, catalogueVars, categoryVars, pagesVars, statementVars>>
  \/ /\ part = "accounts" /\ AccountsNext
     /\ UNCHANGED <<part, agendaVars, interestsVars, billingVars, teamVars, pixVars, sessionVars,
                      campaignVars, onboardingVars, catalogueVars, categoryVars, pagesVars,
                      statementVars>>
  \/ /\ part = "catalogue" /\ CatalogueNext
     /\ UNCHANGED <<part, agendaVars, interestsVars, billingVars, teamVars, pixVars, sessionVars,
                      campaignVars, onboardingVars, accountVars, categoryVars, pagesVars,
                      statementVars>>
  \/ /\ part = "categories" /\ CategoriesNext
     /\ UNCHANGED <<part, agendaVars, interestsVars, billingVars, teamVars, pixVars, sessionVars,
                      campaignVars, onboardingVars, accountVars, catalogueVars, pagesVars,
                      statementVars>>
  \/ /\ part = "pages" /\ PagesNext
     /\ UNCHANGED <<part, agendaVars, interestsVars, billingVars, teamVars, pixVars, sessionVars,
                      campaignVars, onboardingVars, accountVars, catalogueVars, categoryVars,
                      statementVars>>
  \/ /\ part = "statement" /\ StatementNext
     /\ UNCHANGED <<part, agendaVars, interestsVars, billingVars, teamVars, pixVars, sessionVars,
                      campaignVars, onboardingVars, accountVars, catalogueVars, categoryVars,
                      pagesVars>>

BackOfficeSpec == BackOfficeInit /\ [][BackOfficeNext]_<<part, agendaVars, interestsVars, billingVars,
                      teamVars, pixVars, sessionVars, campaignVars, onboardingVars, accountVars,
                      catalogueVars, categoryVars, pagesVars, statementVars>>
=============================================================================
