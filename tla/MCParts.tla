------------------------------- MODULE MCParts -------------------------------
(***************************************************************************)
(* Instances of the parts of the system that share no state: the scraps,   *)
(* the profile cards, the purposes, the catalogues, social login, uploads  *)
(* and the deployment.  One of them, chosen in the beginning, runs while   *)
(* the others stay as they are.  As none of them reads or writes what      *)
(* belongs to another, every behaviour of all of them together looks to    *)
(* each part like one in which it runs alone.                              *)
(*                                                                         *)
(* The catalogues have two instances, one with skills and one with the     *)
(* other things a card may refer to.  The scraps are what this module      *)
(* extends; the other parts are instances.                                 *)
(***************************************************************************)
EXTENDS Collections, TLC

CONSTANTS alice, bob,
          i1, i2, i3, i4, i5, i6,   \* ids, which every part uses for its own rows
          i7, i8, i9, i10, i11, i12 \* ids that are not interchangeable

VARIABLES
    part,
    user, card, cardsCall,
    position, purposesCall, seeding, order,
    refs, catalogueCall, seed, interrupted,
    issued, key, code, spent, opened, returned, loginCall,
    file, loaded, container, script, settled,
    filesCall, upload

MCGroupOwner == i1 :> alice @@ i2 :> alice @@ i7 :> bob
MCScrapOwner == i3 :> alice @@ i4 :> alice

(* Two users with three and two cards, each making one call at a time.      *)
MCCardOwner == [x \in {i1, i2, i3, i4, i7} |->
                   IF x \in {i3, i4} THEN bob ELSE alice]
MCCaller == [u \in {alice, bob} |-> u]

Pro == INSTANCE ProfileCards
           WITH Users <- {alice, bob}, Cards <- {i1, i2, i3, i4, i7},
                Owner <- MCCardOwner, Calls <- {alice, bob},
                Caller <- MCCaller, call <- cardsCall

Pur == INSTANCE Purposes
           WITH Purposes <- {i7, i1, i2}, First <- i7,
                SeedSize <- 2, PositionLimit <- 3, call <- purposesCall

Ski == INSTANCE Catalogue
           WITH JobTypes <- {i1, i2}, Categories <- {i7}, Skills <- {i8},
                Personalities <- {}, Interests <- {}, Statuses <- {},
                Backgrounds <- {}, Cards <- {i9}, call <- catalogueCall

Cat == INSTANCE Catalogue
           WITH JobTypes <- {i7}, Categories <- {}, Skills <- {},
                Personalities <- {i10}, Interests <- {i11}, Statuses <- {i12},
                Backgrounds <- {i8}, Cards <- {i9}, call <- catalogueCall

Log == INSTANCE SocialLogin
           WITH Origins <- {i1, i2}, States <- {i3, i4}, Codes <- {i5, i6},
                call <- loginCall

Dep == INSTANCE Deployment

Fil == INSTANCE Files WITH call <- filesCall

ASSUME PartsAssumption ==
    /\ CollectionsAssumption
    /\ Pro!ProfileCardsAssumption
    /\ Pur!PurposesAssumption
    /\ Ski!CatalogueAssumption /\ Cat!CatalogueAssumption
    /\ Log!SocialLoginAssumption
    /\ Dep!DeploymentAssumption

Symmetry == UNION {Permutations(S) : S \in {Calls, {i1, i2}, {i3, i4}, {i5, i6}}}

cardVars == <<user, card, cardsCall>>
purposeVars == <<position, purposesCall, seeding, order>>
catalogueVars == <<refs, catalogueCall, seed, interrupted>>
loginVars == <<issued, key, code, spent, opened, returned, loginCall>>
deploymentVars == <<file, loaded, container, script, settled>>
fileVars == <<filesCall, upload>>

partsVars == <<part, vars, cardVars, purposeVars, catalogueVars, loginVars,
               deploymentVars, fileVars>>

PartsInit ==
    /\ part \in {"scraps", "cards", "purposes", "skills", "catalogues",
                 "login", "deployment", "files"}
    /\ Init /\ Pro!Init /\ Pur!Init /\ Log!Init /\ Dep!Init /\ Fil!Init
    /\ IF part = "skills" THEN Ski!Init ELSE Cat!Init

InScraps ==
    /\ part = "scraps"
    /\ Next
    /\ UNCHANGED <<part, cardVars, purposeVars, catalogueVars, loginVars,
                   deploymentVars, fileVars>>

InCards ==
    /\ part = "cards"
    /\ Pro!Next
    /\ UNCHANGED <<part, vars, purposeVars, catalogueVars, loginVars,
                   deploymentVars, fileVars>>

InPurposes ==
    /\ part = "purposes"
    /\ Pur!Next
    /\ UNCHANGED <<part, vars, cardVars, catalogueVars, loginVars,
                   deploymentVars, fileVars>>

InSkills ==
    /\ part = "skills"
    /\ Ski!Next
    /\ UNCHANGED <<part, vars, cardVars, purposeVars, loginVars,
                   deploymentVars, fileVars>>

InCatalogues ==
    /\ part = "catalogues"
    /\ Cat!Next
    /\ UNCHANGED <<part, vars, cardVars, purposeVars, loginVars,
                   deploymentVars, fileVars>>

InLogin ==
    /\ part = "login"
    /\ Log!Next
    /\ UNCHANGED <<part, vars, cardVars, purposeVars, catalogueVars,
                   deploymentVars, fileVars>>

InDeployment ==
    /\ part = "deployment"
    /\ Dep!Next
    /\ UNCHANGED <<part, vars, cardVars, purposeVars, catalogueVars,
                   loginVars, fileVars>>

InFiles ==
    /\ part = "files"
    /\ Fil!Next
    /\ UNCHANGED <<part, vars, cardVars, purposeVars, catalogueVars,
                   loginVars, deploymentVars>>

PartsNext ==
    \/ InScraps \/ InCards \/ InPurposes \/ InSkills
    \/ InCatalogues \/ InLogin \/ InDeployment \/ InFiles

PartsSpec == PartsInit /\ [][PartsNext]_partsVars

-----------------------------------------------------------------------------
(* Every variable of every part has its type. *)
PartsTypeOK ==
    /\ TypeOK /\ Pro!TypeOK /\ Pur!TypeOK /\ Log!TypeOK /\ Dep!TypeOK /\ Fil!TypeOK
    /\ IF part = "skills" THEN Ski!TypeOK ELSE Cat!TypeOK

(* A user who does one thing at a time never loses the last card            *)
(* (profile-cards.service.ts:131-137).                                      *)
KeepsACard == Pro!KeepsACard

(* A withdrawal takes all cards of a user who does nothing else meanwhile   *)
(* out of the public lists (users.repository.ts:91-94).                     *)
WithdrawnIsHidden == Pro!WithdrawnIsHidden

(* Cards are written by their owners alone (profile-cards.service.ts:87-98). *)
OnlyOwnersEdit == Pro!OnlyOwnersEdit

(* What a user does one at a time with cards is atomic                      *)
(* (profile-cards.service.ts:73-138).                                       *)
CardsAreShelved == Pro!CardsAreShelved

(* No two purposes share a position, as long as no move or deletion went by *)
(* a position it read too early (purposes.service.ts:22-23, :27-28).        *)
PositionsAreDistinct == Pur!PositionsAreDistinct

(* Moves and deletions leave no empty position (purposes.repository.ts:45). *)
PositionsAreDense == Pur!PositionsAreDense

(* Nothing refers to a row that does not exist (skills.service.ts:57).      *)
ReferencesResolve ==
    IF part = "skills" THEN Ski!ReferencesResolve ELSE Cat!ReferencesResolve

(* Only an interrupted seed leaves a skill without job types                *)
(* (seed.ts:353-354).                                                       *)
SkillsKeepAJobType ==
    IF part = "skills" THEN Ski!SkillsKeepAJobType ELSE Cat!SkillsKeepAJobType

(* An approval opens one session at most, where its state says              *)
(* (auth.service.ts:89-123).                                                *)
ApprovalsOpenOneSession == Log!ApprovalsOpenOneSession

(* A state is of no use after a login with it has returned                  *)
(* (auth.service.ts:122-123).                                               *)
ReturnedStatesAreGone == Log!ReturnedStatesAreGone

(* Deployments do not interrupt the service, unless one was stopped between *)
(* the file and the reload (deploy.sh:132-139).                             *)
ServiceGoesOn == Dep!ServiceGoesOn

(* An address that was answered names a complete set of images              *)
(* (files.service.ts:84-98).                                                *)
AnsweredImagesAreComplete == Fil!AnsweredImagesAreComplete
=============================================================================
