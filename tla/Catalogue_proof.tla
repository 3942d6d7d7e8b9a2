-------------------------- MODULE Catalogue_proof --------------------------
(***************************************************************************)
(* For any rows of any kind, calls and runs of the seed script: nothing    *)
(* refers to a row that is gone, and only an interrupted seed leaves a     *)
(* skill without job types.  With the types both are inductive, as every   *)
(* handler's write is one of three statements: an insertion, an update by  *)
(* id and a deletion.                                                      *)
(***************************************************************************)
EXTENDS Catalogue, TLAPS

Inv ==
    /\ TypeOK
    /\ ReferencesResolve
    /\ SkillsKeepAJobType

(* A skill is not a row of another kind.                                    *)
LEMMA SkillsAreSkills ==
    ASSUME CatalogueAssumption
    PROVE  Skills \cap UNION {JobTypes, Categories, Personalities, Interests,
                              Statuses, Backgrounds, Cards} = {}
  <1>1. DOMAIN Kinds = {1, 2, 3, 4, 5, 6, 7, 8}
    BY DEF Kinds
  <1>2. \A i \in {1, 2, 4, 5, 6, 7, 8} : Kinds[i] \cap Kinds[3] = {}
    BY <1>1 DEF CatalogueAssumption
  <1>3. /\ Kinds[1] = JobTypes /\ Kinds[2] = Categories /\ Kinds[3] = Skills
        /\ Kinds[4] = Personalities /\ Kinds[5] = Interests /\ Kinds[6] = Statuses
        /\ Kinds[7] = Backgrounds /\ Kinds[8] = Cards
    BY DEF Kinds
  <1> QED
    BY <1>2, <1>3

LEMMA InitInv ==
    ASSUME CatalogueAssumption, Init
    PROVE  Inv
  <1>1. TypeOK
    BY DEF Init, TypeOK, Idle
  <1>2. rows = {}
    BY DEF Init, rows
  <1> QED
    BY <1>1, <1>2 DEF Inv, ReferencesResolve, SkillsKeepAJobType

(* A row that is there refers to rows.                                      *)
LEMMA RowTyped ==
    ASSUME TypeOK, NEW r \in rows
    PROVE  r \in Rows /\ refs[r] \in SUBSET Rows
  BY DEF TypeOK, rows

(* A call that has found its row holds one.                                 *)
LEMMA CallTyped ==
    ASSUME TypeOK, NEW c \in Calls, ~At(c, "idle")
    PROVE  call[c].row \in Rows
  BY DEF TypeOK, At, Idle

LEMMA ReturnTyped ==
    ASSUME TypeOK, NEW c \in Calls, Return(c)
    PROVE  call' \in [Calls -> [pc : {"update", "delete"}, row : Rows] \cup {Idle}]
  BY DEF TypeOK, Return

(* The seed script works on a skill, or on none.                            *)
LEMMA SeedTyped ==
    ASSUME TypeOK
    PROVE  /\ seed.pc \in {"idle", "upsert"} => seed.row = None
           /\ seed.pc \notin {"idle", "upsert"} => seed.row \in Skills
  BY DEF TypeOK

-----------------------------------------------------------------------------
(* The three statements *)

(* What one row becomes decides about the invariant: here it is there       *)
(* afterwards, refers to rows and, if it is a skill, is not the first to    *)
(* lose its last job type.                                                  *)
LEMMA WriteKeepsInv ==
    ASSUME CatalogueAssumption, Inv, NEW r \in Rows, NEW R \in SUBSET Rows,
           refs' = [refs EXCEPT ![r] = R],
           R \subseteq rows,
           call' \in [Calls -> [pc : {"update", "delete"}, row : Rows] \cup {Idle}],
           UNCHANGED interrupted,
           TypeOK => seed' \in [pc : {"idle", "upsert"}, row : {None}]
                                 \cup [pc : {"deleteMany", "createMany"}, row : Skills],
           \A s \in Skills : s # r /\ seed.row = s => seed'.row = s,
           ~interrupted /\ r \in Skills /\ R \cap JobTypes = {} => seed'.row = r
    PROVE  Inv'
  <1>1. TypeOK
    BY DEF Inv
  <1>2. refs'[r] = R /\ \A q \in Rows \ {r} : refs'[q] = refs[q]
    BY <1>1 DEF TypeOK
  <1>3. R # None
    BY DEF CatalogueAssumption
  <1>4. rows' = rows \cup {r}
    BY <1>2, <1>3 DEF rows
  <1>5. TypeOK'
    BY <1>1 DEF TypeOK
  <1>6. ReferencesResolve'
    BY <1>2, <1>4, RowTyped, <1>1 DEF Inv, ReferencesResolve
  <1>7. SkillsKeepAJobType'
    <2> SUFFICES ASSUME ~interrupted, NEW s \in rows' \cap Skills, jobTypesOf(s)' = {}
                 PROVE  seed'.row = s
      BY DEF SkillsKeepAJobType
    <2>1. CASE s = r
      BY <1>2, <2>1 DEF jobTypesOf
    <2>2. CASE s # r
      <3>1. s \in rows \cap Skills /\ jobTypesOf(s) = {}
        BY <1>1, <1>2, <1>4, <2>2, RowTyped DEF jobTypesOf
      <3> QED
        BY <2>2, <3>1 DEF Inv, SkillsKeepAJobType
    <2> QED
      BY <2>1, <2>2
  <1> QED
    BY <1>5, <1>6, <1>7 DEF Inv

LEMMA InsertKeepsInv ==
    ASSUME CatalogueAssumption, Inv, NEW r \in Rows, NEW R, Insert(r, R),
           r \in Skills => R \cap JobTypes # {}
    PROVE  Inv'
  <1>1. R \in SUBSET Rows /\ R \subseteq rows
    BY DEF Insert, rows
  <1>2. refs' = [refs EXCEPT ![r] = R] /\ UNCHANGED <<call, seed, interrupted>>
    BY DEF Insert
  <1> QED
    BY <1>1, <1>2, WriteKeepsInv DEF Inv, TypeOK

LEMMA RewriteKeepsInv ==
    ASSUME CatalogueAssumption, Inv, NEW c \in Calls, NEW R, Rewrite(c, R),
           call[c].row \in Skills =>
               R \cap JobTypes # {} \/ R \cap JobTypes = jobTypesOf(call[c].row)
    PROVE  Inv'
  <1> DEFINE r == call[c].row
  <1>1. R \in SUBSET Rows /\ R \subseteq rows /\ r \in rows /\ r \in Rows
    BY DEF Rewrite, rows
  <1>2. /\ refs' = [refs EXCEPT ![r] = R]
        /\ call' \in [Calls -> [pc : {"update", "delete"}, row : Rows] \cup {Idle}]
        /\ UNCHANGED <<seed, interrupted>>
    BY ReturnTyped DEF Rewrite, Inv
  <1>3. ~interrupted /\ r \in Skills /\ R \cap JobTypes = {} => seed.row = r
    BY <1>1 DEF Inv, SkillsKeepAJobType
  <1> HIDE DEF r
  <1> QED
    BY <1>1, <1>2, <1>3, WriteKeepsInv DEF Inv, TypeOK

LEMMA RemoveKeepsInv ==
    ASSUME CatalogueAssumption, Inv, NEW c \in Calls, NEW Kind, Remove(c, Kind)
    PROVE  Inv'
  <1> DEFINE r == call[c].row
  <1>1. TypeOK /\ r \in Rows
    BY CallTyped DEF Inv, Remove, Holds, At
  <1>2. /\ refs' = [refs EXCEPT ![r] = None]
        /\ \A q \in rows : r \notin refs[q]
        /\ call' \in [Calls -> [pc : {"update", "delete"}, row : Rows] \cup {Idle}]
        /\ UNCHANGED <<seed, interrupted>>
    BY <1>1, ReturnTyped DEF Remove
  <1> HIDE DEF r
  <1>3. refs'[r] = None /\ \A q \in Rows \ {r} : refs'[q] = refs[q]
    BY <1>1, <1>2 DEF TypeOK
  <1>4. rows' = rows \ {r}
    BY <1>3 DEF rows
  <1>5. TypeOK'
    BY <1>1, <1>2 DEF TypeOK
  <1>6. ReferencesResolve'
    BY <1>1, <1>2, <1>3, <1>4, RowTyped DEF Inv, ReferencesResolve
  <1>7. SkillsKeepAJobType'
    <2> SUFFICES ASSUME ~interrupted, NEW s \in rows' \cap Skills, jobTypesOf(s)' = {}
                 PROVE  seed.row = s
      BY <1>2 DEF SkillsKeepAJobType
    <2>1. s \in rows \cap Skills /\ jobTypesOf(s) = {}
      BY <1>1, <1>3, <1>4, RowTyped DEF jobTypesOf
    <2> QED
      BY <2>1 DEF Inv, SkillsKeepAJobType
  <1> QED
    BY <1>5, <1>6, <1>7 DEF Inv

(* Who only finds or gives up writes nothing.                               *)
LEMMA CallStepKeepsInv ==
    ASSUME Inv, UNCHANGED <<refs, seed, interrupted>>,
           call' \in [Calls -> [pc : {"update", "delete"}, row : Rows] \cup {Idle}]
    PROVE  Inv'
  <1>1. rows' = rows /\ \A s : jobTypesOf(s)' = jobTypesOf(s)
    BY DEF rows, jobTypesOf
  <1> QED
    BY <1>1 DEF Inv, TypeOK, ReferencesResolve, SkillsKeepAJobType

LEMMA EditKeepsInv ==
    ASSUME Inv, NEW c \in Calls, NEW r, Edit(c, r) \/ Find(c, "delete", r)
    PROVE  Inv'
  <1>1. PICK pc \in {"update", "delete"} : Find(c, pc, r)
    BY DEF Edit
  <1>2. [pc |-> pc, row |-> r] \in [pc : {"update", "delete"}, row : Rows]
    BY <1>1 DEF Find, rows
  <1>3. call' \in [Calls -> [pc : {"update", "delete"}, row : Rows] \cup {Idle}]
    BY <1>1, <1>2 DEF Find, Inv, TypeOK
  <1> QED
    BY <1>1, <1>3, CallStepKeepsInv DEF Find

LEMMA FailKeepsInv ==
    ASSUME Inv, NEW c \in Calls, Fail(c)
    PROVE  Inv'
  BY ReturnTyped, CallStepKeepsInv DEF Inv, Fail

(* A change of what is left out writes what is there.                       *)
LEMMA RenameKeepsInv ==
    ASSUME CatalogueAssumption, Inv, NEW c \in Calls, NEW Kind, Rename(c, Kind)
    PROVE  Inv'
  BY RewriteKeepsInv DEF Rename, jobTypesOf

-----------------------------------------------------------------------------
(* The controllers: which statement each handler makes *)

(* Of the kinds other than skills, whatever is written is fine.             *)
LEMMA OtherKinds ==
    ASSUME CatalogueAssumption, Inv,
           NEW Kind \in {JobTypes, Categories, Personalities, Interests, Statuses,
                         Backgrounds, Cards}
    PROVE  /\ \A r \in Kind : \A R : Insert(r, R) => Inv'
           /\ \A c \in Calls : \A R : call[c].row \in Kind /\ Rewrite(c, R) => Inv'
           /\ \A c \in Calls, r \in Kind : Edit(c, r) \/ Find(c, "delete", r) => Inv'
           /\ \A c \in Calls : Rename(c, Kind) \/ Remove(c, Kind) => Inv'
  <1>1. Kind \subseteq Rows /\ Kind \cap Skills = {}
    BY SkillsAreSkills DEF Rows
  <1>2. \A r \in Kind : \A R : Insert(r, R) => Inv'
    BY <1>1, InsertKeepsInv
  <1>3. \A c \in Calls : \A R : call[c].row \in Kind /\ Rewrite(c, R) => Inv'
    BY <1>1, RewriteKeepsInv
  <1>4. \A c \in Calls, r \in Kind : Edit(c, r) \/ Find(c, "delete", r) => Inv'
    BY EditKeepsInv
  <1>5. \A c \in Calls : Rename(c, Kind) \/ Remove(c, Kind) => Inv'
    BY RenameKeepsInv, RemoveKeepsInv
  <1> QED
    BY <1>2, <1>3, <1>4, <1>5

LEMMA PlainControllersKeepInv ==
    ASSUME CatalogueAssumption, Inv,
           \/ JobTypesController \/ SkillCategoriesController
           \/ InterestsController \/ AffiliationStatusesController
           \/ CardBackgroundImagesController
    PROVE  Inv'
  <1>1. CASE JobTypesController
    BY <1>1, OtherKinds
    DEF JobTypesController, CreateJobType, FindJobType, UpdateJobType, DeleteJobType
  <1>2. CASE SkillCategoriesController
    BY <1>2, OtherKinds
    DEF SkillCategoriesController, CreateCategory, FindCategory, UpdateCategory, DeleteCategory
  <1>3. CASE InterestsController
    BY <1>3, OtherKinds
    DEF InterestsController, CreateInterest, FindInterest, UpdateInterest, DeleteInterest
  <1>4. CASE AffiliationStatusesController
    BY <1>4, OtherKinds
    DEF AffiliationStatusesController, CreateAffiliationStatus, FindAffiliationStatus,
        UpdateAffiliationStatus, DeleteAffiliationStatus
  <1>5. CASE CardBackgroundImagesController
    BY <1>5, OtherKinds
    DEF CardBackgroundImagesController, CreateBackground, FindBackground, DeleteBackground
  <1> QED
    BY <1>1, <1>2, <1>3, <1>4, <1>5

LEMMA PersonalitiesKeepInv ==
    ASSUME CatalogueAssumption, Inv, PersonalitiesController
    PROVE  Inv'
  <1>1. CASE CreatePersonality
    BY <1>1, OtherKinds DEF CreatePersonality
  <1>2. ASSUME NEW c \in Calls, UpdatePersonality(c)
        PROVE  Inv'
    BY <1>2, OtherKinds DEF UpdatePersonality, Holds
  <1>3. ASSUME NEW c \in Calls, FindPersonality(c) \/ DeletePersonality(c)
        PROVE  Inv'
    BY <1>3, OtherKinds DEF FindPersonality, DeletePersonality
  <1> QED
    BY <1>1, <1>2, <1>3 DEF PersonalitiesController

LEMMA CardsKeepInv ==
    ASSUME CatalogueAssumption, Inv, ProfileCardsController
    PROVE  Inv'
  <1>1. CASE CreateCard
    BY <1>1, OtherKinds DEF CreateCard
  <1>2. ASSUME NEW c \in Calls, UpdateCard(c)
        PROVE  Inv'
    BY <1>2, OtherKinds DEF UpdateCard, Holds
  <1>3. ASSUME NEW c \in Calls, FindCard(c) \/ DeleteCard(c)
        PROVE  Inv'
    BY <1>3, OtherKinds DEF FindCard, DeleteCard
  <1> QED
    BY <1>1, <1>2, <1>3 DEF ProfileCardsController

(* A body names job types or leaves them as they are.                       *)
LEMMA SkillsKeepInv ==
    ASSUME CatalogueAssumption, Inv, SkillsController
    PROVE  Inv'
  <1>1. CASE CreateSkill
    <2>1. PICK s \in Skills, k \in Categories, J \in Mappings : Insert(s, {k} \cup J)
      BY <1>1 DEF CreateSkill
    <2>2. s \in Rows /\ ({k} \cup J) \cap JobTypes # {}
      BY DEF Rows, Mappings
    <2> QED
      BY <2>1, <2>2, InsertKeepsInv
  <1>2. ASSUME NEW c \in Calls, UpdateSkill(c)
        PROVE  Inv'
    <2> DEFINE s == call[c].row
    <2>1. PICK k \in Categories, J \in Mappings \cup {jobTypesOf(s)} : Rewrite(c, {k} \cup J)
      BY <1>2 DEF UpdateSkill
    <2>2. \/ ({k} \cup J) \cap JobTypes # {}
          \/ ({k} \cup J) \cap JobTypes = jobTypesOf(s)
      <3>1. J \subseteq JobTypes
        BY DEF Mappings, jobTypesOf
      <3>2. J # {} \/ J = jobTypesOf(s)
        BY DEF Mappings
      <3> QED
        BY <3>1, <3>2
    <2> QED
      BY <2>1, <2>2, RewriteKeepsInv
  <1>3. ASSUME NEW c \in Calls, FindSkill(c) \/ DeleteSkill(c)
        PROVE  Inv'
    BY <1>3, EditKeepsInv, RemoveKeepsInv DEF FindSkill, DeleteSkill
  <1> QED
    BY <1>1, <1>2, <1>3 DEF SkillsController

-----------------------------------------------------------------------------
(* The seed script *)

LEMMA SeedRowKeepsInv ==
    ASSUME CatalogueAssumption, Inv,
           \/ SeedJobType \/ SeedCategory
           \/ SeedInterest \/ SeedAffiliationStatus \/ SeedPersonality
    PROVE  Inv'
  BY OtherKinds DEF SeedJobType, SeedCategory, SeedInterest, SeedAffiliationStatus,
                    SeedPersonality, SeedRow

(* A skill the script has just made, without job types, is the one it is    *)
(* working on.                                                              *)
LEMMA SeedSkillKeepsInv ==
    ASSUME CatalogueAssumption, Inv, SeedSkill
    PROVE  Inv'
  <1>1. PICK s \in Skills, k \in Categories \cap rows :
            /\ \/ Unused(s) /\ refs' = [refs EXCEPT ![s] = {k}]
               \/ s \in rows /\ refs' = [refs EXCEPT ![s] = {k} \cup jobTypesOf(s)]
            /\ seed' = [pc |-> "deleteMany", row |-> s]
    BY DEF SeedSkill
  <1>2. seed.row = None /\ UNCHANGED <<call, interrupted>>
    BY SeedTyped DEF SeedSkill, Inv
  <1>3. \A t \in Skills : t # None
    BY DEF CatalogueAssumption, Rows
  <1>4. seed' \in [pc : {"deleteMany", "createMany"}, row : Skills] /\ seed'.row = s
    BY <1>1
  <1>5. PICK R \in SUBSET Rows : refs' = [refs EXCEPT ![s] = R] /\ R \subseteq rows
    <2>1. CASE refs' = [refs EXCEPT ![s] = {k}]
      BY <2>1 DEF rows
    <2>2. CASE s \in rows /\ refs' = [refs EXCEPT ![s] = {k} \cup jobTypesOf(s)]
      <3>1. {k} \cup jobTypesOf(s) \subseteq rows
        BY <2>2 DEF Inv, ReferencesResolve, jobTypesOf
      <3> QED
        BY <2>2, <3>1 DEF rows
    <2> QED
      BY <1>1, <2>1, <2>2
  <1>6. s \in Rows
    BY DEF Rows
  <1> QED
    BY <1>2, <1>3, <1>4, <1>5, <1>6, WriteKeepsInv DEF Inv, TypeOK

LEMMA SeedDeleteKeepsInv ==
    ASSUME CatalogueAssumption, Inv, SeedDeleteMany
    PROVE  Inv'
  <1> DEFINE s == seed.row
  <1>1. TypeOK /\ s \in Skills /\ s \in Rows
    BY SeedTyped DEF Inv, SeedDeleteMany, Rows
  <1>2. /\ seed' \in [pc : {"deleteMany", "createMany"}, row : Skills]
        /\ seed'.row = s /\ seed.row = s
        /\ UNCHANGED <<call, interrupted>>
    BY <1>1 DEF SeedDeleteMany, TypeOK
  <1>3. CASE s \in rows
    <2>1. refs' = [refs EXCEPT ![s] = refs[s] \ JobTypes]
      BY <1>3 DEF SeedDeleteMany
    <2>2. refs[s] \ JobTypes \in SUBSET Rows /\ refs[s] \ JobTypes \subseteq rows
      BY <1>1, <1>3, RowTyped DEF Inv, ReferencesResolve
    <2> HIDE DEF s
    <2> QED
      BY <1>1, <1>2, <2>1, <2>2, WriteKeepsInv DEF Inv, TypeOK
  <1>4. CASE s \notin rows
    <2>1. refs' = refs
      BY <1>4 DEF SeedDeleteMany
    <2>2. rows' = rows /\ \A t : jobTypesOf(t)' = jobTypesOf(t)
      BY <2>1 DEF rows, jobTypesOf
    <2> QED
      BY <1>2, <2>1, <2>2 DEF Inv, TypeOK, ReferencesResolve, SkillsKeepAJobType
  <1> QED
    BY <1>3, <1>4

LEMMA SeedCreateKeepsInv ==
    ASSUME CatalogueAssumption, Inv, SeedCreateMany
    PROVE  Inv'
  <1> DEFINE s == seed.row
  <1>1. TypeOK /\ s \in Skills /\ s \in Rows /\ s \in rows
    BY SeedTyped DEF Inv, SeedCreateMany, Rows
  <1>2. PICK J \in Mappings :
            J \subseteq rows /\ refs' = [refs EXCEPT ![s] = refs[s] \cup J]
    BY DEF SeedCreateMany
  <1>3. /\ refs[s] \cup J \in SUBSET Rows /\ refs[s] \cup J \subseteq rows
        /\ (refs[s] \cup J) \cap JobTypes # {}
    BY <1>1, <1>2, RowTyped DEF Inv, ReferencesResolve, Mappings, rows
  <1>4. /\ seed' \in [pc : {"idle", "upsert"}, row : {None}]
        /\ UNCHANGED <<call, interrupted>>
        /\ \A t \in Skills : t # s => seed.row # t
    BY DEF SeedCreateMany
  <1> HIDE DEF s
  <1> QED
    BY <1>1, <1>2, <1>3, <1>4, WriteKeepsInv DEF Inv, TypeOK

(* A seed that ends is over, or owns up to the skill it leaves.             *)
LEMMA SeedBeginsAndEnds ==
    ASSUME CatalogueAssumption, Inv, BeginSeed \/ EndSeed
    PROVE  Inv'
  <1>1. UNCHANGED <<refs, call>> /\ TypeOK
    BY DEF BeginSeed, EndSeed, Inv
  <1>2. rows' = rows /\ \A s : jobTypesOf(s)' = jobTypesOf(s)
    BY <1>1 DEF rows, jobTypesOf
  <1>3. TypeOK'
    <2>1. seed' \in [pc : {"idle", "upsert"}, row : {None}]
      BY DEF BeginSeed, EndSeed, Idle
    <2>2. interrupted' \in BOOLEAN
      BY <1>1, Zenon DEF BeginSeed, EndSeed, TypeOK
    <2> QED
      BY <1>1, <2>1, <2>2 DEF TypeOK
  <1>4. ReferencesResolve'
    BY <1>1, <1>2 DEF Inv, ReferencesResolve
  <1>5. SkillsKeepAJobType'
    <2> SUFFICES ASSUME ~interrupted', NEW s \in rows \cap Skills, jobTypesOf(s) = {}
                 PROVE  seed'.row = s
      BY <1>2 DEF SkillsKeepAJobType
    <2>1. ~interrupted
      BY <1>1 DEF BeginSeed, EndSeed, TypeOK
    <2>2. seed.row = s
      BY <2>1 DEF Inv, SkillsKeepAJobType
    <2>3. CASE BeginSeed
      BY <1>1, <2>2, <2>3, SeedTyped DEF BeginSeed
    <2>4. CASE EndSeed
      BY <2>2, <2>4 DEF EndSeed
    <2> QED
      BY <2>3, <2>4
  <1> QED
    BY <1>3, <1>4, <1>5 DEF Inv

LEMMA NextKeepsInv ==
    ASSUME CatalogueAssumption, Inv, [Next]_vars
    PROVE  Inv'
  <1>1. CASE Controllers
    BY <1>1, PlainControllersKeepInv, PersonalitiesKeepInv, CardsKeepInv, SkillsKeepInv
    DEF Controllers
  <1>2. CASE Seed
    BY <1>2, SeedRowKeepsInv, SeedSkillKeepsInv, SeedDeleteKeepsInv, SeedCreateKeepsInv,
       SeedBeginsAndEnds DEF Seed
  <1>3. CASE UNCHANGED vars
    BY <1>3, CallStepKeepsInv DEF vars, Inv, TypeOK
  <1> QED
    BY <1>1, <1>2, <1>3, FailKeepsInv DEF Next

(* The invariant, for any rows and any number of calls.                     *)
THEOREM InvHolds ==
    ASSUME CatalogueAssumption
    PROVE  Spec => []Inv
  <1> QED
    BY InitInv, NextKeepsInv, PTL DEF Spec

(* Rows refer to rows, and a call and the seed hold what they may hold.     *)
THEOREM TypeCorrect ==
    ASSUME CatalogueAssumption
    PROVE  Spec => []TypeOK
  <1>1. Inv => TypeOK
    BY DEF Inv
  <1> QED
    BY <1>1, InvHolds, PTL

(* Whatever administrators delete while somebody is about to use it, no     *)
(* row refers to one that is gone (skills.service.ts:57).                   *)
THEOREM ReferencesHold ==
    ASSUME CatalogueAssumption
    PROVE  Spec => []ReferencesResolve
  <1>1. Inv => ReferencesResolve
    BY DEF Inv
  <1> QED
    BY <1>1, InvHolds, PTL

(* Only a seed that was stopped between two statements leaves a skill       *)
(* without job types (seed.ts:353-354).                                     *)
THEOREM JobTypesKept ==
    ASSUME CatalogueAssumption
    PROVE  Spec => []SkillsKeepAJobType
  <1>1. Inv => SkillsKeepAJobType
    BY DEF Inv
  <1> QED
    BY <1>1, InvHolds, PTL
=============================================================================
