------------------------------ MODULE Catalogue ------------------------------
(***************************************************************************)
(* What profile cards are made of: job types, skills and their categories, *)
(* personalities, interests, affiliation statuses and background images,   *)
(* which administrators create, change and delete (src/src/module/skills,  *)
(* skill-categories, job-types, personalities, interests, affiliation-     *)
(* statuses, card-background-images), which cards refer to (profile-cards) *)
(* and which the seed script writes again whenever somebody runs it        *)
(* (src/prisma/seed.ts).                                                   *)
(*                                                                         *)
(* A row is modelled by the rows it refers to: a skill by its category and *)
(* its job types, a personality by its job type if any, a card by its job  *)
(* type and what its user has chosen.  Names, descriptions and images are  *)
(* left out, so that a change of these alone changes nothing here, and a   *)
(* name in use is one of the reasons for Fail.  Every reference to another *)
(* kind is a foreign key with onDelete: Restrict; the rows that hold the   *)
(* lists of a skill or a card go with it (prisma/schema.prisma).           *)
(*                                                                         *)
(* A write, its nested writes included, is one transaction.  An id is      *)
(* never given out twice: an absent row that nobody holds stands for the   *)
(* ids to come.                                                            *)
(***************************************************************************)
CONSTANTS
    JobTypes, Categories, Skills, Personalities,
    Interests, Statuses, Backgrounds, Cards,
    Calls,          \* slots for running handlers
    None            \* an absent row, or an unused field of a slot

Rows == UNION {JobTypes, Categories, Skills, Personalities,
               Interests, Statuses, Backgrounds, Cards}

Kinds == <<JobTypes, Categories, Skills, Personalities,
           Interests, Statuses, Backgrounds, Cards>>

(* A row is of one table, whose name is part of what its id stands for.     *)
CatalogueAssumption ==
    /\ \A i, j \in DOMAIN Kinds : i # j => Kinds[i] \cap Kinds[j] = {}
    /\ None \notin Rows /\ \A R \in SUBSET Rows : R # None

Idle == [pc |-> "idle", row |-> None]

VARIABLES
    refs,           \* the rows a row refers to, None if it does not exist
    call,           \* what each slot is running
    seed,           \* where the seed script is, and the skill it works on
    interrupted     \* history: a seed stopped at a skill without job types

vars == <<refs, call, seed, interrupted>>

TypeOK ==
    /\ refs \in [Rows -> (SUBSET Rows) \cup {None}]
    /\ call \in [Calls -> [pc : {"update", "delete"}, row : Rows] \cup {Idle}]
    /\ seed \in [pc : {"idle", "upsert"}, row : {None}]
                   \cup [pc : {"deleteMany", "createMany"}, row : Skills]
    /\ interrupted \in BOOLEAN

Init ==
    /\ refs = [r \in Rows |-> None]
    /\ call = [c \in Calls |-> Idle]
    /\ seed = Idle
    /\ interrupted = FALSE

rows == {r \in Rows : refs[r] # None}
jobTypesOf(s) == refs[s] \cap JobTypes

-----------------------------------------------------------------------------
(* The statements all kinds have in common. *)

At(c, pc) == call[c].pc = pc
Return(c) == call' = [call EXCEPT ![c] = Idle]

Unused(r) ==
    r \notin rows /\ seed.row # r /\ \A c \in Calls : call[c].row # r

(* A row is inserted with what it refers to, or not at all. *)
Insert(r, R) ==
    /\ Unused(r)
    /\ R \subseteq rows
    /\ refs' = [refs EXCEPT ![r] = R]
    /\ UNCHANGED <<call, seed, interrupted>>

(* The check that answers 404 comes before the write, and apart from it.    *)
Find(c, pc, r) ==
    /\ At(c, "idle")
    /\ r \in rows
    /\ call' = [call EXCEPT ![c] = [pc |-> pc, row |-> r]]
    /\ UNCHANGED <<refs, seed, interrupted>>

Edit(c, r) == Find(c, "update", r) \/ Find(c, "delete", r)

Holds(c, pc, Kind) == At(c, pc) /\ call[c].row \in Kind

(* An update by id, which fails if the row is gone, or what it refers to.   *)
Rewrite(c, R) ==
    /\ call[c].row \in rows
    /\ R \subseteq rows
    /\ refs' = [refs EXCEPT ![call[c].row] = R]
    /\ Return(c)
    /\ UNCHANGED <<seed, interrupted>>

(* A change of what is left out here. *)
Rename(c, Kind) ==
    /\ Holds(c, "update", Kind)
    /\ Rewrite(c, refs[call[c].row])

(* Mutant: a row in use by a card is deleted, as without onDelete: Restrict. *)
RemoveFromCards(c, Kind) ==
    LET r == call[c].row IN
    /\ Holds(c, "delete", Kind)
    /\ \A q \in rows \ Cards : r \notin refs[q]
    /\ refs' = [refs EXCEPT ![r] = None]
    /\ Return(c)
    /\ UNCHANGED <<seed, interrupted>>

(* The foreign keys keep a row that is in use. *)
Remove(c, Kind) ==
    LET r == call[c].row IN
    /\ Holds(c, "delete", Kind)
    /\ \A q \in rows : r \notin refs[q]
    /\ refs' = [refs EXCEPT ![r] = None]
    /\ Return(c)
    /\ UNCHANGED <<seed, interrupted>>

(* Any query may fail; nothing is compensated. *)
Fail(c) ==
    /\ ~At(c, "idle")
    /\ Return(c)
    /\ UNCHANGED <<refs, seed, interrupted>>

-----------------------------------------------------------------------------
(* Kinds that refer to nothing *)

CreateJobType == \E r \in JobTypes : Insert(r, {})
FindJobType(c) == \E r \in JobTypes : Edit(c, r)
UpdateJobType(c) == Rename(c, JobTypes)
DeleteJobType(c) == Remove(c, JobTypes)

CreateCategory == \E r \in Categories : Insert(r, {})
FindCategory(c) == \E r \in Categories : Edit(c, r)
UpdateCategory(c) == Rename(c, Categories)
DeleteCategory(c) == Remove(c, Categories)

CreateInterest == \E r \in Interests : Insert(r, {})
FindInterest(c) == \E r \in Interests : Edit(c, r)
UpdateInterest(c) == Rename(c, Interests)
DeleteInterest(c) == Remove(c, Interests)

CreateAffiliationStatus == \E r \in Statuses : Insert(r, {})
FindAffiliationStatus(c) == \E r \in Statuses : Edit(c, r)
UpdateAffiliationStatus(c) == Rename(c, Statuses)
DeleteAffiliationStatus(c) == Remove(c, Statuses)

(* A card keeps the address of its image, not the row's id. *)
CreateBackground == \E r \in Backgrounds : Insert(r, {})
FindBackground(c) == \E r \in Backgrounds : Find(c, "delete", r)
DeleteBackground(c) == Remove(c, Backgrounds)

-----------------------------------------------------------------------------
(* Skills, personalities and cards *)

(* The body of a skill names one or more job types, whenever it names any.  *)
Mappings == (SUBSET JobTypes) \ {{}}

CreateSkill ==
    \E s \in Skills, k \in Categories, J \in Mappings : Insert(s, {k} \cup J)

FindSkill(c) == \E s \in Skills : Edit(c, s)

(* Mutant: the job types of the body are taken out and not put in.          *)
UpdateSkillPartly(c) ==
    /\ Holds(c, "update", Skills)
    /\ \E J \in Mappings :
          Rewrite(c, refs[call[c].row] \ (JobTypes \ J))

(* What the body names is replaced, the rest stays. *)
UpdateSkill(c) ==
    LET s == call[c].row IN
    /\ Holds(c, "update", Skills)
    /\ s \in rows
    /\ \E k \in Categories, J \in Mappings \cup {jobTypesOf(s)} :
          Rewrite(c, {k} \cup J)

DeleteSkill(c) == Remove(c, Skills)

CreatePersonality ==
    \E p \in Personalities, J \in SUBSET JobTypes :
        (\A i, j \in J : i = j) /\ Insert(p, J)

FindPersonality(c) == \E p \in Personalities : Edit(c, p)

(* A job type is replaced, and never taken away. *)
UpdatePersonality(c) ==
    /\ Holds(c, "update", Personalities)
    /\ call[c].row \in rows
    /\ \E J \in {{j} : j \in JobTypes} \cup {refs[call[c].row]} : Rewrite(c, J)

DeletePersonality(c) == Remove(c, Personalities)

(* The purpose of a card is in Purposes. *)
CreateCard == \E x \in Cards, j \in JobTypes : Insert(x, {j})

FindCard(c) == \E x \in Cards : Edit(c, x)

(* At most one of each kind, any number of skills and interests; the job    *)
(* type stays.                                                              *)
Choices == {R \in SUBSET UNION {Skills, Interests, Personalities, Statuses} :
               \A Kind \in {Personalities, Statuses} :
                   \A p, q \in R \cap Kind : p = q}

UpdateCard(c) ==
    /\ Holds(c, "update", Cards)
    /\ call[c].row \in rows
    /\ \E R \in Choices : Rewrite(c, jobTypesOf(call[c].row) \cup R)

DeleteCard(c) == Remove(c, Cards)

-----------------------------------------------------------------------------
(* The seed script, one statement after the other.  Which rows have the     *)
(* names the seed wants, and in which order it visits them, is left open.   *)

BeginSeed ==
    /\ seed.pc = "idle"
    /\ seed' = [pc |-> "upsert", row |-> None]
    /\ UNCHANGED <<refs, call, interrupted>>

(* The upsert of a job type, a category, an interest, a status or a         *)
(* personality changes none that is there.                                  *)
SeedRow(Kind) ==
    /\ seed.pc = "upsert"
    /\ \E r \in Kind : Insert(r, {})

SeedJobType == SeedRow(JobTypes)
SeedCategory == SeedRow(Categories)
SeedInterest == SeedRow(Interests)
SeedAffiliationStatus == SeedRow(Statuses)
SeedPersonality == SeedRow(Personalities)

(* The upsert of a skill moves it to its category. *)
SeedSkill ==
    /\ seed.pc = "upsert"
    /\ \E s \in Skills, k \in Categories \cap rows :
          /\ \/ Unused(s) /\ refs' = [refs EXCEPT ![s] = {k}]
             \/ s \in rows /\ refs' = [refs EXCEPT ![s] = {k} \cup jobTypesOf(s)]
          /\ seed' = [pc |-> "deleteMany", row |-> s]
    /\ UNCHANGED <<call, interrupted>>

(* Its job types are taken out ... *)
SeedDeleteMany ==
    LET s == seed.row IN
    /\ seed.pc = "deleteMany"
    /\ refs' = IF s \in rows THEN [refs EXCEPT ![s] = @ \ JobTypes] ELSE refs
    /\ seed' = [seed EXCEPT !.pc = "createMany"]
    /\ UNCHANGED <<call, interrupted>>

(* ... and the seed's put in, by another statement.  It fails if one is     *)
(* there again, is gone by now, or the skill is: then the script stops.     *)
SeedCreateMany ==
    LET s == seed.row IN
    /\ seed.pc = "createMany"
    /\ s \in rows
    /\ \E J \in Mappings :
          /\ J \subseteq rows /\ J \cap refs[s] = {}
          /\ refs' = [refs EXCEPT ![s] = @ \cup J]
    /\ seed' = [pc |-> "upsert", row |-> None]
    /\ UNCHANGED <<call, interrupted>>

(* The script is done, or stops where it is. *)
EndSeed ==
    /\ seed.pc # "idle"
    /\ interrupted' = (interrupted \/ (seed.row \in rows /\ jobTypesOf(seed.row) = {}))
    /\ seed' = Idle
    /\ UNCHANGED <<refs, call>>

-----------------------------------------------------------------------------
(* The handlers of each controller *)

JobTypesController ==
    \/ CreateJobType
    \/ \E c \in Calls : FindJobType(c) \/ UpdateJobType(c) \/ DeleteJobType(c)

SkillCategoriesController ==
    \/ CreateCategory
    \/ \E c \in Calls : FindCategory(c) \/ UpdateCategory(c) \/ DeleteCategory(c)

SkillsController ==
    \/ CreateSkill
    \/ \E c \in Calls : FindSkill(c) \/ UpdateSkill(c) \/ DeleteSkill(c)

PersonalitiesController ==
    \/ CreatePersonality
    \/ \E c \in Calls : FindPersonality(c) \/ UpdatePersonality(c) \/ DeletePersonality(c)

InterestsController ==
    \/ CreateInterest
    \/ \E c \in Calls : FindInterest(c) \/ UpdateInterest(c) \/ DeleteInterest(c)

AffiliationStatusesController ==
    \/ CreateAffiliationStatus
    \/ \E c \in Calls : \/ FindAffiliationStatus(c)
                       \/ UpdateAffiliationStatus(c) \/ DeleteAffiliationStatus(c)

CardBackgroundImagesController ==
    \/ CreateBackground
    \/ \E c \in Calls : FindBackground(c) \/ DeleteBackground(c)

ProfileCardsController ==
    \/ CreateCard
    \/ \E c \in Calls : FindCard(c) \/ UpdateCard(c) \/ DeleteCard(c)

Controllers ==
    \/ JobTypesController \/ SkillCategoriesController \/ SkillsController
    \/ PersonalitiesController \/ InterestsController
    \/ AffiliationStatusesController \/ CardBackgroundImagesController
    \/ ProfileCardsController

Seed ==
    \/ BeginSeed
    \/ SeedJobType \/ SeedCategory
    \/ SeedSkill \/ SeedDeleteMany \/ SeedCreateMany
    \/ SeedInterest \/ SeedAffiliationStatus \/ SeedPersonality
    \/ EndSeed

Next ==
    \/ Controllers
    \/ \E c \in Calls : Fail(c)
    \/ Seed

Spec == Init /\ [][Next]_vars

-----------------------------------------------------------------------------
(* Nothing refers to a row that does not exist, whatever is deleted while   *)
(* somebody is about to use it (skills.service.ts:57, skill-categories.     *)
(* service.ts:53-67): no card loses what its user chose.                    *)
ReferencesResolve == \A r \in rows : refs[r] \subseteq rows

(* A skill without job types is one that nobody has decided about, which    *)
(* the bodies of requests exclude (create-skill.dto.ts:24-28).  Only the    *)
(* seed script makes one, for the time between two statements               *)
(* (seed.ts:353-354), and leaves it if it is stopped there.                 *)
SkillsKeepAJobType ==
    ~interrupted =>
        \A s \in rows \cap Skills : jobTypesOf(s) = {} => seed.row = s
=============================================================================
