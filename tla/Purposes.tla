------------------------------ MODULE Purposes ------------------------------
(***************************************************************************)
(* The purposes of profile cards and the order they are listed in          *)
(* (src/src/module/purposes).  Administrators insert, move and delete      *)
(* them; the seed script (src/prisma/seed.ts) writes its own order.        *)
(*                                                                         *)
(* The shift of the other purposes and the write of the one meant are one  *)
(* transaction.  Positions have no index, so that the shift, which comes   *)
(* first or right after the deletion, reads and locks every row: two such  *)
(* transactions run one after the other.  The position a purpose has had   *)
(* is read before it, without a lock.                                      *)
(*                                                                         *)
(* Names are left out: the row of a name the seed wants may be any row, or *)
(* none, as administrators rename purposes.                                *)
(***************************************************************************)
EXTENDS Naturals

CONSTANTS
    Purposes,       \* ids of purposes
    First,          \* the one that is never deleted
    SeedSize,       \* the number of purposes the seed script writes
    PositionLimit,  \* bound on positions, for TLC
    Calls,          \* slots for running handlers
    None            \* no position: an absent row, or an optional field

PurposesAssumption ==
    /\ SeedSize \in Nat /\ PositionLimit \in Nat
    /\ None \notin Nat \cup Purposes

Idle == [pc |-> "idle", purpose |-> None, current |-> None]

Running ==
    [pc : {"updatePurpose", "deletePurpose"}, purpose : Purposes, current : Nat]

VARIABLES
    position,       \* the position of each purpose, None if it does not exist
    call,           \* what each slot is running
    seeding,        \* the next position a running seed script writes
    order           \* history: what can be said of the positions

vars == <<position, call, seeding, order>>

TypeOK ==
    /\ position \in [Purposes -> Nat \cup {None}]
    /\ call \in [Calls -> Running \cup {Idle}]
    /\ seeding \in 0 .. SeedSize \cup {None}
    /\ order \in {"dense", "distinct", "lost"}

Init ==
    /\ position = [p \in Purposes |-> None]
    /\ call = [c \in Calls |-> Idle]
    /\ seeding = None
    /\ order = "dense"

listed == {p \in Purposes : position[p] # None}
Taken(n) == \E p \in listed : position[p] = n

(* What an administrator may ask for: any position, also beyond the end.    *)
Position == 0 .. PositionLimit

Bounded == \A p \in Purposes : position'[p] \in Position \cup {None}

-----------------------------------------------------------------------------
At(c, pc) == call[c].pc = pc
Return(c) == call' = [call EXCEPT ![c] = Idle]

(* History: a transaction that went by a position the purpose no longer had *)
(* may leave two purposes at one position, one that was asked for a         *)
(* position beyond the end leaves a gap, and neither is ever repaired.      *)
Record(stale, gap) ==
    order' = IF stale THEN "lost"
             ELSE IF gap /\ order = "dense" THEN "distinct"
             ELSE order

(* What position becomes if those from n on make room. *)
ShiftedFrom(n) == [p \in Purposes |->
    IF p \in listed /\ position[p] >= n THEN position[p] + 1 ELSE position[p]]

(* A new purpose is inserted wherever the administrator wants it. *)
CreatePurpose(n) ==
    /\ \E p \in Purposes :
          /\ p \notin listed /\ \A c \in Calls : call[c].purpose # p
          /\ position' = [ShiftedFrom(n) EXCEPT ![p] = n]
    /\ Bounded
    /\ Record(FALSE, n > 0 /\ ~Taken(n - 1))
    /\ UNCHANGED <<call, seeding>>

-----------------------------------------------------------------------------
(* findByIdOrThrow: the position is read here, and used later. *)
Find(c, pc, p) ==
    /\ At(c, "idle")
    /\ p \in listed
    /\ call' = [call EXCEPT ![c] = [pc |-> pc, purpose |-> p, current |-> position[p]]]
    /\ UNCHANGED <<position, seeding, order>>

FindToUpdate(c) == \E p \in Purposes : Find(c, "updatePurpose", p)

FindToDelete(c) == \E p \in Purposes \ {First} : Find(c, "deletePurpose", p)

(* Mutant: the shift back begins at the position that is left, and the      *)
(* place that is taken is left out.                                         *)
MovedShort(current, n) == [p \in Purposes |->
    IF p \notin listed THEN None
    ELSE IF n <= position[p] /\ position[p] < current THEN position[p] + 1
    ELSE IF current < position[p] /\ position[p] < n THEN position[p] - 1
    ELSE position[p]]

(* The others, when a purpose moves from one position to another. *)
Moved(current, n) == [p \in Purposes |->
    IF p \notin listed THEN None
    ELSE IF n <= position[p] /\ position[p] < current THEN position[p] + 1
    ELSE IF current < position[p] /\ position[p] <= n THEN position[p] - 1
    ELSE position[p]]

(* No position in the body, or the one that was read: nobody else moves.    *)
(* The last statement fails, and all is rolled back, if the row is gone.    *)
UpdatePurpose(c) ==
    LET p == call[c].purpose
        current == call[c].current
    IN
    /\ At(c, "updatePurpose")
    /\ p \in listed
    /\ \/ UNCHANGED <<position, order>>
       \/ \E n \in Position :
             /\ position' = [Moved(current, n) EXCEPT ![p] = n]
             /\ Bounded
             /\ Record(position[p] # current, ~Taken(n))
    /\ Return(c)
    /\ UNCHANGED seeding

(* Mutant: the gap is not closed. *)
WithoutRow(p, current) == [position EXCEPT ![p] = None]

(* Mutant: one that has taken the position in the meantime moves up, too. *)
ClosedUpFromHere(p, current) == [q \in Purposes |->
    IF q = p \/ q \notin listed THEN None
    ELSE IF position[q] >= current THEN position[q] - 1
    ELSE position[q]]

(* Those behind the position that was read move up. *)
ClosedUp(p, current) == [q \in Purposes |->
    IF q = p \/ q \notin listed THEN None
    ELSE IF position[q] > current THEN position[q] - 1
    ELSE position[q]]

(* The deletion fails if the row is gone, or in use by a profile card. *)
DeletePurpose(c) ==
    LET p == call[c].purpose IN
    /\ At(c, "deletePurpose")
    /\ p \in listed
    /\ position' = ClosedUp(p, call[c].current)
    /\ Record(position[p] # call[c].current, FALSE)
    /\ Return(c)
    /\ UNCHANGED seeding

(* Any query may fail; a transaction that fails is rolled back. *)
Fail(c) ==
    /\ ~At(c, "idle")
    /\ Return(c)
    /\ UNCHANGED <<position, seeding, order>>

-----------------------------------------------------------------------------
(* The seed script, one statement for each of its purposes. *)
BeginSeed ==
    /\ seeding = None
    /\ seeding' = 0
    /\ UNCHANGED <<position, call, order>>

(* The row gets the next position, whoever is there.  An absent row that no *)
(* call holds stands for the id a new row gets.                             *)
SeedPurpose ==
    /\ seeding # None /\ seeding < SeedSize
    /\ \E p \in Purposes :
          /\ p \in listed \/ \A c \in Calls : call[c].purpose # p
          /\ position' = [position EXCEPT ![p] = seeding]
          /\ Record(position[p] # seeding /\ (p \in listed \/ Taken(seeding)),
                    seeding > 0 /\ ~Taken(seeding - 1))
    /\ seeding' = seeding + 1
    /\ UNCHANGED call

(* It has finished, or stops in the middle. *)
EndSeed ==
    /\ seeding # None
    /\ seeding' = None
    /\ UNCHANGED <<position, call, order>>

PurposesController ==
    \/ \E n \in Position : CreatePurpose(n)
    \/ \E c \in Calls : \/ FindToUpdate(c) \/ UpdatePurpose(c)
                       \/ FindToDelete(c) \/ DeletePurpose(c)

Next ==
    \/ PurposesController
    \/ \E c \in Calls : Fail(c)
    \/ BeginSeed \/ SeedPurpose \/ EndSeed

Spec == Init /\ [][Next]_vars

-----------------------------------------------------------------------------
(* No two purposes share a position, calls that overlap included, as long   *)
(* as no transaction ran on a position that had changed since it was read   *)
(* (purposes.service.ts:22-23, :27-28) and no seed rewrote the order.       *)
PositionsAreDistinct ==
    order # "lost" =>
        \A p, q \in listed : position[p] = position[q] => p = q

(* Deletions and moves leave no empty position (purposes.repository.ts:80)  *)
(* until somebody asks for one beyond the end, which nothing refuses.       *)
PositionsAreDense ==
    order = "dense" =>
        \A p \in listed : position[p] > 0 => Taken(position[p] - 1)
=============================================================================
