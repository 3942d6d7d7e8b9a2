--------------------------- MODULE Purposes_proof ---------------------------
(***************************************************************************)
(* For any purposes, calls and seeds: positions stay natural numbers, and  *)
(* as long as the history allows it, they stay distinct and dense.  The    *)
(* three facts together are inductive: a move that keeps the positions     *)
(* dense relies on their being distinct, and both on their type.           *)
(***************************************************************************)
EXTENDS Purposes, TLAPS

Inv ==
    /\ TypeOK
    /\ PositionsAreDistinct
    /\ PositionsAreDense

(* In the beginning there are no purposes.                                  *)
LEMMA InitInv ==
    ASSUME PurposesAssumption, Init
    PROVE  Inv
  <1>1. TypeOK
    BY DEF Init, TypeOK, PurposesAssumption
  <1>2. listed = {}
    BY DEF Init, listed
  <1> QED
    BY <1>1, <1>2 DEF Inv, PositionsAreDistinct, PositionsAreDense

(* A purpose is listed at a natural number.                                 *)
LEMMA ListedPosition ==
    ASSUME PurposesAssumption, TypeOK, NEW p \in listed
    PROVE  p \in Purposes /\ position[p] \in Nat
  BY DEF TypeOK, listed

(* What the history says can only be lost, and is lost by a stale position. *)
LEMMA RecordSays ==
    ASSUME TypeOK, NEW stale \in BOOLEAN, NEW gap \in BOOLEAN, Record(stale, gap)
    PROVE  /\ order' \in {"dense", "distinct", "lost"}
           /\ order' # "lost" => order # "lost" /\ ~stale
           /\ order' = "dense" => order = "dense" /\ ~stale /\ ~gap
  BY DEF TypeOK, Record

(* Who reads a position gets a natural number.                              *)
LEMMA FindTyped ==
    ASSUME PurposesAssumption, TypeOK, NEW c \in Calls, NEW p \in Purposes,
           NEW pc \in {"updatePurpose", "deletePurpose"}, Find(c, pc, p)
    PROVE  call' \in [Calls -> Running \cup {Idle}]
  <1>1. position[p] \in Nat
    BY ListedPosition DEF Find
  <1>2. [pc |-> pc, purpose |-> p, current |-> position[p]] \in Running
    BY <1>1 DEF Running
  <1> QED
    BY <1>2 DEF Find, TypeOK

(* A call about to write holds a purpose and a natural number.              *)
LEMMA CallTyped ==
    ASSUME TypeOK, NEW c \in Calls, ~At(c, "idle")
    PROVE  /\ call[c] \in Running
           /\ call[c].purpose \in Purposes
           /\ call[c].current \in Nat
  BY DEF TypeOK, At, Running, Idle

LEMMA ReturnTyped ==
    ASSUME TypeOK, NEW c \in Calls, Return(c)
    PROVE  call' \in [Calls -> Running \cup {Idle}]
  BY DEF TypeOK, Return

-----------------------------------------------------------------------------
(* What an administrator's insertion does to each purpose.                  *)
LEMMA CreateKeepsInv ==
    ASSUME PurposesAssumption, Inv, NEW n \in Position, CreatePurpose(n)
    PROVE  Inv'
  <1>0. TypeOK /\ n \in Nat /\ None \notin Nat
    BY DEF Inv, Position, PurposesAssumption
  <1>1. PICK p \in Purposes :
            p \notin listed /\ position' = [ShiftedFrom(n) EXCEPT ![p] = n]
    BY DEF CreatePurpose
  <1>2. \A q \in Purposes :
            position'[q] = IF q = p THEN n
                           ELSE IF q \in listed /\ position[q] >= n
                                THEN position[q] + 1 ELSE position[q]
    BY <1>1 DEF ShiftedFrom
  <1>3. \A q \in listed : q \in Purposes /\ position[q] \in Nat
    BY <1>0, ListedPosition
  <1>4. listed' = listed \cup {p}
    BY <1>0, <1>1, <1>2, <1>3 DEF listed
  <1>5. TypeOK'
    <2>1. position' \in [Purposes -> Nat \cup {None}]
      <3>1. DOMAIN position' = Purposes /\ position' = [q \in Purposes |-> position'[q]]
        BY <1>1 DEF ShiftedFrom
      <3>2. \A q \in Purposes : position'[q] \in Nat \cup {None}
        BY <1>0, <1>2, <1>3 DEF listed
      <3> QED
        BY <3>1, <3>2
    <2>2. order' \in {"dense", "distinct", "lost"}
      BY <1>0, RecordSays DEF CreatePurpose, Taken
    <2> QED
      BY <1>0, <2>1, <2>2 DEF TypeOK, CreatePurpose
  <1>6. PositionsAreDistinct'
    <2> SUFFICES ASSUME order' # "lost",
                        NEW q \in listed', NEW r \in listed', position'[q] = position'[r]
                 PROVE  q = r
      BY DEF PositionsAreDistinct
    <2>1. order # "lost"
      BY <1>0, RecordSays DEF CreatePurpose, Taken
    <2>2. \A u, v \in listed : position[u] = position[v] => u = v
      BY <2>1 DEF Inv, PositionsAreDistinct
    <2> QED
      BY <1>0, <1>1, <1>2, <1>3, <1>4, <2>2
  <1>7. PositionsAreDense'
    <2> SUFFICES ASSUME order' = "dense", NEW q \in listed', position'[q] > 0
                 PROVE  \E r \in listed' : position'[r] = position'[q] - 1
      BY DEF PositionsAreDense, Taken
    <2>1. order = "dense" /\ (n > 0 => Taken(n - 1))
      BY <1>0, RecordSays DEF CreatePurpose, Taken
    <2>2. \A u \in listed : position[u] > 0 =>
              \E v \in listed : position[v] = position[u] - 1
      BY <2>1 DEF Inv, PositionsAreDense, Taken
    <2>3. CASE q = p
      <3>1. PICK r \in listed : position[r] = n - 1
        BY <1>2, <1>4, <2>1, <2>3 DEF Taken
      <3>2. position'[r] = n - 1
        BY <1>0, <1>1, <1>2, <1>3, <3>1
      <3> QED
        BY <1>2, <1>4, <2>3, <3>2
    <2>4. CASE q # p /\ position[q] = n
      BY <1>0, <1>1, <1>2, <1>3, <1>4, <2>4
    <2>5. CASE q # p /\ position[q] # n
      <3>1. q \in listed /\ position[q] \in Nat /\ position[q] > 0
        BY <1>0, <1>2, <1>3, <1>4, <2>5
      <3>2. PICK r \in listed : position[r] = position[q] - 1
        BY <2>2, <3>1
      <3>3. position'[r] = position'[q] - 1
        BY <1>0, <1>1, <1>2, <1>3, <2>5, <3>1, <3>2
      <3> QED
        BY <1>4, <3>3
    <2> QED
      BY <2>3, <2>4, <2>5
  <1> QED
    BY <1>5, <1>6, <1>7 DEF Inv

-----------------------------------------------------------------------------
(* A move from the position the purpose still has, to one that is taken,    *)
(* turns a dense order into a dense order; any other keeps what it can.     *)
LEMMA MoveKeepsInv ==
    ASSUME PurposesAssumption, Inv, NEW c \in Calls, At(c, "updatePurpose"),
           call[c].purpose \in listed, NEW n \in Position,
           position' = [Moved(call[c].current, n) EXCEPT ![call[c].purpose] = n],
           Record(position[call[c].purpose] # call[c].current, ~Taken(n)),
           Return(c), UNCHANGED seeding
    PROVE  Inv'
  <1> DEFINE p == call[c].purpose
             current == call[c].current
  <1>0. TypeOK /\ n \in Nat /\ None \notin Nat
    BY DEF Inv, Position, PurposesAssumption
  <1>1. p \in Purposes /\ p \in listed /\ current \in Nat
    BY <1>0, CallTyped DEF At
  <1>2. \A q \in listed : q \in Purposes /\ position[q] \in Nat
    BY <1>0, ListedPosition
  <1>3. \A q \in Purposes :
            position'[q] = IF q = p THEN n ELSE Moved(current, n)[q]
    BY <1>1 DEF Moved
  <1>4. \A q \in listed \ {p} :
            position'[q] =
                IF n <= position[q] /\ position[q] < current THEN position[q] + 1
                ELSE IF current < position[q] /\ position[q] <= n THEN position[q] - 1
                ELSE position[q]
    BY <1>2, <1>3 DEF Moved
  <1>5. position'[p] = n
    BY <1>1, <1>3
  <1>6. \A q \in Purposes \ listed : position'[q] = None
    BY <1>1, <1>3 DEF Moved
  <1>7. \A q \in listed : position'[q] \in Nat
    <2> SUFFICES ASSUME NEW q \in listed, q # p
                 PROVE  position'[q] \in Nat
      BY <1>0, <1>5
    <2>1. position[q] \in Nat /\ (current < position[q] => position[q] - 1 \in Nat)
      BY <1>1, <1>2
    <2> QED
      BY <1>4, <2>1
  <1>8. listed' = listed
    BY <1>0, <1>6, <1>7 DEF listed
  <1>9. TypeOK'
    <2>1. position' \in [Purposes -> Nat \cup {None}]
      <3>1. position' = [q \in Purposes |-> position'[q]]
        BY DEF Moved
      <3>2. \A q \in Purposes : position'[q] \in Nat \cup {None}
        BY <1>6, <1>7
      <3> QED
        BY <3>1, <3>2
    <2>2. order' \in {"dense", "distinct", "lost"}
      BY <1>0, RecordSays
    <2>3. call' \in [Calls -> Running \cup {Idle}]
      BY <1>0, ReturnTyped
    <2> QED
      BY <1>0, <2>1, <2>2, <2>3 DEF TypeOK
  <1>10. PositionsAreDistinct'
    <2> SUFFICES ASSUME order' # "lost",
                        NEW q \in listed, NEW r \in listed, position'[q] = position'[r]
                 PROVE  q = r
      BY <1>8 DEF PositionsAreDistinct
    <2>1. order # "lost" /\ position[p] = current
      BY <1>0, RecordSays
    <2>2. \A u, v \in listed : position[u] = position[v] => u = v
      BY <2>1 DEF Inv, PositionsAreDistinct
    <2>3. \A u \in listed \ {p} : position'[u] # n
      <3> SUFFICES ASSUME NEW u \in listed, u # p
                   PROVE  position'[u] # n
        OBVIOUS
      <3>1. position[u] # current /\ position[u] \in Nat
        BY <1>1, <1>2, <2>1, <2>2
      <3> QED
        BY <1>0, <1>1, <1>4, <3>1
    <2>4. CASE q = p \/ r = p
      BY <1>5, <2>3, <2>4
    <2>5. CASE q # p /\ r # p
      <3>1. /\ position[q] # current /\ position[q] \in Nat
            /\ position[r] # current /\ position[r] \in Nat
        BY <1>1, <1>2, <2>1, <2>2, <2>5
      <3>2. position[q] = position[r]
        BY <1>0, <1>1, <1>4, <2>5, <3>1
      <3> QED
        BY <2>2, <3>2
    <2> QED
      BY <2>4, <2>5
  <1>11. PositionsAreDense'
    <2> SUFFICES ASSUME order' = "dense", NEW q \in listed, position'[q] > 0
                 PROVE  \E r \in listed : position'[r] = position'[q] - 1
      BY <1>8 DEF PositionsAreDense, Taken
    <2>1. order = "dense" /\ position[p] = current /\ Taken(n)
      BY <1>0, RecordSays DEF Taken
    <2>2. \A u, v \in listed : position[u] = position[v] => u = v
      BY <2>1 DEF Inv, PositionsAreDistinct
    <2>3. \A u \in listed : position[u] > 0 =>
              \E v \in listed : position[v] = position[u] - 1
      BY <2>1 DEF Inv, PositionsAreDense, Taken
    <2>4. \A u \in listed \ {p} : position[u] # current
      BY <1>1, <2>1, <2>2
    <2>5. PICK t \in listed : position[t] = n
      BY <2>1 DEF Taken
    <2>6. CASE q = p
      <3>1. CASE n > current
        <4>1. t # p
          BY <1>0, <1>1, <2>1, <2>5, <3>1
        <4>2. position'[t] = n - 1
          BY <1>0, <1>1, <1>4, <2>5, <3>1, <4>1
        <4> QED
          BY <1>5, <2>6, <4>2
      <3>2. CASE n <= current
        <4>1. PICK v \in listed : position[v] = n - 1
          BY <1>0, <1>5, <2>3, <2>5, <2>6
        <4>2. v # p /\ position'[v] = n - 1
          BY <1>0, <1>1, <1>4, <2>1, <3>2, <4>1
        <4> QED
          BY <1>5, <2>6, <4>2
      <3> QED
        BY <1>0, <1>1, <3>1, <3>2
    <2>7. CASE q # p
      <3>0. position[q] \in Nat /\ position[q] # current
        BY <1>2, <2>4, <2>7
      <3>1. CASE position'[q] = n + 1
        BY <1>0, <1>1, <1>5, <3>1
      <3>2. CASE position'[q] # n + 1
        <4>0. position[q] > 0
          BY <1>0, <1>1, <1>4, <2>7, <3>0, <3>2
        <4>1. PICK v \in listed : position[v] = position[q] - 1
          BY <2>3, <4>0
        <4>2. CASE v # p
          <5>1. position[v] \in Nat /\ position[v] # current
            BY <1>2, <2>4, <4>2
          <5>2. CASE n = position[v] /\ n > current
            BY <1>0, <1>1, <1>4, <1>5, <2>7, <3>0, <3>2, <4>1, <5>1, <5>2
          <5>3. CASE ~(n = position[v] /\ n > current)
            <6>1. position'[v] = position'[q] - 1
              BY <1>0, <1>1, <1>4, <2>7, <3>0, <3>2, <4>1, <4>2, <5>1, <5>3
            <6> QED
              BY <6>1
          <5> QED
            BY <5>2, <5>3
        <4>3. CASE v = p
          <5>1. position[q] = current + 1
            BY <1>1, <2>1, <3>0, <4>1, <4>3
          <5>2. CASE current = 0
            BY <1>0, <1>1, <1>4, <1>5, <2>7, <3>0, <3>2, <5>1, <5>2
          <5>3. CASE current > 0
            <6>1. PICK w \in listed : position[w] = current - 1
              BY <1>1, <2>1, <2>3, <5>3
            <6>2. w # p /\ position[w] \in Nat
              BY <1>1, <1>2, <2>1, <6>1
            <6>3. CASE n = current
              BY <1>0, <1>1, <1>4, <1>5, <2>7, <3>2, <5>1, <6>3
            <6>4. CASE n # current
              <7>1. position'[w] = position'[q] - 1
                BY <1>0, <1>1, <1>4, <2>7, <3>0, <3>2, <5>1, <6>1, <6>2, <6>4
              <7> QED
                BY <7>1
            <6> QED
              BY <6>3, <6>4
          <5> QED
            BY <1>1, <5>2, <5>3
        <4> QED
          BY <4>2, <4>3
      <3> QED
        BY <3>1, <3>2
    <2> QED
      BY <2>6, <2>7
  <1> QED
    BY <1>9, <1>10, <1>11 DEF Inv

(* The gap a deletion leaves is closed by all those behind it.              *)
LEMMA DeleteKeepsInv ==
    ASSUME PurposesAssumption, Inv, NEW c \in Calls, DeletePurpose(c)
    PROVE  Inv'
  <1> DEFINE p == call[c].purpose
             current == call[c].current
  <1>0. TypeOK /\ None \notin Nat
    BY DEF Inv, PurposesAssumption
  <1>1. p \in Purposes /\ p \in listed /\ current \in Nat
    BY <1>0, CallTyped DEF DeletePurpose, At
  <1>2. \A q \in listed : q \in Purposes /\ position[q] \in Nat
    BY <1>0, ListedPosition
  <1>3. \A q \in listed \ {p} :
            position'[q] = IF position[q] > current THEN position[q] - 1 ELSE position[q]
    BY <1>2 DEF DeletePurpose, ClosedUp
  <1>4. \A q \in Purposes : q = p \/ q \notin listed => position'[q] = None
    BY DEF DeletePurpose, ClosedUp
  <1>5. \A q \in listed \ {p} : position'[q] \in Nat
    <2> SUFFICES ASSUME NEW q \in listed \ {p}
                 PROVE  position'[q] \in Nat
      OBVIOUS
    <2>1. position[q] \in Nat /\ (position[q] > current => position[q] - 1 \in Nat)
      BY <1>1, <1>2
    <2> QED
      BY <1>3, <2>1
  <1>6. listed' = listed \ {p}
    BY <1>0, <1>1, <1>4, <1>5 DEF listed
  <1>7. Record(position[p] # current, FALSE)
    BY DEF DeletePurpose
  <1>8. TypeOK'
    <2>1. position' \in [Purposes -> Nat \cup {None}]
      <3>1. position' = [q \in Purposes |-> position'[q]]
        BY DEF DeletePurpose, ClosedUp
      <3>2. \A q \in Purposes : position'[q] \in Nat \cup {None}
        BY <1>4, <1>5
      <3> QED
        BY <3>1, <3>2
    <2>2. order' \in {"dense", "distinct", "lost"}
      BY <1>0, <1>7, RecordSays
    <2>3. call' \in [Calls -> Running \cup {Idle}]
      BY <1>0, ReturnTyped DEF DeletePurpose
    <2> QED
      BY <1>0, <2>1, <2>2, <2>3 DEF TypeOK, DeletePurpose
  <1>9. PositionsAreDistinct'
    <2> SUFFICES ASSUME order' # "lost",
                        NEW q \in listed \ {p}, NEW r \in listed \ {p},
                        position'[q] = position'[r]
                 PROVE  q = r
      BY <1>6 DEF PositionsAreDistinct
    <2>1. order # "lost" /\ position[p] = current
      BY <1>0, <1>7, RecordSays
    <2>2. \A u, v \in listed : position[u] = position[v] => u = v
      BY <2>1 DEF Inv, PositionsAreDistinct
    <2>3. /\ position[q] # current /\ position[q] \in Nat
          /\ position[r] # current /\ position[r] \in Nat
      BY <1>1, <1>2, <2>1, <2>2
    <2>4. position[q] = position[r]
      BY <1>1, <1>3, <2>3
    <2> QED
      BY <2>2, <2>4
  <1>10. PositionsAreDense'
    <2> SUFFICES ASSUME order' = "dense", NEW q \in listed \ {p}, position'[q] > 0
                 PROVE  \E r \in listed \ {p} : position'[r] = position'[q] - 1
      BY <1>6 DEF PositionsAreDense, Taken
    <2>1. order = "dense" /\ position[p] = current
      BY <1>0, <1>7, RecordSays
    <2>2. \A u, v \in listed : position[u] = position[v] => u = v
      BY <2>1 DEF Inv, PositionsAreDistinct
    <2>3. \A u \in listed : position[u] > 0 =>
              \E v \in listed : position[v] = position[u] - 1
      BY <2>1 DEF Inv, PositionsAreDense, Taken
    <2>4. position[q] \in Nat /\ position[q] # current /\ position[q] > 0
      BY <1>1, <1>2, <1>3, <2>1, <2>2
    <2>5. PICK v \in listed : position[v] = position[q] - 1
      BY <2>3, <2>4
    <2>6. CASE v # p
      <3>1. position[v] \in Nat /\ position[v] # current
        BY <1>1, <1>2, <2>1, <2>2, <2>6
      <3>2. position'[v] = position'[q] - 1
        BY <1>1, <1>3, <2>4, <2>5, <2>6, <3>1
      <3> QED
        BY <2>6, <3>2
    <2>7. CASE v = p
      <3>0. position[q] = current + 1
        BY <1>1, <2>1, <2>4, <2>5, <2>7
      <3>1. position'[q] = current /\ current > 0
        BY <1>1, <1>3, <3>0
      <3>2. PICK w \in listed : position[w] = current - 1
        BY <1>1, <2>1, <2>3, <3>1
      <3>3. w # p /\ position'[w] = current - 1
        BY <1>1, <1>3, <2>1, <3>2
      <3> QED
        BY <3>1, <3>3
    <2> QED
      BY <2>6, <2>7
  <1> QED
    BY <1>8, <1>9, <1>10 DEF Inv

(* The seed keeps the order if its rows are new, or are where it puts them. *)
LEMMA SeedKeepsInv ==
    ASSUME PurposesAssumption, Inv, SeedPurpose
    PROVE  Inv'
  <1>0. TypeOK /\ None \notin Nat /\ seeding \in Nat /\ seeding + 1 \in 0 .. SeedSize
    BY DEF Inv, PurposesAssumption, SeedPurpose, TypeOK
  <1>1. PICK p \in Purposes :
            /\ position' = [position EXCEPT ![p] = seeding]
            /\ Record(position[p] # seeding /\ (p \in listed \/ Taken(seeding)),
                      seeding > 0 /\ ~Taken(seeding - 1))
    BY DEF SeedPurpose
  <1>2. \A q \in Purposes : position'[q] = IF q = p THEN seeding ELSE position[q]
    BY <1>0, <1>1 DEF TypeOK
  <1>3. \A q \in listed : q \in Purposes /\ position[q] \in Nat
    BY <1>0, ListedPosition
  <1>4. listed' = listed \cup {p}
    BY <1>0, <1>2 DEF listed
  <1>5. TypeOK'
    <2>1. order' \in {"dense", "distinct", "lost"}
      BY <1>0, <1>1, RecordSays DEF Taken
    <2> QED
      BY <1>0, <1>1, <2>1 DEF TypeOK, SeedPurpose
  <1>6. PositionsAreDistinct'
    <2> SUFFICES ASSUME order' # "lost",
                        NEW q \in listed', NEW r \in listed', position'[q] = position'[r]
                 PROVE  q = r
      BY DEF PositionsAreDistinct
    <2>1. order # "lost" /\ (position[p] = seeding \/ (p \notin listed /\ ~Taken(seeding)))
      BY <1>0, <1>1, RecordSays DEF Taken
    <2>2. \A u, v \in listed : position[u] = position[v] => u = v
      BY <2>1 DEF Inv, PositionsAreDistinct
    <2>3. CASE position[p] = seeding
      <3>1. p \in listed
        BY <1>0, <1>1, <2>3 DEF listed
      <3> QED
        BY <1>2, <1>3, <1>4, <2>2, <2>3, <3>1
    <2>4. CASE p \notin listed /\ ~Taken(seeding)
      BY <1>2, <1>3, <1>4, <2>2, <2>4 DEF Taken
    <2> QED
      BY <2>1, <2>3, <2>4
  <1>7. PositionsAreDense'
    <2> SUFFICES ASSUME order' = "dense", NEW q \in listed', position'[q] > 0
                 PROVE  \E r \in listed' : position'[r] = position'[q] - 1
      BY DEF PositionsAreDense, Taken
    <2>1. /\ order = "dense"
          /\ position[p] = seeding \/ (p \notin listed /\ ~Taken(seeding))
          /\ seeding > 0 => Taken(seeding - 1)
      BY <1>0, <1>1, RecordSays DEF Taken
    <2>2. \A u \in listed : position[u] > 0 =>
              \E v \in listed : position[v] = position[u] - 1
      BY <2>1 DEF Inv, PositionsAreDense, Taken
    <2>3. \A u \in listed : position'[u] = position[u]
      BY <1>2, <1>3, <2>1
    <2>4. PICK v \in listed : position[v] = position'[q] - 1
      BY <1>2, <1>4, <2>1, <2>2, <2>3 DEF Taken
    <2> QED
      BY <1>4, <2>3, <2>4
  <1> QED
    BY <1>5, <1>6, <1>7 DEF Inv

-----------------------------------------------------------------------------
(* Every step of a handler or of the seed keeps the invariant.              *)
LEMMA NextInv ==
    ASSUME PurposesAssumption, Inv, [Next]_vars
    PROVE  Inv'
  <1>0. TypeOK
    BY DEF Inv
  <1>1. ASSUME position' = position, order' = order, TypeOK'
        PROVE  Inv'
    BY <1>1 DEF Inv, PositionsAreDistinct, PositionsAreDense, listed, Taken
  <1>2. CASE UNCHANGED vars
    <2>1. TypeOK'
      BY <1>0, <1>2 DEF vars, TypeOK
    <2> QED
      BY <1>1, <1>2, <2>1 DEF vars
  <1>3. ASSUME NEW n \in Position, CreatePurpose(n)
        PROVE  Inv'
    BY <1>3, CreateKeepsInv
  <1>4. ASSUME NEW c \in Calls, FindToUpdate(c) \/ FindToDelete(c)
        PROVE  Inv'
    <2>1. PICK p \in Purposes, pc \in {"updatePurpose", "deletePurpose"} : Find(c, pc, p)
      BY <1>4 DEF FindToUpdate, FindToDelete
    <2>2. call' \in [Calls -> Running \cup {Idle}]
      BY <1>0, <2>1, FindTyped
    <2>3. UNCHANGED <<position, seeding, order>>
      BY <2>1 DEF Find
    <2>4. TypeOK'
      BY <1>0, <2>2, <2>3 DEF TypeOK
    <2> QED
      BY <1>1, <2>3, <2>4
  <1>5. ASSUME NEW c \in Calls, UpdatePurpose(c)
        PROVE  Inv'
    <2>1. CASE UNCHANGED <<position, order>>
      <3>1. TypeOK'
        BY <1>0, <1>5, <2>1, ReturnTyped DEF TypeOK, UpdatePurpose
      <3> QED
        BY <1>1, <2>1, <3>1
    <2>2. CASE \E n \in Position :
                  /\ position' = [Moved(call[c].current, n)
                                     EXCEPT ![call[c].purpose] = n]
                  /\ Record(position[call[c].purpose] # call[c].current, ~Taken(n))
      BY <1>5, <2>2, MoveKeepsInv DEF UpdatePurpose
    <2> QED
      BY <1>5, <2>1, <2>2 DEF UpdatePurpose
  <1>6. ASSUME NEW c \in Calls, DeletePurpose(c)
        PROVE  Inv'
    BY <1>6, DeleteKeepsInv
  <1>7. ASSUME NEW c \in Calls, Fail(c)
        PROVE  Inv'
    <2>1. TypeOK'
      BY <1>0, <1>7, ReturnTyped DEF TypeOK, Fail
    <2> QED
      BY <1>1, <1>7, <2>1 DEF Fail
  <1>8. CASE BeginSeed \/ EndSeed
    <2>1. TypeOK'
      BY <1>0, <1>8 DEF TypeOK, BeginSeed, EndSeed, PurposesAssumption
    <2> QED
      BY <1>1, <1>8, <2>1 DEF BeginSeed, EndSeed
  <1>9. CASE SeedPurpose
    BY <1>9, SeedKeepsInv
  <1> QED
    BY <1>2, <1>3, <1>4, <1>5, <1>6, <1>7, <1>8, <1>9 DEF Next, PurposesController

(* The three facts hold in every reachable state.                           *)
THEOREM InvHolds ==
    ASSUME PurposesAssumption
    PROVE  Spec => []Inv
  <1>1. Init => Inv
    BY InitInv
  <1>2. Inv /\ [Next]_vars => Inv'
    BY NextInv
  <1> QED
    BY <1>1, <1>2, PTL DEF Spec

(* Every purpose is at a natural number, whatever shifts overlap: nothing   *)
(* moves in front of the first position.                                    *)
THEOREM TypeCorrect ==
    ASSUME PurposesAssumption
    PROVE  Spec => []TypeOK
  BY InvHolds, PTL DEF Inv

(* No two purposes share a position, unless a call went by a position that  *)
(* had changed (purposes.service.ts:22-23, :27-28).                         *)
THEOREM DistinctHolds ==
    ASSUME PurposesAssumption
    PROVE  Spec => []PositionsAreDistinct
  BY InvHolds, PTL DEF Inv

(* Moves and deletions leave no gap (purposes.repository.ts:45-87).         *)
THEOREM DenseHolds ==
    ASSUME PurposesAssumption
    PROVE  Spec => []PositionsAreDense
  BY InvHolds, PTL DEF Inv
=============================================================================
