-------------------------- MODULE PluginProofs ------------------------------
(***************************************************************************)
(* Two parts of the plugin on which a capture rests: the ring of frames is  *)
(* correct for every capacity, every range of the positions and every set   *)
(* of frames, and the rich context gate accounts exactly, for every number  *)
(* of vCPUs, page table values, blocks and accesses.                        *)
(***************************************************************************)
EXTENDS FrameRing, ContextFilter, SequenceTheorems, TLAPS

\* A step is a matter of logic, unless it cites SMT for arithmetic or sequences.
USE ZenonT(30)

-----------------------------------------------------------------------------
(* Facts about the remainder that the wrapping positions rest on. *)

\* Quotient and remainder of an integer by a positive number.
LEMMA Division ==
  ASSUME NEW c \in Nat \ {0}, NEW x \in Int
  PROVE  /\ x \div c \in Int
         /\ x % c \in 0 .. c - 1
         /\ x = c * (x \div c) + (x % c)
BY SMT

\* The remainder is determined by the equation of division.
LEMMA RemainderUnique ==
  ASSUME NEW c \in Nat \ {0}, NEW q \in Int, NEW r \in 0 .. c - 1
  PROVE  (c * q + r) % c = r
BY SMT

\* Adding a multiple of the divisor leaves the remainder alone.
LEMMA RemainderShift ==
  ASSUME NEW c \in Nat \ {0}, NEW l \in Int, NEW x \in Int
  PROVE  (x + l * c) % c = x % c
<1> DEFINE q == x \div c
           r == x % c
<1>1. q \in Int /\ r \in 0 .. c - 1 /\ x = c * q + r
  BY Division
<1> HIDE DEF q, r
<1>2. x + l * c = c * (q + l) + r /\ q + l \in Int
  BY <1>1, SMT
<1>3. (x + l * c) % c = r
  BY <1>1, <1>2, RemainderUnique
<1> QED
  BY <1>3 DEF r

\* Two numbers less than c apart have different remainders.
LEMMA RemainderDistinct ==
  ASSUME NEW c \in Nat \ {0}, NEW x \in Int, NEW d \in 1 .. c - 1
  PROVE  (x + d) % c # x % c
<1> DEFINE q == x \div c
           r == x % c
<1>1. q \in Int /\ r \in 0 .. c - 1 /\ x = c * q + r
  BY Division
<1> HIDE DEF q, r
<1>2. CASE r + d < c
  <2>1. x + d = c * q + (r + d) /\ r + d \in 0 .. c - 1
    BY <1>1, <1>2, SMT
  <2>2. (x + d) % c = r + d
    BY <1>1, <2>1, RemainderUnique
  <2> QED
    BY <1>1, <2>2, SMT DEF r
<1>3. CASE r + d >= c
  <2>1. x + d = c * (q + 1) + (r + d - c) /\ r + d - c \in 0 .. c - 1 /\ q + 1 \in Int
    BY <1>1, <1>3, SMT
  <2>2. (x + d) % c = r + d - c
    BY <1>1, <2>1, RemainderUnique
  <2> QED
    BY <1>1, <2>2, SMT DEF r
<1> QED
  BY <1>1, <1>2, <1>3, SMT
-----------------------------------------------------------------------------
(* Facts about positions. *)

Position == 0 .. Positions - 1

\* The unsigned difference of two positions; Occupied is Gap(write, read).
Gap(w, r) == (w - r) % Positions

\* The positions range over at least two laps of the slots.
LEMMA PositionsFact ==
  Positions \in Nat /\ Positions >= 2 * Capacity /\ Positions > Capacity
<1>1. Laps * Capacity >= 2 * Capacity /\ Laps * Capacity \in Nat
  BY CapacityAssumption, LapsAssumption, SMT
<1> QED
  BY <1>1, CapacityAssumption, SMT DEF Positions

\* A whole range of positions leads back to the same slot.
LEMMA SlotWraps ==
  ASSUME NEW p \in Int
  PROVE  SlotOf(p - Positions) = SlotOf(p) /\ SlotOf(p + Positions) = SlotOf(p)
<1>0. Capacity \in Nat \ {0} /\ Laps \in Int /\ 0 - Laps \in Int
  BY CapacityAssumption, LapsAssumption, SMT
<1>1. (p + Laps * Capacity) % Capacity = p % Capacity
  BY <1>0, RemainderShift
<1>2. (p + (0 - Laps) * Capacity) % Capacity = p % Capacity
  BY <1>0, RemainderShift
<1>3. p + (0 - Laps) * Capacity = p - Laps * Capacity
  BY CapacityAssumption, LapsAssumption, SMT
<1> QED
  BY <1>1, <1>2, <1>3 DEF SlotOf, Positions

\* A position goes up by one or wraps to zero.
LEMMA AdvanceCases ==
  ASSUME NEW p \in Position
  PROVE  /\ Advance(p) \in Position
         /\ Advance(p) = IF p = Positions - 1 THEN 0 ELSE p + 1
<1>1. Positions \in Nat \ {0}
  BY PositionsFact, CapacityAssumption, SMT
<1> HIDE DEF Positions
<1> QED
  BY <1>1, SMT DEF Advance, Position

\* Wrapping does not disturb which slot a later position names.
LEMMA AdvanceSlot ==
  ASSUME NEW p \in Position, NEW k \in Int
  PROVE  SlotOf(Advance(p) + k) = SlotOf(p + 1 + k)
<1>1. Positions \in Nat
  BY PositionsFact
<1>2. CASE p = Positions - 1
  <2>1. Advance(p) + k = (p + 1 + k) - Positions /\ p + 1 + k \in Int
    BY <1>1, <1>2, AdvanceCases, SMT
  <2> QED
    BY <2>1, SlotWraps
<1>3. CASE p # Positions - 1
  BY <1>1, <1>3, AdvanceCases DEF Position
<1> QED
  BY <1>2, <1>3

\* The unsigned difference, with and without a wrap between the positions.
LEMMA GapCases ==
  ASSUME NEW w \in Position, NEW r \in Position
  PROVE  /\ Gap(w, r) \in Position
         /\ Gap(w, r) = IF w >= r THEN w - r ELSE w - r + Positions
<1>1. Positions \in Nat \ {0}
  BY PositionsFact, CapacityAssumption, SMT
<1> QED
  BY <1>1, SMT DEF Gap, Position

\* Publishing a frame adds one to the number of occupied slots.
LEMMA GapPush ==
  ASSUME NEW w \in Position, NEW r \in Position, Gap(w, r) < Capacity
  PROVE  Gap(Advance(w), r) = Gap(w, r) + 1
<1>1. Advance(w) \in Position /\ Advance(w) = IF w = Positions - 1 THEN 0 ELSE w + 1
  BY AdvanceCases
<1>2. Gap(w, r) = IF w >= r THEN w - r ELSE w - r + Positions
  BY GapCases
<1>3. Gap(Advance(w), r) =
        IF Advance(w) >= r THEN Advance(w) - r ELSE Advance(w) - r + Positions
  BY <1>1, GapCases
<1> QED
  BY <1>1, <1>2, <1>3, PositionsFact, CapacityAssumption, SMT DEF Position

\* Releasing a frame takes one off it.
LEMMA GapPop ==
  ASSUME NEW w \in Position, NEW r \in Position, w # r
  PROVE  Gap(w, r) >= 1 /\ Gap(w, Advance(r)) = Gap(w, r) - 1
<1>1. Advance(r) \in Position /\ Advance(r) = IF r = Positions - 1 THEN 0 ELSE r + 1
  BY AdvanceCases
<1>2. Gap(w, r) = IF w >= r THEN w - r ELSE w - r + Positions
  BY GapCases
<1>3. Gap(w, Advance(r)) =
        IF w >= Advance(r) THEN w - Advance(r) ELSE w - Advance(r) + Positions
  BY <1>1, GapCases
<1> QED
  BY <1>1, <1>2, <1>3, PositionsFact, SMT DEF Position

\* The slot the producer writes follows the occupied ones.
LEMMA SlotOfWrite ==
  ASSUME NEW w \in Position, NEW r \in Position
  PROVE  SlotOf(w) = SlotOf(r + Gap(w, r))
<1>1. Positions \in Nat
  BY PositionsFact
<1>2. CASE w >= r
  BY <1>1, <1>2, GapCases, SMT DEF Position
<1>3. CASE ~ (w >= r)
  <2>1. r + Gap(w, r) = w + Positions /\ w \in Int
    BY <1>1, <1>3, GapCases, SMT DEF Position
  <2> QED
    BY <2>1, SlotWraps
<1> QED
  BY <1>2, <1>3

\* With room in the ring, the slot the producer writes is none of the occupied ones.
LEMMA SlotsDisjoint ==
  ASSUME NEW w \in Position, NEW r \in Position, Gap(w, r) < Capacity,
         NEW i \in 1 .. Gap(w, r)
  PROVE  SlotOf(r + i - 1) # SlotOf(w)
<1> DEFINE x == r + i - 1
           d == Gap(w, r) - i + 1
<1>0. Gap(w, r) \in Int /\ r \in Int
  BY GapCases, PositionsFact, SMT DEF Position
<1>1. x \in Int /\ d \in 1 .. Capacity - 1 /\ x + d = r + Gap(w, r)
  BY <1>0, CapacityAssumption, SMT
<1> HIDE DEF x, d
<1>2. SlotOf(x + d) # SlotOf(x)
  BY <1>1, RemainderDistinct, CapacityAssumption DEF SlotOf
<1> QED
  BY <1>1, <1>2, SlotOfWrite DEF x

\* Slots are numbered from zero.
LEMMA SlotInRange ==
  ASSUME NEW p \in Int
  PROVE  SlotOf(p) \in 0 .. Capacity - 1
BY CapacityAssumption, Division DEF SlotOf
-----------------------------------------------------------------------------
(* The inductive invariant. *)

\* The ring never holds more than Capacity frames, and a producer that found
\* room still has it: only the consumer moves meanwhile, and it makes more.
Room ==
  /\ Occupied <= Capacity
  /\ (pushing # "idle") => Occupied < Capacity

\* The slot about to be published holds the whole frame.
Written == (pushing = "copied") => slots[SlotOf(write)] = frame

\* Every slot between the positions holds a whole frame.
PublishedIntact == \A i \in 1 .. Occupied : slots[SlotOf(read + i - 1)] \in Frame

\* The consumer holds bytes exactly between publishing them and pop.
ViewHeld == (taking # "published") <=> (view = NoFrame)

RingInv ==
  /\ TypeOK
  /\ Room
  /\ Written
  /\ PublishedIntact
  /\ ViewStable
  /\ ViewHeld

\* An empty ring satisfies the invariant.
LEMMA InitInv == Init => RingInv
<1> SUFFICES ASSUME Init PROVE RingInv
  OBVIOUS
<1>1. 0 \in Position
  BY PositionsFact, CapacityAssumption, SMT DEF Position
<1>2. Occupied = 0
  <2>1. Gap(0, 0) = 0
    BY <1>1, GapCases, SMT DEF Position
  <2> QED
    BY <2>1 DEF Init, Occupied, Gap
<1>3. TypeOK
  BY <1>1, FrameAssumption DEF Init, TypeOK, Position
<1>4. Room /\ Written /\ PublishedIntact /\ ViewStable /\ ViewHeld
  BY <1>2, CapacityAssumption, SMT DEF Init, Room, Written, PublishedIntact, ViewStable, ViewHeld
<1> QED
  BY <1>3, <1>4 DEF RingInv

\* Every step of either thread preserves the invariant.
LEMMA NextInv == RingInv /\ [Next]_vars => RingInv'
<1> SUFFICES ASSUME RingInv, [Next]_vars PROVE RingInv'
  OBVIOUS
<1> USE DEF RingInv
<1>0. /\ write \in Position /\ read \in Position
      /\ Occupied = Gap(write, read) /\ Occupied' = Gap(write', read')
      /\ SlotOf(write) \in 0 .. Capacity - 1
  <2>1. write \in Position /\ read \in Position
    BY DEF TypeOK, Position
  <2>2. Occupied = Gap(write, read) /\ Occupied' = Gap(write', read')
    BY DEF Occupied, Gap
  <2>3. write \in Int
    BY <2>1, PositionsFact, SMT DEF Position
  <2>4. SlotOf(write) \in 0 .. Capacity - 1
    BY <2>3, SlotInRange
  <2> QED
    BY <2>1, <2>2, <2>4
<1>1. ASSUME NEW f \in Frame, TryPush(f) PROVE RingInv'
  <2>1. Occupied' = Occupied
    BY <1>1 DEF TryPush, Occupied
  <2>2. Room'
    <3>1. Occupied <= Capacity /\ Occupied # Capacity /\ Occupied \in Int
      BY <1>0, <1>1, GapCases, PositionsFact, SMT DEF TryPush, Full, Room, Position
    <3> QED
      BY <2>1, <3>1, CapacityAssumption, SMT DEF Room
  <2>3. TypeOK' /\ Written' /\ ViewStable' /\ ViewHeld'
    BY <1>1 DEF TryPush, TypeOK, Written, ViewStable, ViewHeld
  <2>4. PublishedIntact'
    BY <1>1, <2>1 DEF TryPush, PublishedIntact
  <2> QED
    BY <2>2, <2>3, <2>4
<1>2. ASSUME NEW bytes \in Frame \cup {Torn},
             pushing # "idle", pushing' # "idle",
             pushing' \in {"copying", "copied"},
             pushing' = "copied" => bytes = frame,
             slots' = [slots EXCEPT ![SlotOf(write)] = bytes],
             UNCHANGED <<write, read, frame, taking, view>>
      PROVE  RingInv'
  <2>1. Occupied' = Occupied
    BY <1>2 DEF Occupied
  <2>2. TypeOK' /\ Room' /\ Written' /\ ViewHeld'
    BY <1>0, <1>2, <2>1 DEF TypeOK, Room, Written, ViewHeld
  <2>3. \A i \in 1 .. Occupied : slots'[SlotOf(read + i - 1)] = slots[SlotOf(read + i - 1)]
    <3> SUFFICES ASSUME NEW i \in 1 .. Occupied
                 PROVE  slots'[SlotOf(read + i - 1)] = slots[SlotOf(read + i - 1)]
      OBVIOUS
    <3>1. SlotOf(read + i - 1) # SlotOf(write)
      BY <1>0, <1>2, SlotsDisjoint DEF Room
    <3> QED
      BY <1>2, <3>1, SMT DEF TypeOK
  <2>4. PublishedIntact'
    BY <1>2, <2>1, <2>3 DEF PublishedIntact
  <2>5. ViewStable'
    <3>1. ASSUME taking = "published" PROVE slots'[SlotOf(read)] = slots[SlotOf(read)]
      <4>1. Occupied >= 1 /\ Occupied \in Int
        BY <1>0, <3>1, GapPop, GapCases, PositionsFact, SMT DEF ViewStable, Position
      <4>2. read + 1 - 1 = read /\ 1 \in 1 .. Occupied
        BY <1>0, <4>1, PositionsFact, SMT DEF Position
      <4> QED
        BY <2>3, <4>2
    <3> QED
      BY <1>2, <3>1 DEF ViewStable
  <2> QED
    BY <2>2, <2>4, <2>5
<1>3. CASE CopyBegin
  BY <1>2, <1>3 DEF CopyBegin
<1>4. CASE CopyEnd
  <2>1. frame \in Frame
    BY <1>4 DEF CopyEnd, TypeOK
  <2> QED
    BY <1>2, <1>4, <2>1 DEF CopyEnd
<1>5. CASE PublishWrite
  <2>1. Occupied' = Occupied + 1 /\ Occupied \in Nat /\ Occupied < Capacity
    BY <1>0, <1>5, GapPush, GapCases, PositionsFact, SMT DEF PublishWrite, Room, Position
  <2>2. TypeOK'
    BY <1>0, <1>5, AdvanceCases DEF PublishWrite, TypeOK, Position
  <2>3. Room' /\ Written' /\ ViewHeld'
    BY <1>5, <2>1, CapacityAssumption, SMT DEF PublishWrite, Room, Written, ViewHeld
  <2>4. slots[SlotOf(read + (Occupied + 1) - 1)] \in Frame
    <3>1. read + (Occupied + 1) - 1 = read + Occupied
      BY <1>0, <2>1, PositionsFact, SMT DEF Position
    <3>2. SlotOf(write) = SlotOf(read + Occupied)
      BY <1>0, SlotOfWrite
    <3>3. slots[SlotOf(write)] \in Frame
      BY <1>5 DEF PublishWrite, Written, TypeOK
    <3> QED
      BY <3>1, <3>2, <3>3
  <2>5. PublishedIntact'
    <3> SUFFICES ASSUME NEW i \in 1 .. Occupied + 1 PROVE slots[SlotOf(read + i - 1)] \in Frame
      BY <1>5, <2>1 DEF PublishWrite, PublishedIntact
    <3>1. CASE i = Occupied + 1
      BY <2>4, <3>1
    <3>2. CASE i # Occupied + 1
      BY <2>1, <3>2, SMT DEF PublishedIntact
    <3> QED
      BY <3>1, <3>2
  <2>6. ViewStable'
    <3>1. write' # read
      <4>1. Gap(write', read) # 0 /\ write' \in Position
        BY <1>0, <1>5, <2>1, AdvanceCases, SMT DEF PublishWrite
      <4> QED
        BY <1>0, <4>1, GapCases, SMT DEF Position
    <3> QED
      BY <1>5, <3>1 DEF PublishWrite, ViewStable
  <2> QED
    BY <2>2, <2>3, <2>5, <2>6
<1>6. CASE Front
  <2>1. Occupied' = Occupied
    BY <1>6 DEF Front, Occupied
  <2>2. TypeOK' /\ Room' /\ Written' /\ PublishedIntact' /\ ViewStable' /\ ViewHeld'
    BY <1>6, <2>1 DEF Front, TypeOK, Room, Written, PublishedIntact, ViewStable, ViewHeld
  <2> QED
    BY <2>2
<1>7. CASE ReadBytes
  <2>1. Occupied' = Occupied
    BY <1>7 DEF ReadBytes, Occupied
  <2>2. slots[SlotOf(read)] \in Frame
    <3>1. Occupied >= 1 /\ Occupied \in Int
      BY <1>0, <1>7, GapPop, GapCases, PositionsFact, SMT DEF ReadBytes, ViewStable, Position
    <3>2. read + 1 - 1 = read /\ 1 \in 1 .. Occupied
      BY <1>0, <3>1, PositionsFact, SMT DEF Position
    <3> QED
      BY <3>2 DEF PublishedIntact
  <2>3. TypeOK' /\ ViewStable' /\ ViewHeld'
    BY <1>7, <2>2, FrameAssumption DEF ReadBytes, TypeOK, ViewStable, ViewHeld
  <2>4. Room' /\ Written' /\ PublishedIntact'
    BY <1>7, <2>1 DEF ReadBytes, Room, Written, PublishedIntact
  <2> QED
    BY <2>3, <2>4
<1>8. CASE Pop
  <2>1. Occupied' = Occupied - 1 /\ Occupied \in Nat /\ Occupied >= 1
    BY <1>0, <1>8, GapPop, GapCases, PositionsFact, SMT DEF Pop, Position
  <2>2. TypeOK'
    BY <1>0, <1>8, AdvanceCases DEF Pop, TypeOK, Position
  <2>3. Room' /\ Written' /\ ViewStable' /\ ViewHeld'
    BY <1>8, <2>1, CapacityAssumption, SMT DEF Pop, Room, Written, ViewStable, ViewHeld
  <2>4. PublishedIntact'
    <3> SUFFICES ASSUME NEW i \in 1 .. Occupied - 1
                 PROVE  slots[SlotOf(Advance(read) + i - 1)] \in Frame
      BY <1>8, <2>1 DEF Pop, PublishedIntact
    <3>1. i - 1 \in Int /\ Advance(read) + i - 1 = Advance(read) + (i - 1)
      BY <1>0, <2>1, AdvanceCases, PositionsFact, SMT DEF Position
    <3>2. SlotOf(Advance(read) + (i - 1)) = SlotOf(read + 1 + (i - 1))
      BY <1>0, <3>1, AdvanceSlot
    <3>3. read + 1 + (i - 1) = read + (i + 1) - 1 /\ i + 1 \in 1 .. Occupied
      BY <1>0, <2>1, PositionsFact, SMT DEF Position
    <3> QED
      BY <3>1, <3>2, <3>3 DEF PublishedIntact
  <2> QED
    BY <2>2, <2>3, <2>4
<1>9. CASE UNCHANGED vars
  BY <1>9 DEF vars, TypeOK, Room, Written, PublishedIntact, ViewStable, ViewHeld, Occupied
<1> QED
  BY <1>1, <1>3, <1>4, <1>5, <1>6, <1>7, <1>8, <1>9 DEF Next, Producer, Consumer
-----------------------------------------------------------------------------
(* The theorems. *)

\* The inductive invariant holds in every reachable state.
THEOREM RingInvariant == Spec => []RingInv
BY InitInv, NextInv, PTL DEF Spec

\* Positions stay in their range, slots hold frames or bytes being copied, and
\* the consumer never publishes bytes that are being copied.
THEOREM TypeCorrect == Spec => []TypeOK
<1>1. RingInv => TypeOK
  BY DEF RingInv
<1> QED
  BY <1>1, RingInvariant, PTL

\* For every capacity and every wraparound of the positions, try_push writes a
\* slot that the consumer cannot be looking at.
THEOREM SlotsOwned == Spec => []SlotOwnership
<1>1. RingInv => SlotOwnership
  <2> SUFFICES ASSUME RingInv, pushing # "idle", NEW i \in 1 .. Occupied
               PROVE  SlotOf(read + i - 1) # SlotOf(write)
    BY DEF SlotOwnership
  <2>1. write \in Position /\ read \in Position /\ Occupied = Gap(write, read)
    BY DEF RingInv, TypeOK, Position, Occupied, Gap
  <2> QED
    BY <2>1, SlotsDisjoint DEF RingInv, Room
<1> QED
  BY <1>1, RingInvariant, PTL

\* What the collector publishes between front and pop is the front slot, which
\* keeps its bytes until pop.
THEOREM ViewOwned == Spec => []ViewStable
<1>1. RingInv => ViewStable
  BY DEF RingInv
<1> QED
  BY <1>1, RingInvariant, PTL

\* Publishing appends the frame to the contents, pop removes the oldest frame,
\* the bytes read are the oldest frame, and no other step changes the contents.
LEMMA QueueStep == RingInv /\ RingInv' /\ [Next]_vars => [Queue!Next]_(Queue!vars)
<1> SUFFICES ASSUME RingInv, RingInv', [Next]_vars
             PROVE  [Queue!Next]_(Queue!vars)
  OBVIOUS
<1> USE DEF RingInv
<1>0. /\ write \in Position /\ read \in Position
      /\ Occupied = Gap(write, read) /\ Occupied' = Gap(write', read')
      /\ Occupied \in Nat /\ Occupied' \in Nat
  <2>1. write' \in Position /\ read' \in Position /\ write \in Position /\ read \in Position
    BY DEF TypeOK, Position
  <2>2. Gap(write, read) \in Position /\ Gap(write', read') \in Position
    BY <2>1, GapCases
  <2>3. Occupied = Gap(write, read) /\ Occupied' = Gap(write', read')
    BY DEF Occupied, Gap
  <2> QED
    BY <2>1, <2>2, <2>3, SMT DEF Position
<1>1. /\ Contents \in Seq(Frame) /\ Len(Contents) = Occupied
      /\ \A i \in 1 .. Occupied : Contents[i] = slots[SlotOf(read + i - 1)]
  BY <1>0, SMT DEF Contents, PublishedIntact
<1>2. ASSUME pushing # "idle", write' = write, read' = read,
             NEW bytes, slots' = [slots EXCEPT ![SlotOf(write)] = bytes]
      PROVE  Contents' = Contents
  <2>1. Occupied' = Occupied
    BY <1>2 DEF Occupied
  <2>2. ASSUME NEW i \in 1 .. Occupied
        PROVE  slots'[SlotOf(read + i - 1)] = slots[SlotOf(read + i - 1)]
    <3>1. SlotOf(read + i - 1) # SlotOf(write)
      BY <1>0, <1>2, SlotsDisjoint DEF Room
    <3>2. read + i - 1 \in Int
      BY <1>0, PositionsFact, SMT DEF Position
    <3>3. SlotOf(read + i - 1) \in 0 .. Capacity - 1
      BY <3>2, SlotInRange
    <3> QED
      BY <1>2, <3>1, <3>3 DEF TypeOK
  <2> QED
    BY <1>2, <2>1, <2>2 DEF Contents
<1>2a. UNCHANGED <<write, read, slots>> => Contents' = Contents
  BY DEF Contents, Occupied
<1>3. ASSUME NEW f \in Frame, TryPush(f) PROVE UNCHANGED Queue!vars
  BY <1>2a, <1>3 DEF TryPush, Queue!vars
<1>4. CASE CopyBegin
  BY <1>2, <1>4 DEF CopyBegin, Queue!vars
<1>5. CASE CopyEnd
  BY <1>2, <1>5 DEF CopyEnd, Queue!vars
<1>6. CASE PublishWrite
  <2>1. Occupied' = Occupied + 1 /\ Occupied < Capacity
    BY <1>0, <1>6, GapPush DEF PublishWrite, Room
  <2>2. frame \in Frame /\ slots[SlotOf(read + Occupied)] = frame
    BY <1>0, <1>6, SlotOfWrite DEF PublishWrite, Written, TypeOK
  <2>3. Contents' = [i \in 1 .. Occupied + 1 |-> slots[SlotOf(read + i - 1)]]
    BY <1>6, <2>1 DEF Contents, PublishWrite
  <2>4. read + (Occupied + 1) - 1 = read + Occupied
    BY <1>0, PositionsFact, SMT DEF Position
  <2>5. /\ Append(Contents, frame) \in Seq(Frame)
        /\ Len(Append(Contents, frame)) = Occupied + 1
        /\ \A i \in 1 .. Occupied : Append(Contents, frame)[i] = Contents[i]
        /\ Append(Contents, frame)[Occupied + 1] = frame
    BY <1>1, <2>2, AppendProperties, SMT
  <2>6. /\ Contents' \in Seq(Frame) /\ Len(Contents') = Occupied + 1
        /\ \A i \in 1 .. Occupied + 1 : Contents'[i] = slots[SlotOf(read + i - 1)]
    BY <1>0, <1>6, <2>1, <2>3, SMT DEF PublishedIntact, PublishWrite
  <2>7. Contents' = Append(Contents, frame)
    <3>1. ASSUME NEW i \in 1 .. Occupied + 1 PROVE Contents'[i] = Append(Contents, frame)[i]
      <4>1. CASE i = Occupied + 1
        BY <2>2, <2>4, <2>5, <2>6, <4>1
      <4>2. CASE i # Occupied + 1
        <5>1. i \in 1 .. Occupied
          BY <1>0, <4>2, SMT
        <5> QED
          BY <1>1, <2>5, <2>6, <5>1
      <4> QED
        BY <4>1, <4>2
    <3> QED
      BY <2>5, <2>6, <3>1, SeqEqual
  <2> QED
    BY <1>1, <1>6, <2>1, <2>2, <2>7 DEF Queue!Next, Queue!Push, PublishWrite
<1>7. CASE Front
  BY <1>2a, <1>7 DEF Front, Queue!vars
<1>8. CASE ReadBytes
  <2>1. Contents' = Contents /\ view = NoFrame
    BY <1>2a, <1>8 DEF ReadBytes, ViewHeld
  <2>2. Occupied >= 1 /\ read + 1 - 1 = read
    BY <1>0, <1>8, GapPop, PositionsFact, SMT DEF ReadBytes, ViewStable, Position
  <2>3. Contents # <<>> /\ Head(Contents) = slots[SlotOf(read)]
    BY <1>0, <1>1, <2>2, SMT
  <2> QED
    BY <1>8, <2>1, <2>3 DEF Queue!Next, Queue!Front, ReadBytes
<1>9. CASE Pop
  <2>1. Occupied' = Occupied - 1 /\ Occupied >= 1
    BY <1>0, <1>9, GapPop DEF Pop
  <2>2. Contents' = [i \in 1 .. Occupied - 1 |-> slots[SlotOf(Advance(read) + i - 1)]]
    BY <1>9, <2>1 DEF Contents, Pop
  <2>3. ASSUME NEW i \in 1 .. Occupied - 1
        PROVE  slots[SlotOf(Advance(read) + i - 1)] = Contents[i + 1]
    <3>1. i - 1 \in Int /\ Advance(read) + i - 1 = Advance(read) + (i - 1)
      BY <1>0, AdvanceCases, PositionsFact, SMT DEF Position
    <3>2. SlotOf(Advance(read) + (i - 1)) = SlotOf(read + 1 + (i - 1))
      BY <1>0, <3>1, AdvanceSlot
    <3>3. read + 1 + (i - 1) = read + (i + 1) - 1 /\ i + 1 \in 1 .. Occupied
      BY <1>0, PositionsFact, SMT DEF Position
    <3> QED
      BY <1>1, <3>1, <3>2, <3>3
  <2>4. Contents' = Tail(Contents)
    <3>1. Contents # <<>>
      BY <1>0, <1>1, <2>1, SMT
    <3>2. /\ Tail(Contents) \in Seq(Frame) /\ Len(Tail(Contents)) = Occupied - 1
          /\ \A i \in 1 .. Occupied - 1 : Tail(Contents)[i] = Contents[i + 1]
      BY <1>1, <3>1, HeadTailProperties
    <3>3. /\ Contents' \in Seq(Frame) /\ Len(Contents') = Occupied - 1
          /\ \A i \in 1 .. Occupied - 1 : Contents'[i] = slots[SlotOf(Advance(read) + i - 1)]
      BY <1>0, <1>9, <2>1, <2>2, SMT DEF PublishedIntact, Pop
    <3> QED
      BY <2>3, <3>2, <3>3, SeqEqual
  <2>5. view # NoFrame /\ view' = NoFrame
    BY <1>9 DEF Pop, ViewHeld
  <2> QED
    BY <2>4, <2>5 DEF Queue!Next, Queue!Pop
<1>10. CASE UNCHANGED vars
  BY <1>2a, <1>10 DEF vars, Queue!vars
<1> QED
  BY <1>3, <1>4, <1>5, <1>6, <1>7, <1>8, <1>9, <1>10 DEF Next, Producer, Consumer

\* The ring implements the bounded queue: nothing pushed is lost, duplicated,
\* reordered or torn, and no more than Capacity frames are stored.
THEOREM RingImplementsQueue == Spec => ImplementsQueue
<1>1. Init => Queue!Init
  <2> SUFFICES ASSUME Init PROVE Queue!Init
    OBVIOUS
  <2>1. 0 \in Position /\ Gap(0, 0) = 0
    BY PositionsFact, CapacityAssumption, GapCases, SMT DEF Position
  <2>2. Occupied = 0
    BY <2>1 DEF Init, Occupied, Gap
  <2> QED
    BY <2>2, SMT DEF Init, Queue!Init, Contents
<1>2. RingInv /\ RingInv' /\ [Next]_vars => [Queue!Next]_(Queue!vars)
  BY QueueStep
<1> QED
  BY <1>1, <1>2, RingInvariant, PTL DEF Spec, ImplementsQueue, Queue!Spec

-----------------------------------------------------------------------------
(* The rich context gate. *)

\* The values of the variables.
Relations == {"unknown", "matching", "foreign"}
Counts == [kept : Int, dropped : Int, matching : Int, foreign : Int, unknown : Int]
Places ==
  {"outside", "latching", "writing", "stored", "gating", "recording", "opening", "ended"}

\* A vCPU that owns the latch, and one between block entry and its relation.
Owning == {"writing", "stored"}
Entering == {"latching", "writing", "stored", "gating", "recording"}

\* The variables that the accounting depends on have their types.
FilterTypeOK ==
  /\ policy \in {"drop", "keep"}
  /\ latch \in {"waiting", "writing", "known"}
  /\ place \in [Source -> Places]
  /\ recording \in [Source -> BOOLEAN] /\ admitting \in [Source -> BOOLEAN]
  /\ relation \in [Source -> Relations]
  /\ cr3 \in [Source -> Nat]
  /\ total \in [Source -> Int] /\ base \in [Source -> Int] /\ forwarded \in [Source -> Int]
  /\ counts \in [Source -> Counts]

\* One vCPU at most writes the latch, and nobody records before it is published.
GateInv ==
  /\ \A s \in Source : place[s] \in Owning => latch = "writing"
  /\ \A s \in Source : place[s] \in {"gating", "recording", "opening"} => latch = "known"
  /\ \A s, t \in Source : place[s] \in Owning /\ place[t] \in Owning => s = t
  /\ capture = "running" => latch = "known"

\* Block entry has accounted everything before it.  After it, a vCPU that records
\* has the relation of the root it entered with, and the admission that follows.
DecisionInv ==
  \A s \in Source :
    /\ place[s] \in Entering => recording[s] /\ total[s] = base[s]
    /\ recording[s] /\ place[s] \notin Entering =>
         /\ latch = "known"
         /\ relation[s] = IF PagingRoot(cr3[s]) = gate.root THEN "matching" ELSE "foreign"
         /\ admitting[s] <=> Admits(relation[s])

\* The inductive invariant.
FilterInv == FilterTypeOK /\ GateInv /\ DecisionInv /\ AccountingExact
-----------------------------------------------------------------------------
(* Accounting. *)

\* account adds to the kept accesses exactly those of an admitted relation.
LEMMA AccountFact ==
  ASSUME NEW c \in Counts, NEW r \in Relations, NEW n \in Int
  PROVE  /\ Account(c, r, n) \in Counts
         /\ Account(c, r, n).kept = c.kept + (IF Admits(r) THEN n ELSE 0)
         /\ r # "unknown" => Account(c, r, n).unknown = c.unknown
<1> DEFINE related == [c EXCEPT ![r] = @ + n]
<1>1. related \in Counts /\ related.kept = c.kept
  <2>1. CASE r = "unknown"
    <3>1. related = [c EXCEPT !.unknown = @ + n]
      BY <2>1
    <3> QED
      BY <3>1, SMT DEF Counts
  <2>2. CASE r = "matching"
    <3>1. related = [c EXCEPT !.matching = @ + n]
      BY <2>2
    <3> QED
      BY <3>1, SMT DEF Counts
  <2>3. CASE r = "foreign"
    <3>1. related = [c EXCEPT !.foreign = @ + n]
      BY <2>3
    <3> QED
      BY <3>1, SMT DEF Counts
  <2> QED
    BY <2>1, <2>2, <2>3 DEF Relations
<1>2. r # "unknown" => related.unknown = c.unknown
  <2>1. CASE r = "matching"
    BY <2>1 DEF Counts
  <2>2. CASE r = "foreign"
    BY <2>2 DEF Counts
  <2> QED
    BY <2>1, <2>2 DEF Relations
<1>3. Account(c, r, n) = IF Admits(r) THEN [related EXCEPT !.kept = @ + n]
                                      ELSE [related EXCEPT !.dropped = @ + n]
  BY DEF Account
<1> HIDE DEF related
<1> QED
  BY <1>1, <1>2, <1>3, SMT DEF Counts

\* account_filter_memory turns what the current block forwarded into kept accesses
\* and leaves nothing pending.
LEMMA AccountStep ==
  ASSUME FilterInv, NEW s \in Source, place[s] = "outside", AccountMemory(s)
  PROVE  /\ counts' \in [Source -> Counts] /\ base' \in [Source -> Int]
         /\ total' = total /\ forwarded' = forwarded
         /\ counts'[s].kept = forwarded[s] /\ counts'[s].unknown = 0
         /\ latch # "known" => counts'[s] = NoCounts
         /\ base'[s] = total[s]
         /\ \A t \in Source : t # s => counts'[t] = counts[t] /\ base'[t] = base[t]
<1> DEFINE n == total[s] - base[s]
           v == Accounted(s)
<1>1. /\ counts \in [Source -> Counts] /\ base \in [Source -> Int] /\ total[s] \in Int
      /\ counts[s] \in Counts /\ relation[s] \in Relations /\ n \in Int
      /\ forwarded[s] \in Int /\ total \in [Source -> Int]
  BY SMT DEF FilterInv, FilterTypeOK
<1>2. forwarded[s] = counts[s].kept + (IF recording[s] /\ Admits(relation[s]) THEN n ELSE 0)
      /\ counts[s].unknown = 0 /\ (latch # "known" => counts[s] = NoCounts)
  BY DEF FilterInv, AccountingExact
<1>3. recording[s] => relation[s] # "unknown" /\ latch = "known"
  BY DEF FilterInv, DecisionInv, Entering
<1>4. /\ counts' = [counts EXCEPT ![s] = v] /\ base' = [base EXCEPT ![s] = total[s]]
      /\ total' = total /\ forwarded' = forwarded
  BY DEF AccountMemory
<1>5. v = IF recording[s] THEN Account(counts[s], relation[s], n) ELSE counts[s]
  BY DEF Accounted
<1> HIDE DEF n, v
<1>6. /\ v \in Counts /\ v.kept = forwarded[s] /\ v.unknown = 0
      /\ latch # "known" => v = NoCounts
  <2>1. CASE recording[s]
    <3>1. /\ Account(counts[s], relation[s], n) \in Counts
          /\ Account(counts[s], relation[s], n).kept
               = counts[s].kept + (IF Admits(relation[s]) THEN n ELSE 0)
          /\ Account(counts[s], relation[s], n).unknown = counts[s].unknown
      BY <1>1, <1>3, <2>1, AccountFact
    <3> QED
      BY <1>2, <1>3, <1>5, <2>1, <3>1
  <2>2. CASE ~ recording[s]
    BY <1>1, <1>2, <1>5, <2>2, SMT DEF Counts
  <2> QED
    BY <2>1, <2>2
<1> QED
  BY <1>1, <1>4, <1>6
\* After the accounting of a vCPU, whether it records makes no difference.
LEMMA AccountedExact ==
  ASSUME FilterInv, NEW s \in Source, place[s] = "outside", AccountMemory(s),
         UNCHANGED <<gateVars, relation>>,
         \A t \in Source : t # s => recording'[t] = recording[t]
  PROVE  AccountingExact'
<1>1. /\ total' = total /\ forwarded' = forwarded
      /\ counts'[s].kept = forwarded[s] /\ counts'[s].unknown = 0 /\ base'[s] = total[s]
      /\ latch # "known" => counts'[s] = NoCounts
      /\ \A t \in Source : t # s => counts'[t] = counts[t] /\ base'[t] = base[t]
  BY AccountStep
<1>2. total[s] \in Int /\ forwarded[s] \in Int
  BY DEF FilterInv, FilterTypeOK
<1>3. /\ policy' = policy /\ latch' = latch /\ capture' = capture /\ relation' = relation
      /\ AccountingExact
  BY DEF gateVars, FilterInv
<1>4. ASSUME NEW t \in Source
      PROVE  /\ forwarded'[t] = counts'[t].kept
                  + (IF recording'[t] /\ Admits(relation[t]) THEN total'[t] - base'[t] ELSE 0)
             /\ counts'[t].unknown = 0
             /\ latch # "known" => counts'[t] = NoCounts /\ forwarded'[t] = 0
  <2>1. CASE t = s
    BY <1>1, <1>2, <1>3, <2>1, SMT DEF AccountingExact
  <2>2. CASE t # s
    BY <1>1, <1>3, <2>2 DEF AccountingExact
  <2> QED
    BY <2>1, <2>2
<1>5. \A r : Admits(r)' <=> Admits(r)
  BY <1>3 DEF Admits
<1> QED
  BY <1>3, <1>4, <1>5 DEF AccountingExact, Admits

-----------------------------------------------------------------------------
(* The steps of a vCPU. *)

\* A block before the gate opened accounts what came before it.
LEMMA BeforeGateStep ==
  ASSUME FilterInv, NEW s \in Source, NEW value \in Cr3, NEW isGate \in BOOLEAN,
         BlockBeforeGate(s, isGate, value)
  PROVE  FilterInv'
<1> USE DEF FilterInv
<1>1. place[s] = "outside" /\ AccountMemory(s) /\ UNCHANGED <<gateVars, relation, admitting>>
  BY DEF BlockBeforeGate, MayEnter
<1>2. /\ recording' = [recording EXCEPT ![s] = isGate]
      /\ cr3' = [cr3 EXCEPT ![s] = IF isGate THEN value ELSE @]
      /\ place' = [place EXCEPT ![s] = IF isGate THEN "latching" ELSE @]
  BY DEF BlockBeforeGate
<1>3. value \in Nat
  BY FilterAssumption
<1>4. FilterTypeOK'
  BY <1>1, <1>2, <1>3, AccountStep DEF FilterTypeOK, Places, gateVars
<1>5. GateInv'
  BY <1>1, <1>2 DEF GateInv, FilterTypeOK, Owning, gateVars
<1>6. DecisionInv'
  BY <1>1, <1>2, AccountStep, SMT DEF DecisionInv, FilterTypeOK, Entering, gateVars, Admits
<1>7. AccountingExact'
  BY <1>1, <1>2, AccountedExact DEF FilterTypeOK
<1> QED
  BY <1>4, <1>5, <1>6, <1>7

\* A block inside the window accounts what came before it.
LEMMA EntryStep ==
  ASSUME FilterInv, NEW s \in Source, NEW value \in Cr3, BlockEntry(s, value)
  PROVE  FilterInv'
<1> USE DEF FilterInv
<1>1. /\ place[s] = "outside" /\ capture = "running" /\ AccountMemory(s)
      /\ UNCHANGED <<gateVars, relation, admitting>>
  BY DEF BlockEntry, MayEnter
<1>2. /\ recording' = [recording EXCEPT ![s] = TRUE]
      /\ cr3' = [cr3 EXCEPT ![s] = value]
      /\ place' = [place EXCEPT ![s] = "recording"]
  BY DEF BlockEntry
<1>3. value \in Nat
  BY FilterAssumption
<1>4. FilterTypeOK'
  BY <1>1, <1>2, <1>3, AccountStep DEF FilterTypeOK, Places, gateVars
<1>5. GateInv'
  BY <1>1, <1>2 DEF GateInv, FilterTypeOK, Owning, gateVars
<1>6. DecisionInv'
  BY <1>1, <1>2, AccountStep, SMT DEF DecisionInv, FilterTypeOK, Entering, gateVars, Admits
<1>7. AccountingExact'
  BY <1>1, <1>2, AccountedExact DEF FilterTypeOK
<1> QED
  BY <1>4, <1>5, <1>6, <1>7

\* The latch has one winner, and the others leave the window.
LEMMA LatchBeginStep ==
  ASSUME FilterInv, NEW s \in Source, LatchBegin(s)
  PROVE  FilterInv'
<1> USE DEF FilterInv
<1>1. /\ place[s] = "latching"
      /\ UNCHANGED <<policy, gate, capture, accountVars, cr3, relation, admitting>>
  BY DEF LatchBegin
<1>2. \/ /\ latch = "waiting" /\ latch' = "writing" /\ recording' = recording
         /\ place' = [place EXCEPT ![s] = "writing"]
      \/ /\ latch' = latch /\ recording' = [recording EXCEPT ![s] = FALSE]
         /\ place' = [place EXCEPT ![s] = "outside"]
  BY DEF LatchBegin
<1>3. FilterTypeOK'
  BY <1>1, <1>2 DEF FilterTypeOK, Places, accountVars
<1>4. GateInv'
  BY <1>1, <1>2 DEF GateInv, FilterTypeOK, Owning
<1>5. DecisionInv'
  BY <1>1, <1>2, SMT DEF DecisionInv, FilterTypeOK, Entering, accountVars, Admits
<1>6. recording[s] /\ total[s] = base[s]
  BY <1>1 DEF DecisionInv, Entering
<1>7. AccountingExact'
  BY <1>1, <1>2, <1>6, SMT DEF AccountingExact, FilterTypeOK, Counts, accountVars, Admits
<1> QED
  BY <1>3, <1>4, <1>5, <1>7

\* Only the winner writes the gate, before it is published.
LEMMA LatchStoreStep ==
  ASSUME FilterInv, NEW s \in Source, LatchStore(s)
  PROVE  FilterInv'
<1> USE DEF FilterInv
<1>1. /\ place[s] = "writing" /\ place' = [place EXCEPT ![s] = "stored"]
      /\ UNCHANGED <<policy, latch, capture, accountVars, sourceVars>>
  BY DEF LatchStore
<1>2. FilterTypeOK'
  BY <1>1 DEF FilterTypeOK, Places, accountVars, sourceVars
<1>3. GateInv'
  BY <1>1 DEF GateInv, FilterTypeOK, Owning
<1>4. latch # "known"
  BY <1>1 DEF GateInv, Owning
<1>5. DecisionInv'
  BY <1>1, <1>4 DEF DecisionInv, FilterTypeOK, Entering, accountVars, sourceVars, Admits
<1>6. AccountingExact'
  BY <1>1 DEF AccountingExact, accountVars, sourceVars, Admits
<1> QED
  BY <1>2, <1>3, <1>5, <1>6

\* The publication settles the gate.
LEMMA LatchPublishStep ==
  ASSUME FilterInv, NEW s \in Source, LatchPublish(s)
  PROVE  FilterInv'
<1> USE DEF FilterInv
<1>1. /\ place[s] = "stored" /\ place' = [place EXCEPT ![s] = "gating"] /\ latch' = "known"
      /\ UNCHANGED <<policy, gate, capture, accountVars, sourceVars>>
  BY DEF LatchPublish
<1>2. FilterTypeOK'
  BY <1>1 DEF FilterTypeOK, Places, accountVars, sourceVars
<1>3. GateInv'
  BY <1>1 DEF GateInv, FilterTypeOK, Owning
<1>4. DecisionInv'
  BY <1>1 DEF DecisionInv, FilterTypeOK, Entering, accountVars, sourceVars, Admits
<1>5. AccountingExact'
  BY <1>1 DEF AccountingExact, accountVars, sourceVars, Admits
<1> QED
  BY <1>2, <1>3, <1>4, <1>5

\* record_block decides with the published gate while nothing is pending.
LEMMA RecordStep ==
  ASSUME FilterInv, NEW s \in Source, Record(s)
  PROVE  FilterInv'
<1> USE DEF FilterInv
<1> DEFINE r == Relation(cr3[s])
           a == Admits(r)
           p == IF place[s] = "gating" THEN "opening" ELSE "outside"
<1>1. /\ place[s] \in {"recording", "gating"} /\ UNCHANGED <<gateVars, accountVars, cr3, recording>>
      /\ relation' = [relation EXCEPT ![s] = r]
      /\ admitting' = [admitting EXCEPT ![s] = a]
      /\ place' = [place EXCEPT ![s] = p]
  BY DEF Record, FilterTypeOK
<1>2. latch = "known" /\ recording[s] /\ total[s] = base[s]
  BY <1>1 DEF GateInv, DecisionInv, Entering
<1>3. /\ r = IF PagingRoot(cr3[s]) = gate.root THEN "matching" ELSE "foreign"
      /\ r \in Relations
  BY <1>2 DEF Relation, Relations
<1>4. a \in BOOLEAN /\ (a <=> r = "matching" \/ policy = "keep")
  BY DEF Admits
<1>5. p \in {"opening", "outside"}
  OBVIOUS
<1> HIDE DEF r, a, p
<1>6. FilterTypeOK'
  <2>1. admitting' \in [Source -> BOOLEAN]
    BY <1>1, <1>4 DEF FilterTypeOK
  <2> QED
    BY <1>1, <1>3, <1>5, <2>1 DEF FilterTypeOK, Places, gateVars, accountVars
<1>7. GateInv'
  BY <1>1, <1>2, <1>5 DEF GateInv, FilterTypeOK, Owning, gateVars
<1>8. DecisionInv'
  <2> SUFFICES ASSUME NEW t \in Source
               PROVE  /\ place'[t] \in Entering => recording[t] /\ total[t] = base[t]
                      /\ recording[t] /\ place'[t] \notin Entering =>
                           /\ latch = "known"
                           /\ relation'[t] = IF PagingRoot(cr3[t]) = gate.root
                                             THEN "matching" ELSE "foreign"
                           /\ admitting'[t] <=> (relation'[t] = "matching" \/ policy = "keep")
    BY <1>1 DEF DecisionInv, gateVars, accountVars, Admits, PagingRoot
  <2>1. CASE t = s
    <3>1. place'[s] = p /\ relation'[s] = r /\ admitting'[s] = a
      BY <1>1 DEF FilterTypeOK
    <3> QED
      BY <1>2, <1>3, <1>4, <1>5, <2>1, <3>1 DEF Entering
  <2>2. CASE t # s
    <3>1. place'[t] = place[t] /\ relation'[t] = relation[t] /\ admitting'[t] = admitting[t]
      BY <1>1, <2>2 DEF FilterTypeOK
    <3> QED
      BY <3>1 DEF DecisionInv, Admits
  <2> QED
    BY <2>1, <2>2
<1>9. AccountingExact'
  BY <1>1, <1>2, SMT DEF AccountingExact, FilterTypeOK, Counts, gateVars, accountVars, Admits
<1> QED
  BY <1>6, <1>7, <1>8, <1>9

\* The window opens for every vCPU after the gate is published.
LEMMA OpenStep ==
  ASSUME FilterInv, NEW s \in Source, OpenCapture(s)
  PROVE  FilterInv'
<1> USE DEF FilterInv
<1>1. /\ place[s] = "opening" /\ place' = [place EXCEPT ![s] = "outside"]
      /\ UNCHANGED <<policy, latch, gate, accountVars, sourceVars>>
  BY DEF OpenCapture
<1>2. latch = "known"
  BY <1>1 DEF GateInv
<1>3. FilterTypeOK'
  BY <1>1 DEF FilterTypeOK, Places, accountVars, sourceVars
<1>4. GateInv'
  BY <1>1, <1>2 DEF GateInv, FilterTypeOK, Owning
<1>5. DecisionInv'
  BY <1>1 DEF DecisionInv, FilterTypeOK, Entering, accountVars, sourceVars, Admits
<1>6. AccountingExact'
  BY <1>1, <1>2 DEF AccountingExact, accountVars, sourceVars, Admits
<1> QED
  BY <1>3, <1>4, <1>5, <1>6

\* The inline counter and the conditional callback agree on an access.
LEMMA AccessStep ==
  ASSUME FilterInv, NEW s \in Source, MemoryAccess(s)
  PROVE  FilterInv'
<1> USE DEF FilterInv
<1>1. /\ place[s] = "outside" /\ total' = [total EXCEPT ![s] = @ + 1]
      /\ UNCHANGED <<gateVars, place, base, counts, sourceVars>>
  BY DEF MemoryAccess, MayEnter
<1>2. forwarded' = IF admitting[s] /\ recording[s] THEN [forwarded EXCEPT ![s] = @ + 1]
                                                   ELSE forwarded
  BY DEF MemoryAccess
<1>3. FilterTypeOK'
  BY <1>1, <1>2, SMT DEF FilterTypeOK, gateVars, sourceVars
<1>4. GateInv'
  BY <1>1 DEF GateInv, gateVars
<1>5. DecisionInv'
  BY <1>1 DEF DecisionInv, FilterTypeOK, Entering, gateVars, sourceVars, Admits
<1>6. recording[s] => (admitting[s] <=> Admits(relation[s])) /\ latch = "known"
  BY <1>1 DEF DecisionInv, Entering
<1>7. AccountingExact'
  <2>1. /\ UNCHANGED <<policy, latch, capture, recording, relation, base, counts>>
        /\ AccountingExact
    BY <1>1 DEF gateVars, sourceVars
  <2>2. ASSUME NEW t \in Source
        PROVE  /\ forwarded'[t] = counts[t].kept
                    + (IF recording[t] /\ Admits(relation[t]) THEN total'[t] - base[t] ELSE 0)
               /\ latch # "known" => forwarded'[t] = 0
    <3>1. /\ total[t] \in Int /\ base[t] \in Int /\ forwarded[t] \in Int /\ counts[t].kept \in Int
      BY DEF FilterTypeOK, Counts
    <3>2. CASE t = s
      <4>1. /\ total'[s] = total[s] + 1
            /\ forwarded'[s] = IF recording[s] /\ Admits(relation[s]) THEN forwarded[s] + 1
                                                                      ELSE forwarded[s]
        BY <1>1, <1>2, <1>6 DEF FilterTypeOK
      <4> QED
        BY <1>6, <2>1, <3>1, <3>2, <4>1, SMT DEF AccountingExact
    <3>3. CASE t # s
      <4>1. total'[t] = total[t] /\ forwarded'[t] = forwarded[t]
        BY <1>1, <1>2, <3>3 DEF FilterTypeOK
      <4> QED
        BY <2>1, <4>1 DEF AccountingExact
    <3> QED
      BY <3>2, <3>3
  <2> QED
    BY <2>1, <2>2 DEF AccountingExact, Admits
<1> QED
  BY <1>3, <1>4, <1>5, <1>7

\* The end of a vCPU accounts its last block, in source_end and in finish.
LEMMA EndStep ==
  ASSUME FilterInv, NEW s \in Source, place[s] = "outside", AccountMemory(s),
         place' = [place EXCEPT ![s] = "ended"],
         UNCHANGED <<gateVars, cr3, recording, relation, admitting>>
  PROVE  FilterInv'
<1> USE DEF FilterInv
<1>1. FilterTypeOK'
  BY AccountStep DEF FilterTypeOK, Places, gateVars
<1>2. GateInv'
  BY DEF GateInv, FilterTypeOK, Owning, gateVars
<1>3. DecisionInv'
  BY AccountStep, SMT DEF DecisionInv, FilterTypeOK, Entering, gateVars, Admits
<1>4. AccountingExact'
  BY AccountedExact
<1> QED
  BY <1>1, <1>2, <1>3, <1>4

\* Every step keeps the invariant.
LEMMA FilterStep ==
  ASSUME FilterInv, [FilterNext]_filterVars
  PROVE  FilterInv'
<1>1. ASSUME NEW s \in Source, FilterVcpu(s) PROVE FilterInv'
  <2>1. ASSUME NEW value \in Cr3, SourceEnd(s, value) PROVE FilterInv'
    BY <2>1, EndStep DEF SourceEnd, MayEnter
  <2> QED
    BY <1>1, <2>1, BeforeGateStep, EntryStep, LatchBeginStep, LatchStoreStep, LatchPublishStep,
       RecordStep, OpenStep, AccessStep DEF FilterVcpu
<1>2. ASSUME NEW s \in Source, FinishSource(s) PROVE FilterInv'
  BY <1>2, EndStep DEF FinishSource, sourceVars
<1>3. ASSUME UNCHANGED <<gateVars, place, accountVars, sourceVars>> PROVE FilterInv'
  <2>1. FilterTypeOK'
    BY <1>3 DEF FilterInv, FilterTypeOK, gateVars, accountVars, sourceVars
  <2>2. GateInv'
    BY <1>3 DEF FilterInv, GateInv, gateVars
  <2>3. DecisionInv'
    BY <1>3 DEF FilterInv, DecisionInv, gateVars, accountVars, sourceVars, Admits
  <2>4. AccountingExact'
    BY <1>3 DEF FilterInv, AccountingExact, gateVars, accountVars, sourceVars, Admits
  <2> QED
    BY <2>1, <2>2, <2>3, <2>4 DEF FilterInv
<1>4. CASE FilterFinishBegin \/ FilterFinishComplete \/ FilterExited \/ UNCHANGED filterVars
  BY <1>3, <1>4 DEF FilterFinishBegin, FilterFinishComplete, FilterExited, filterVars
<1> QED
  BY <1>1, <1>2, <1>4 DEF FilterNext

\* A published gate stays, and an access is forwarded only under the keep policy or
\* inside a block entered with the latched root.
LEMMA ForwardStep ==
  ASSUME FilterInv, [FilterNext]_filterVars
  PROVE  /\ latch = "known" => latch' = latch /\ gate' = gate
         /\ \A s \in Source : forwarded'[s] # forwarded[s] =>
              policy = "keep" \/ PagingRoot(cr3[s]) = gate.root
<1> USE DEF FilterInv
<1>1. ASSUME NEW s \in Source, MemoryAccess(s), NEW t \in Source, forwarded'[t] # forwarded[t]
      PROVE  policy = "keep" \/ PagingRoot(cr3[t]) = gate.root
  <2>1. t = s /\ admitting[s] /\ recording[s] /\ place[s] = "outside"
    BY <1>1 DEF MemoryAccess, MayEnter, FilterTypeOK
  <2>2. Admits(relation[s]) /\ (relation[s] = IF PagingRoot(cr3[s]) = gate.root
                                              THEN "matching" ELSE "foreign")
    BY <2>1 DEF DecisionInv, Entering
  <2> QED
    BY <2>1, <2>2 DEF Admits
<1>2. ASSUME NEW s \in Source, MemoryAccess(s) PROVE UNCHANGED <<latch, gate>>
  BY <1>2 DEF MemoryAccess, gateVars
<1>3. ASSUME NEW s \in Source, LatchBegin(s) \/ LatchStore(s) \/ LatchPublish(s)
      PROVE  forwarded' = forwarded /\ (latch = "known" => latch' = latch /\ gate' = gate)
  BY <1>3 DEF LatchBegin, LatchStore, LatchPublish, accountVars, GateInv, Owning
<1>4. ASSUME NEW s \in Source,
             \/ \E value \in Cr3 : BlockEntry(s, value) \/ SourceEnd(s, value)
             \/ \E value \in Cr3, isGate \in BOOLEAN : BlockBeforeGate(s, isGate, value)
             \/ Record(s) \/ OpenCapture(s) \/ FinishSource(s)
      PROVE  UNCHANGED <<forwarded, latch, gate>>
  BY <1>4 DEF BlockEntry, SourceEnd, BlockBeforeGate, Record, OpenCapture, FinishSource,
     AccountMemory, gateVars, accountVars
<1>5. CASE FilterFinishBegin \/ FilterFinishComplete \/ FilterExited \/ UNCHANGED filterVars
  BY <1>5 DEF FilterFinishBegin, FilterFinishComplete, FilterExited, filterVars, gateVars,
     accountVars
<1>6. ASSUME NEW s \in Source, FilterVcpu(s) \/ FinishSource(s)
      PROVE  \/ MemoryAccess(s)
             \/ forwarded' = forwarded /\ (latch = "known" => latch' = latch /\ gate' = gate)
  BY <1>3, <1>4, <1>6 DEF FilterVcpu
<1> QED
  BY <1>1, <1>2, <1>5, <1>6 DEF FilterNext

-----------------------------------------------------------------------------
(* The theorems. *)

\* The inductive invariant holds of every reachable state.
THEOREM FilterInvariance == FilterSpec => []FilterInv
<1>1. FilterInit => FilterInv
  <2> SUFFICES ASSUME FilterInit PROVE FilterInv
    OBVIOUS
  <2>1. FilterTypeOK
    BY SMT DEF FilterInit, FilterTypeOK, Places, Relations, Counts, NoCounts
  <2>2. GateInv /\ DecisionInv
    BY DEF FilterInit, GateInv, DecisionInv, Owning, Entering
  <2>3. AccountingExact
    BY SMT DEF FilterInit, AccountingExact, NoCounts
  <2> QED
    BY <2>1, <2>2, <2>3 DEF FilterInv
<1>2. FilterInv /\ [FilterNext]_filterVars => FilterInv'
  BY FilterStep
<1> QED
  BY <1>1, <1>2, PTL DEF FilterSpec

\* For every number of vCPUs, page table values and accesses: each memory row that a
\* vCPU forwarded is one access accounted as kept, or one of its current block.
THEOREM AccountingCorrect == FilterSpec => []AccountingExact
<1>1. FilterInv => AccountingExact
  BY DEF FilterInv
<1> QED
  BY <1>1, FilterInvariance, PTL

\* Whichever vCPUs race for the latch, the published gate never changes, and under
\* the drop policy no access of a foreign paging root is forwarded.
THEOREM ForeignDropped == FilterSpec => ForeignNeverForwarded
<1>1. FilterInv /\ [FilterNext]_filterVars =>
        [/\ (latch = "known") => latch' = latch /\ gate' = gate
         /\ \A s \in Source : forwarded'[s] # forwarded[s] =>
              policy = "keep" \/ PagingRoot(cr3[s]) = gate.root]_filterVars
  BY ForwardStep
<1> QED
  BY <1>1, FilterInvariance, PTL DEF FilterSpec, ForeignNeverForwarded
=============================================================================
