----------------------------- MODULE FrameRing ------------------------------
(***************************************************************************)
(* The single-producer single-consumer ring of frame_ring.hpp, one step per *)
(* access to memory that the other thread can observe.  The two positions   *)
(* are 64-bit counters that wrap; here they wrap at Positions, a multiple   *)
(* of Capacity as 2^64 is of every power of two.                            *)
(*                                                                         *)
(* Each position is stored with release and loaded with acquire order by    *)
(* the other thread, and the slots are touched only between such a pair, so *)
(* interleaving these steps loses no execution as long as no slot is        *)
(* accessed by both threads at once: SlotOwnership below.                   *)
(***************************************************************************)
EXTENDS Integers, Sequences

CONSTANTS
  Capacity,   \* number of slots (8 in the plugin)
  Laps,       \* how many times the slots fit into the range of a position
  Frame,      \* what a producer may push
  Torn,       \* the content of a slot while memcpy is writing it
  NoFrame     \* the consumer holds no bytes

ASSUME CapacityAssumption == Capacity \in Nat \ {0}
ASSUME LapsAssumption == Laps \in Nat /\ Laps >= 2
ASSUME FrameAssumption == Torn \notin Frame /\ NoFrame \notin Frame

VARIABLES
  write,      \* _producer.position
  read,       \* _consumer.position
  slots,      \* _slots: what the bytes of each slot currently are
  pushing,    \* the program counter of the producer inside try_push
  frame,      \* the frame try_push was called with
  taking,     \* the program counter of the consumer, front to pop
  view        \* the bytes the consumer has published from the front slot

vars == <<write, read, slots, pushing, frame, taking, view>>

Positions == Laps * Capacity

SlotOf(position) == position % Capacity

\* The next value of a position: unsigned addition wraps.
Advance(position) == (position + 1) % Positions

\* The unsigned difference write - read.
Occupied == (write - read) % Positions

\* A fault: one frame too many is let in.
FullLate == Occupied = Capacity + 1

Full == Occupied = Capacity

Init ==
  /\ write = 0
  /\ read = 0
  /\ slots = [s \in 0 .. Capacity - 1 |-> Torn]
  /\ pushing = "idle"
  /\ frame = NoFrame
  /\ taking = "idle"
  /\ view = NoFrame

-----------------------------------------------------------------------------
(* The producer.  A try_push that finds the ring full returns and changes   *)
(* nothing; its caller tries again.                                         *)

TryPush(f) ==
  /\ pushing = "idle"
  /\ ~ Full
  /\ pushing' = "admitted"
  /\ frame' = f
  /\ UNCHANGED <<write, read, slots, taking, view>>

CopyBegin ==
  /\ pushing = "admitted"
  /\ pushing' = "copying"
  /\ slots' = [slots EXCEPT ![SlotOf(write)] = Torn]
  /\ UNCHANGED <<write, read, frame, taking, view>>

CopyEnd ==
  /\ pushing = "copying"
  /\ pushing' = "copied"
  /\ slots' = [slots EXCEPT ![SlotOf(write)] = frame]
  /\ UNCHANGED <<write, read, frame, taking, view>>

\* A fault: the position is published before the copy has finished.
PublishEarly ==
  /\ pushing \in {"copying", "copied"}
  /\ pushing' = "idle"
  /\ write' = Advance(write)
  /\ frame' = NoFrame
  /\ UNCHANGED <<read, slots, taking, view>>

PublishWrite ==
  /\ pushing = "copied"
  /\ pushing' = "idle"
  /\ write' = Advance(write)
  /\ frame' = NoFrame
  /\ UNCHANGED <<read, slots, taking, view>>

-----------------------------------------------------------------------------
(* The consumer.  front returns a view of the slot, the collector publishes *)
(* the bytes behind the view, and pop releases the slot.                    *)

Front ==
  /\ taking = "idle"
  /\ read # write
  /\ taking' = "fronted"
  /\ UNCHANGED <<write, read, slots, pushing, frame, view>>

ReadBytes ==
  /\ taking = "fronted"
  /\ taking' = "published"
  /\ view' = slots[SlotOf(read)]
  /\ UNCHANGED <<write, read, slots, pushing, frame>>

\* A fault: the slot is not released.
PopKeepsSlot ==
  /\ taking = "published"
  /\ taking' = "idle"
  /\ view' = NoFrame
  /\ UNCHANGED <<write, read, slots, pushing, frame>>

Pop ==
  /\ taking = "published"
  /\ read # write
  /\ taking' = "idle"
  /\ read' = Advance(read)
  /\ view' = NoFrame
  /\ UNCHANGED <<write, slots, pushing, frame>>

Producer == (\E f \in Frame : TryPush(f)) \/ CopyBegin \/ CopyEnd \/ PublishWrite

Consumer == Front \/ ReadBytes \/ Pop

Next == Producer \/ Consumer

Spec == Init /\ [][Next]_vars

\* The collector visits every ring in each pass until it is told to stop, and
\* a producer inside try_push is a running thread.
Fairness ==
  /\ WF_vars(Consumer)
  /\ WF_vars(CopyBegin \/ CopyEnd \/ PublishWrite)

-----------------------------------------------------------------------------
TypeOK ==
  /\ write \in 0 .. Positions - 1
  /\ read \in 0 .. Positions - 1
  /\ slots \in [0 .. Capacity - 1 -> Frame \cup {Torn}]
  /\ pushing \in {"idle", "admitted", "copying", "copied"}
  /\ frame \in Frame \cup {NoFrame}
  /\ (pushing # "idle") => frame \in Frame
  /\ taking \in {"idle", "fronted", "published"}
  /\ view \in Frame \cup {NoFrame}

\* The frames between the two positions, oldest first.
Contents == [i \in 1 .. Occupied |-> slots[SlotOf(read + i - 1)]]

\* While try_push is writing a slot, that slot is none of those the consumer
\* may look at, across any number of wraparounds of the positions ("The
\* producer cannot overwrite this slot until this release is seen").
SlotOwnership ==
  (pushing # "idle") =>
    \A i \in 1 .. Occupied : SlotOf(read + i - 1) # SlotOf(write)

\* From front to pop the bytes that the consumer published are still the bytes
\* of the front slot: "the returned bytes remain owned by the consumer until
\* pop".
ViewStable ==
  /\ (taking # "idle") => read # write
  /\ (taking = "published") => view = slots[SlotOf(read)]

\* The ring implements the queue of module FrameQueue: frames come out once,
\* whole, and in the order they were pushed, and at most Capacity are stored.
Queue == INSTANCE FrameQueue WITH queue <- Contents, view <- view
ImplementsQueue == Queue!Spec

\* A full ring gains room, so a producer that spins on a full ring goes on.
FullRingDrains == Full ~> ~ Full
=============================================================================
