---------------------------- MODULE IngestQueue ----------------------------
(***************************************************************************)
(* The lock-free single-producer/single-consumer ring of                  *)
(* src/src/ingest_queue.cpp, driven the way a shard drives it: the        *)
(* WebSocket read thread pushes every frame it receives and drops it when *)
(* try_push reports full (sharder.cpp on_message), and the Consumer       *)
(* thread pops in a loop (consumer.cpp run).                              *)
(*                                                                         *)
(* head_ and tail_ are size_t counters that wrap; they are kept here as   *)
(* W-bit counters (arithmetic % 2^W) so that the wrap happens within the  *)
(* bound.  Cap divides 2^W exactly as a power-of-two capacity divides     *)
(* 2^64.  Frames are numbered in the order the network delivers them;    *)
(* a slot holding Empty is a moved-from std::string.                      *)
(*                                                                         *)
(* try_push and try_pop are split at the atomic accesses: the producer    *)
(* reads tail_ and decides, writes its slot, then stores head_; the       *)
(* consumer reads head_ and decides, moves its slot out, then stores      *)
(* tail_.  acquire/release on head_ and tail_ makes each load see every   *)
(* store that precedes it, so interleaving these steps covers the         *)
(* behaviours of the build.                                                *)
(***************************************************************************)
EXTENDS Integers, Sequences, SequencesExt, Bitwise

CONSTANTS Cap,       \* capacity() = buf_.size(), a power of two >= 8
          W,         \* width in bits of head_ and tail_
          NFrames,   \* frames the network delivers in one run
          MaxClears  \* bound on clear() calls

ASSUME /\ W \in Nat \ {0}
       /\ Cap \in {2^k : k \in 3..W-1}
       /\ NFrames \in Nat /\ MaxClears \in Nat

Modulus == 2^W
Frames == 1..NFrames
Empty == 0

(* head & mask_: the slot of a counter value. *)
Slot(i) == i & (Cap - 1)

(* head - tail in size_t arithmetic. *)
Dist(h, t) == (h - t) % Modulus

VARIABLES
    buf,       \* buf_: slot -> frame
    head,      \* head_
    tail,      \* tail_
    ppc,       \* producer: "idle" | "write" | "publish"
    pHead,     \* producer's load of head_ in the current try_push
    received,  \* frames the read loop has taken off the socket
    cpc,       \* consumer: "idle" | "read" | "publish"
    cTail,     \* consumer's load of tail_ in the current try_pop
    clears,    \* clear() calls so far
    accepted,  \* history: frames try_push returned true for, in order
    dropped,   \* history: frames try_push returned false for
    popped,    \* history: frames try_pop returned, in order
    cleared    \* history: frames discarded by clear()

vars == <<buf, head, tail, ppc, pHead, received, cpc, cTail, clears,
          accepted, dropped, popped, cleared>>

Init ==
    /\ buf = [s \in 0..Cap-1 |-> Empty]
    /\ head = 0 /\ tail = 0
    /\ ppc = "idle" /\ pHead = 0 /\ received = 0
    /\ cpc = "idle" /\ cTail = 0
    /\ clears = 0
    /\ accepted = <<>> /\ dropped = {} /\ popped = <<>> /\ cleared = {}

-----------------------------------------------------------------------------
(* Producer: on_message(frame) -> try_push(std::move(msg)).               *)

(* Mutant: the full test off by one, so a push into a full ring is let   *)
(* through onto the slot the consumer reads next.                         *)
TryPushOffByOne ==
    /\ ppc = "idle"
    /\ received < NFrames
    /\ received' = received + 1
    /\ pHead' = head
    /\ \/ /\ Dist(head, tail) = Cap + 1
          /\ dropped' = dropped \cup {received + 1}
          /\ UNCHANGED ppc
       \/ /\ Dist(head, tail) # Cap + 1
          /\ ppc' = "write"
          /\ UNCHANGED dropped
    /\ UNCHANGED <<buf, head, tail, cpc, cTail, clears, accepted, popped, cleared>>

(* Lines 21-23: load head_ (own) and tail_ (acquire); full => return false *)
(* and the frame is dropped with a warning.                               *)
TryPush ==
    /\ ppc = "idle"
    /\ received < NFrames
    /\ received' = received + 1
    /\ pHead' = head
    /\ \/ /\ Dist(head, tail) = Cap
          /\ dropped' = dropped \cup {received + 1}
          /\ UNCHANGED ppc
       \/ /\ Dist(head, tail) # Cap
          /\ ppc' = "write"
          /\ UNCHANGED dropped
    /\ UNCHANGED <<buf, head, tail, cpc, cTail, clears, accepted, popped, cleared>>

(* Line 24: buf_[head & mask_] = std::move(msg). *)
PushWrite ==
    /\ ppc = "write"
    /\ buf' = [buf EXCEPT ![Slot(pHead)] = received]
    /\ ppc' = "publish"
    /\ UNCHANGED <<head, tail, pHead, received, cpc, cTail, clears,
                   accepted, dropped, popped, cleared>>

(* Line 25: head_.store(head + 1, release); try_push returns true. *)
PushPublish ==
    /\ ppc = "publish"
    /\ head' = (pHead + 1) % Modulus
    /\ accepted' = Append(accepted, received)
    /\ ppc' = "idle"
    /\ UNCHANGED <<buf, tail, pHead, received, cpc, cTail, clears,
                   dropped, popped, cleared>>

-----------------------------------------------------------------------------
(* Consumer: Consumer::run's q_.try_pop(msg).  An empty queue returns     *)
(* false and the loop yields: a step that changes nothing.                *)

(* Lines 35-37: load tail_ (own) and head_ (acquire); head == tail => empty. *)
TryPop ==
    /\ cpc = "idle"
    /\ head # tail
    /\ cTail' = tail
    /\ cpc' = "read"
    /\ UNCHANGED <<buf, head, tail, ppc, pHead, received, clears,
                   accepted, dropped, popped, cleared>>

(* Line 38: out = std::move(buf_[tail & mask_]); the slot is left empty. *)
PopRead ==
    /\ cpc = "read"
    /\ popped' = Append(popped, buf[Slot(cTail)])
    /\ buf' = [buf EXCEPT ![Slot(cTail)] = Empty]
    /\ cpc' = "publish"
    /\ UNCHANGED <<head, tail, ppc, pHead, received, cTail, clears,
                   accepted, dropped, cleared>>

(* Mutant: tail_ stored without the increment. *)
PopPublishNoAdvance ==
    /\ cpc = "publish"
    /\ tail' = cTail
    /\ cpc' = "idle"
    /\ UNCHANGED <<buf, head, ppc, pHead, received, cTail, clears,
                   accepted, dropped, popped, cleared>>

(* Line 39: tail_.store(tail + 1, release); try_pop returns true. *)
PopPublish ==
    /\ cpc = "publish"
    /\ tail' = (cTail + 1) % Modulus
    /\ cpc' = "idle"
    /\ UNCHANGED <<buf, head, ppc, pHead, received, cTail, clears,
                   accepted, dropped, popped, cleared>>

-----------------------------------------------------------------------------
(* clear(): documented as callable only while both threads are paused,    *)
(* which is its guard here.                                               *)

(* The frames between tail_ and head_ that no try_pop has taken yet. *)
Queued ==
    LET from == IF cpc = "publish" THEN (cTail + 1) % Modulus ELSE tail
    IN  [i \in 1..Dist(head, from) |-> buf[Slot(from + i - 1)]]

(* Mutant: clear() empties the slots but forgets to reset the counters. *)
ClearKeepCounters ==
    /\ ppc = "idle" /\ cpc = "idle"
    /\ clears < MaxClears
    /\ buf' = [s \in 0..Cap-1 |-> Empty]
    /\ cleared' = cleared \cup ToSet(Queued)
    /\ clears' = clears + 1
    /\ UNCHANGED <<head, tail, ppc, pHead, received, cpc, cTail, accepted, dropped, popped>>

Clear ==
    /\ ppc = "idle" /\ cpc = "idle"
    /\ clears < MaxClears
    /\ head' = 0 /\ tail' = 0
    /\ buf' = [s \in 0..Cap-1 |-> Empty]
    /\ cleared' = cleared \cup ToSet(Queued)
    /\ clears' = clears + 1
    /\ UNCHANGED <<ppc, pHead, received, cpc, cTail, accepted, dropped, popped>>

Next ==
    \/ TryPush \/ PushWrite \/ PushPublish
    \/ TryPop \/ PopRead \/ PopPublish
    \/ Clear

(* The consumer thread spins on try_pop while running_ (consumer.cpp      *)
(* 21-33), so a pop that stays possible is eventually taken.  The        *)
(* producer is not assumed to make progress: frames arrive when the peer  *)
(* sends them.  A producer that has begun try_push finishes it.           *)
Fairness ==
    /\ WF_vars(TryPop) /\ WF_vars(PopRead) /\ WF_vars(PopPublish)
    /\ WF_vars(PushWrite) /\ WF_vars(PushPublish)

Spec == Init /\ [][Next]_vars /\ Fairness

-----------------------------------------------------------------------------
TypeOK ==
    /\ buf \in [0..Cap-1 -> {Empty} \cup Frames]
    /\ head \in 0..Modulus-1 /\ tail \in 0..Modulus-1
    /\ ppc \in {"idle", "write", "publish"} /\ pHead \in 0..Modulus-1
    /\ received \in 0..NFrames
    /\ cpc \in {"idle", "read", "publish"} /\ cTail \in 0..Modulus-1
    /\ clears \in 0..MaxClears
    /\ accepted \in Seq(Frames) /\ popped \in Seq(Frames)
    /\ dropped \subseteq Frames /\ cleared \subseteq Frames

(* The producer never writes the slot the consumer is moving out of: when *)
(* both are about to touch a slot, the slots differ.  This is what the    *)
(* full test head - tail == capacity() and the acquire load of tail_      *)
(* guarantee across the wrap of the counters.                             *)
NoSlotRace ==
    (ppc = "write" /\ cpc = "read") => Slot(pHead) # Slot(cTail)

(* Frames reach the consumer in the order the network delivered them and  *)
(* none is lost or duplicated: what is still queued is exactly the        *)
(* accepted frames neither popped nor cleared, in arrival order, and      *)
(* every frame received was accepted or dropped.                          *)
FifoDelivery ==
    /\ IsSorted(popped, <)
    /\ Queued = SelectSeq(accepted,
                          LAMBDA f : f \notin ToSet(popped) \cup cleared)
    /\ ToSet(accepted) \cup dropped =
           1..(received - (IF ppc = "idle" THEN 0 ELSE 1))

(* The ring implements the bounded FIFO of spec.md 4.1: a push takes      *)
(* effect when head_ is published, a pop when the slot is moved out.      *)
Fifo == INSTANCE BoundedFifo WITH q <- Queued
FifoRefinement == Fifo!Spec
=============================================================================
