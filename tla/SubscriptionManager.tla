------------------------- MODULE SubscriptionManager -------------------------
(***************************************************************************)
(* The subscription reconciler of src/src/subscription_manager.cpp: the   *)
(* desired set (what the application wants) and the active set (what the  *)
(* server acknowledged), both under one mutex, and the builders that turn *)
(* their differences into batched subscribe/unsubscribe payloads.         *)
(*                                                                         *)
(* The builders take the diff under the lock and format outside it        *)
(* (lines 55-79); the payloads they return are values, so a builder is an *)
(* operator here and the application thread that calls it keeps the       *)
(* result.  std::unordered_set iteration order is unspecified, so the    *)
(* diff is enumerated in any order the build may produce.  A payload is   *)
(* the record of its action, mode and raw tokens; the formatter and the   *)
(* JSON dump are left out (they do not change which tokens are named).    *)
(***************************************************************************)
EXTENDS Integers, Sequences, SequencesExt, Batching

CONSTANTS Tokens,     \* raw instrument tokens
          BatchSizes  \* batch sizes the application may configure (0 included)

VARIABLES desired, active, mode, batch_size

smVars == <<desired, active, mode, batch_size>>

Modes == {"ltp", "quote", "full"}

(* Every enumeration order of a finite set. *)
Orders(S) == {s \in [1..Cardinality(S) -> S] : ToSet(s) = S}

(* build_subscribe_batches / build_unsubscribe_batches (lines 55-79 with  *)
(* the diffs of 106-118 and build_payload 120-130): the set of possible   *)
(* results, one per iteration order of the diff.  Only the diff is taken  *)
(* under mu_; make_batches and build_payload read batch_size_, mode_ and  *)
(* token_formatter_ after the unlock.  They are read here in the same     *)
(* state as the diff: the setters of those three members have no caller  *)
(* in src/, and the Sharder fixes them in the constructor before any      *)
(* thread starts, so no write can fall between the two reads.            *)
BuildBatches(action, diff) ==
    { [i \in DOMAIN b |-> [action |-> action, mode |-> mode, tokens |-> b[i]]] :
        b \in { make_batches(o, batch_size) : o \in Orders(diff) } }

build_subscribe_batches == BuildBatches("subscribe", desired \ active)
build_unsubscribe_batches == BuildBatches("unsubscribe", active \ desired)

Init ==
    /\ desired = {} /\ active = {}
    /\ mode = "ltp" /\ batch_size = 100

add_many(ts) == desired' = desired \cup ts /\ UNCHANGED <<active, mode, batch_size>>
add(t) == add_many({t})
remove(t) == desired' = desired \ {t} /\ UNCHANGED <<active, mode, batch_size>>
clear == desired' = {} /\ UNCHANGED <<active, mode, batch_size>>
mark_subscribed(ts) == active' = active \cup ts /\ UNCHANGED <<desired, mode, batch_size>>
mark_unsubscribed(ts) == active' = active \ ts /\ UNCHANGED <<desired, mode, batch_size>>
set_mode(m) == mode' = m /\ UNCHANGED <<desired, active, batch_size>>
(* Mutant: a zero batch size stored as given. *)
set_batch_sizeNoCoerce(n) == batch_size' = n /\ UNCHANGED <<desired, active, mode>>
set_batch_size(n) == batch_size' = Coerce(n) /\ UNCHANGED <<desired, active, mode>>

(* Any caller, any API call, in any order (every call takes the mutex,    *)
(* so each is one step).                                                  *)
Next ==
    \/ \E t \in Tokens : add(t) \/ remove(t)
    \/ \E ts \in SUBSET Tokens : add_many(ts) \/ mark_subscribed(ts) \/ mark_unsubscribed(ts)
    \/ clear
    \/ \E m \in Modes : set_mode(m)
    \/ \E n \in BatchSizes : set_batch_size(n)

Spec == Init /\ [][Next]_smVars

-----------------------------------------------------------------------------
TypeOK ==
    /\ desired \subseteq Tokens /\ active \subseteq Tokens
    /\ mode \in Modes /\ batch_size \in {Coerce(n) : n \in BatchSizes}

(* A result of a builder names every token of the diff exactly once, in   *)
(* ceil(|diff| / batch_size) payloads of the builder's action and the     *)
(* current mode, every payload full except possibly the last (spec.md     *)
(* 4.5 and invariants 3 and 4 of section 8: any two results of the same   *)
(* state name the same tokens).                                           *)
PartitionsDiff(results, action, diff) ==
    \A r \in results :
        /\ Len(r) = (Cardinality(diff) + batch_size - 1) \div batch_size
        /\ \A i \in DOMAIN r :
              /\ r[i].action = action /\ r[i].mode = mode
              /\ r[i].tokens # <<>>
              /\ Len(r[i].tokens) = IF i < Len(r) THEN batch_size
                                    ELSE Len(r[i].tokens)
              /\ Len(r[i].tokens) <= batch_size
        /\ FlattenSeq([i \in DOMAIN r |-> r[i].tokens]) \in Orders(diff)

BatchesPartitionDiff ==
    /\ PartitionsDiff(build_subscribe_batches, "subscribe", desired \ active)
    /\ PartitionsDiff(build_unsubscribe_batches, "unsubscribe", active \ desired)
=============================================================================
