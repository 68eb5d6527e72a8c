------------------------------- MODULE Logger -------------------------------
(***************************************************************************)
(* Logger (src/src/logger.cpp) shared by the threads that log into it:   *)
(* each worker's IO thread (notify_state, connect and read errors, the     *)
(* on_state callback of sharder.cpp:110) and the application thread.       *)
(* log() tests the level without the mutex and calls emit(), which reads   *)
(* the clock, converts it with localtime_r into a local tm, then formats  *)
(* the header from std::localtime(&t) -- a pointer to one static struct  *)
(* tm of the C library, shared by every thread -- and finally writes the  *)
(* line under *mutex_.  The clock is kept in whole seconds and a line is *)
(* the record of what a property tells apart: who logged which call at    *)
(* what level, the second it read, and the second its header shows.      *)
(***************************************************************************)
EXTENDS Integers, Sequences

CONSTANTS Threads,   \* the threads sharing one Logger
          Calls,     \* log calls each thread makes
          MaxClock   \* the last second the wall clock reaches

(* enum class LogLevel {TRACE, DEBUG, INFO, WARN, ERROR}, as its ints. *)
Levels == 0..4
INFO   == 2
(* The levels src/ logs at: info, warn and error. *)
CallerLevels == {INFO, 3, 4}

VARIABLES
    level,    \* level_ (set_level has no caller in src/)
    clock,    \* system_clock::now(), in seconds
    tmbuf,    \* the static struct tm that std::localtime fills and returns
    pc,       \* where each thread is in log()/emit()
    lvl,      \* the level of each thread's current call
    t,        \* each thread's t = to_time_t(now)
    header,   \* the second each thread's header was formatted with
    made,     \* the calls each thread has made
    out       \* the lines written to *out_

vars == <<level, clock, tmbuf, pc, lvl, t, header, made, out>>

Line == [thread : Threads, call : 1..Calls, lvl : Levels, at : 0..MaxClock, shown : 0..MaxClock]

TypeOK ==
    /\ level \in Levels
    /\ clock \in 0..MaxClock /\ tmbuf \in 0..MaxClock
    /\ pc \in [Threads -> {"idle", "now", "localtime", "put_time", "write"}]
    /\ lvl \in [Threads -> Levels] /\ t \in [Threads -> 0..MaxClock]
    /\ header \in [Threads -> 0..MaxClock] /\ made \in [Threads -> 0..Calls]
    /\ out \in Seq(Line)

(* Logger::Logger: level_ INFO, nothing written yet. *)
Init ==
    /\ level = INFO
    /\ clock = 0 /\ tmbuf = 0
    /\ pc = [th \in Threads |-> "idle"]
    /\ lvl = [th \in Threads |-> INFO] /\ t = [th \in Threads |-> 0]
    /\ header = [th \in Threads |-> 0] /\ made = [th \in Threads |-> 0]
    /\ out = <<>>

(* log(lvl, msg), directly or through trace/debug/info/warn/error: a call *)
(* below level_ returns at once, any other enters emit().                 *)
Log(th, l) ==
    /\ pc[th] = "idle" /\ made[th] < Calls
    /\ IF l < level
       THEN made' = [made EXCEPT ![th] = @ + 1] /\ UNCHANGED <<pc, lvl>>
       ELSE /\ pc' = [pc EXCEPT ![th] = "now"] /\ lvl' = [lvl EXCEPT ![th] = l]
            /\ UNCHANGED made
    /\ UNCHANGED <<level, clock, tmbuf, t, header, out>>

(* emit: now(), to_time_t, the milliseconds, and localtime_r into the     *)
(* thread's own tm (which nothing reads afterwards).                       *)
Now(th) ==
    /\ pc[th] = "now"
    /\ t' = [t EXCEPT ![th] = clock]
    /\ pc' = [pc EXCEPT ![th] = "localtime"]
    /\ UNCHANGED <<level, clock, tmbuf, lvl, header, made, out>>

(* std::localtime(&t) converts into the library's one static tm. *)
LocalTime(th) ==
    /\ pc[th] = "localtime"
    /\ tmbuf' = t[th]
    /\ pc' = [pc EXCEPT ![th] = "put_time"]
    /\ UNCHANGED <<level, clock, lvl, t, header, made, out>>

(* put_time formats the header from the tm that pointer designates, *)
(* then the level's name and name_.                                   *)
PutTime(th) ==
    /\ pc[th] = "put_time"
    /\ header' = [header EXCEPT ![th] = tmbuf]
    /\ pc' = [pc EXCEPT ![th] = "write"]
    /\ UNCHANGED <<level, clock, tmbuf, lvl, t, made, out>>

(* Under *mutex_: header, payload and '\n' written and flushed, as one  *)
(* step with respect to every other writer.                             *)
Write(th) ==
    /\ pc[th] = "write"
    /\ out' = Append(out, [thread |-> th, call |-> made[th] + 1, lvl |-> lvl[th],
                           at |-> t[th], shown |-> header[th]])
    /\ made' = [made EXCEPT ![th] = @ + 1]
    /\ pc' = [pc EXCEPT ![th] = "idle"]
    /\ UNCHANGED <<level, clock, tmbuf, lvl, t, header>>

(* The wall clock advances, up to MaxClock. *)
Tick ==
    /\ clock < MaxClock
    /\ clock' = clock + 1
    /\ UNCHANGED <<level, tmbuf, pc, lvl, t, header, made, out>>

Next ==
    \/ Tick
    \/ \E th \in Threads :
         \/ \E l \in CallerLevels : Log(th, l)
         \/ Now(th) \/ LocalTime(th) \/ PutTime(th) \/ Write(th)

Spec == Init /\ [][Next]_vars

(* Every line's header shows the second its own call read from the      *)
(* clock: what emit() converts t for (localtime_r into its own tm at    *)
(* logger.cpp:49), and what std::localtime's shared buffer at line 51   *)
(* gives up when two threads log in the same instant.                    *)
LineTimeIsOwn == \A i \in 1..Len(out) : out[i].shown = out[i].at
=============================================================================
