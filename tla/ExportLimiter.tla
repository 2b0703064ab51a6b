---------------------------- MODULE ExportLimiter ----------------------------
(***************************************************************************)
(* withExportSlot: the semaphore in front of the PPTX and Excel exports.   *)
(*                                                                         *)
(* A call that finds no slot leaves a wake function in a queue and waits.  *)
(* The call that ends gives its slot back and runs the first wake, which   *)
(* only resolves a promise: the woken call counts itself as running when   *)
(* its continuation gets its turn in the microtask queue.  Continuations of *)
(* other requests may come before it: one callback may settle several       *)
(* promises (a batch of database results), and each of them may ask for a   *)
(* slot, end its task or be refused first.                                 *)
(***************************************************************************)
EXTENDS Naturals, FiniteSets, Sequences

CONSTANTS
  Exports,            \* export requests
  MAX_CONCURRENT,
  MAX_QUEUED

ASSUME ExportsAssumption == IsFiniteSet(Exports)
ASSUME LimitAssumption == MAX_CONCURRENT \in Nat \ {0} /\ MAX_QUEUED \in Nat

VARIABLES
  running,  \* slots taken
  waiting,  \* the calls whose wake is queued, first come first
  state     \* where each call is

vars == <<running, waiting, state>>

-----------------------------------------------------------------------------
InState(s) == {c \in Exports : state[c] = s}
Woken == InState("woken")

Init ==
  /\ running = 0
  /\ waiting = <<>>
  /\ state = [c \in Exports |-> "out"]

(* Mutant: one task too many. *)
AskOneMore(c) ==
  /\ state[c] = "out"
  /\ running <= MAX_CONCURRENT
  /\ running' = running + 1
  /\ state' = [state EXCEPT ![c] = "running"]
  /\ UNCHANGED waiting

Ask(c) ==
  /\ state[c] = "out"
  /\ running < MAX_CONCURRENT
  /\ running' = running + 1
  /\ state' = [state EXCEPT ![c] = "running"]
  /\ UNCHANGED waiting

(* Mutant: the queue is not bounded. *)
QueueUnbounded(c) ==
  /\ state[c] = "out"
  /\ running >= MAX_CONCURRENT
  /\ waiting' = Append(waiting, c)
  /\ state' = [state EXCEPT ![c] = "waiting"]
  /\ UNCHANGED running

Queue(c) ==
  /\ state[c] = "out"
  /\ running >= MAX_CONCURRENT
  /\ Len(waiting) < MAX_QUEUED
  /\ waiting' = Append(waiting, c)
  /\ state' = [state EXCEPT ![c] = "waiting"]
  /\ UNCHANGED running

(* 503: the queue is full. *)
Refuse(c) ==
  /\ state[c] = "out"
  /\ running >= MAX_CONCURRENT
  /\ Len(waiting) >= MAX_QUEUED
  /\ UNCHANGED vars

(* Mutant: the slot is given back and nobody is told. *)
FinishSilently(c) ==
  /\ state[c] = "running"
  /\ running' = running - 1
  /\ state' = [state EXCEPT ![c] = "out"]
  /\ UNCHANGED waiting

(* The task ends, well or not, and release() runs. *)
Finish(c) ==
  /\ state[c] = "running"
  /\ running' = running - 1
  /\ IF waiting = <<>>
     THEN state' = [state EXCEPT ![c] = "out"] /\ UNCHANGED waiting
     ELSE /\ state' = [state EXCEPT ![c] = "out", ![Head(waiting)] = "woken"]
          /\ waiting' = Tail(waiting)

(* The continuation of a woken call. *)
Resume(c) ==
  /\ state[c] = "woken"
  /\ running' = running + 1
  /\ state' = [state EXCEPT ![c] = "running"]
  /\ UNCHANGED waiting

(* Thirty seconds in the queue: the wake is spliced out, the call refused     *)
(* (503).  A wake that ran has cleared the timer.                            *)
TimeOut(c) ==
  /\ state[c] = "waiting"
  /\ \E i \in DOMAIN waiting :
       /\ waiting[i] = c
       /\ waiting' = SubSeq(waiting, 1, i - 1) \o SubSeq(waiting, i + 1, Len(waiting))
  /\ state' = [state EXCEPT ![c] = "out"]
  /\ UNCHANGED running

Next ==
  \E c \in Exports :
    Ask(c) \/ Queue(c) \/ Refuse(c) \/ Finish(c) \/ Resume(c) \/ TimeOut(c)

Spec == Init /\ [][Next]_vars

(* Tasks end and the event loop runs continuations; no timer has to fire. *)
FairSpec == Spec /\ \A c \in Exports : WF_vars(Finish(c)) /\ WF_vars(Resume(c))

-----------------------------------------------------------------------------
(* Properties.                                                              *)

(* The queue is bounded and holds the waiting calls, once each; running       *)
(* counts the calls that run.                                               *)
TypeOK ==
  /\ state \in [Exports -> {"out", "waiting", "woken", "running"}]
  /\ waiting \in Seq(InState("waiting"))
  /\ Len(waiting) <= MAX_QUEUED
  /\ \A c \in InState("waiting") : \E i \in DOMAIN waiting : waiting[i] = c
  /\ \A i, j \in DOMAIN waiting : waiting[i] = waiting[j] => i = j
  /\ running = Cardinality(InState("running"))

(* No wakeup is lost: while a call waits, every slot is taken or promised to  *)
(* a call that was woken, also when calls barge in or time out.              *)
NoIdleSlot ==
  waiting # <<>> => running + Cardinality(Woken) >= MAX_CONCURRENT

(* A woken call holds the slot it was woken for, though running does not count *)
(* it yet: seen that way the counter, the queue and the timers are a pool of   *)
(* slots with a fair line.  The slot of who stood in line is never lost to a   *)
(* newcomer nor given to two; the concurrency configured is exceeded only by  *)
(* newcomers that find a woken call missing; nobody stands in line while a    *)
(* slot is free.                                                             *)
Pool == INSTANCE SlotPool WITH
          Clients <- Exports, Slots <- MAX_CONCURRENT, MaxLine <- MAX_QUEUED,
          holders <- InState("running") \union Woken, called <- Woken, line <- waiting
IsSlotPool == Pool!Spec

(* A queued call is served without any help of its timer, whoever barges in. *)
QueueDrains == \A c \in Exports : state[c] = "waiting" ~> state[c] # "waiting"

=============================================================================
