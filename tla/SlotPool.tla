------------------------------- MODULE SlotPool -------------------------------
(***************************************************************************)
(* What a limiter of exports promises: a pool of slots and a fair line.    *)
(* Whoever finds every slot held stands in line, if there is room; a slot  *)
(* that is given back is held at once for the first in line, who is called *)
(* and arrives later; and whoever stands in line may give up.              *)
(*                                                                         *)
(* The pool is overbooked only while somebody called has not arrived: a    *)
(* newcomer finds that slot empty and takes one too, and every slot of     *)
(* the line is kept.  How a slot is handed over, with a counter, wake      *)
(* functions and timers, is the matter of ExportLimiter.                   *)
(***************************************************************************)
EXTENDS Naturals, FiniteSets, Sequences

CONSTANTS Clients, Slots, MaxLine

VARIABLES
  holders,  \* for whom a slot is held
  called,   \* those among them that have not arrived at it
  line      \* who waits for one, first come first

poolVars == <<holders, called, line>>

Outside == Clients \ (holders \union {line[i] : i \in DOMAIN line})
Without(i) == SubSeq(line, 1, i - 1) \o SubSeq(line, i + 1, Len(line))

Init == holders = {} /\ called = {} /\ line = <<>>

Acquire(c) ==
  /\ c \in Outside
  /\ Cardinality(holders) < Slots
  /\ holders' = holders \union {c}
  /\ UNCHANGED <<called, line>>

Overbook(c) ==
  /\ c \in Outside
  /\ Cardinality(holders) >= Slots
  /\ Cardinality(holders \ called) < Slots
  /\ holders' = holders \union {c}
  /\ UNCHANGED <<called, line>>

StandInLine(c) ==
  /\ c \in Outside
  /\ Cardinality(holders \ called) >= Slots
  /\ Len(line) < MaxLine
  /\ line' = Append(line, c)
  /\ UNCHANGED <<holders, called>>

GiveBack(c) ==
  /\ c \in holders \ called
  /\ line = <<>>
  /\ holders' = holders \ {c}
  /\ UNCHANGED <<called, line>>

HandOver(c) ==
  /\ c \in holders \ called
  /\ line # <<>>
  /\ holders' = (holders \ {c}) \union {Head(line)}
  /\ called' = called \union {Head(line)}
  /\ line' = Tail(line)

Arrive(c) ==
  /\ c \in called
  /\ called' = called \ {c}
  /\ UNCHANGED <<holders, line>>

GiveUp(i) ==
  /\ line' = Without(i)
  /\ UNCHANGED <<holders, called>>

Next ==
  \/ \E c \in Clients :
       Acquire(c) \/ Overbook(c) \/ StandInLine(c) \/ GiveBack(c) \/ HandOver(c) \/ Arrive(c)
  \/ \E i \in DOMAIN line : GiveUp(i)

Spec == Init /\ [][Next]_poolVars

=============================================================================
