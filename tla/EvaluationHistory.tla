--------------------------- MODULE EvaluationHistory ---------------------------
(***************************************************************************)
(* EvaluationLifecycle with two history variables, for the properties that *)
(* speak of the past of a request:                                         *)
(*                                                                         *)
(*   - overlapped: whether two requests were ever in flight at once.  What *)
(*     holds until then is what the code keeps when it serves one request  *)
(*     at a time, which is what its tests try;                             *)
(*   - window: the applicability settings that were in force for the       *)
(*     profile at some moment since a completion read its evaluation.  A   *)
(*     completion reads the exclusion tables in three calls, so it may see *)
(*     a mixture of them.                                                  *)
(***************************************************************************)
EXTENDS EvaluationLifecycle

VARIABLES overlapped, window

historyVars == <<owner, status, responses, stored, applic, req, overlapped, window>>

InFlight == {r \in Requests : ~IsIdle(r)}
Completing(r) == req[r].pc \in {"resolve", "gather"}

HistoryInit ==
  /\ Init
  /\ overlapped = FALSE
  /\ window = [r \in Requests |-> {}]

HistoryNext ==
  /\ Next
  /\ overlapped' = (overlapped \/ Cardinality(InFlight') > 1)
  /\ window' = [r \in Requests |->
       IF ~Completing(r)' THEN {}
       ELSE (IF Completing(r) THEN window[r] ELSE {})
              \union {applic'[owner'[req'[r].eval]]}]

HistorySpec == HistoryInit /\ [][HistoryNext]_historyVars

-----------------------------------------------------------------------------
ExcludedBy(c) == Excluded(c.sections, c.indicators)
RequiredBy(c) == Required(c.sections, ExcludedBy(c))

(* complete takes the sections from one reading of the tables and the KPI     *)
(* from two more, while administrators replace the setting.  Whatever mixture *)
(* it sees: it never completes an evaluation without a KPI that every setting *)
(* in force during the completion asks for; it scores every answered KPI that *)
(* none of them excludes; and it never scores a KPI that all of them exclude  *)
(* in the same way.  One that a setting excludes by its section and the next  *)
(* one by itself may be scored: both tables are read when it is not there.    *)
CompletedWithinWindow ==
  [][\A r \in Requests : Completing(r) /\ CompleteWrite(r) =>
       LET e == req[r].eval IN
       \A i \in Indicators :
         /\ (\A c \in window[r] : i \in RequiredBy(c)) => stored'[e][i] # None
         /\ (\A c \in window[r] : i \notin ExcludedBy(c)) =>
              stored'[e][i] = req[r].answers[i]
         /\ \/ \A c \in window[r] : SectionOf[i] \in c.sections
            \/ \A c \in window[r] : i \in c.indicators
            => stored'[e][i] = None]_historyVars

(* "si ya hay una evaluacion en curso para este perfil se devuelve esa en vez *)
(* de crear un duplicado": while requests do not overlap, and whichever of    *)
(* their calls fail, a profile has one open evaluation at most.               *)
SingleOpenWhileAlone == ~overlapped => SingleOpenEvaluation

(* While requests do not overlap, the persisted scores that resolveScores     *)
(* answers with are those of the responses the evaluation has.                *)
StoredFromResponsesWhileAlone == ~overlapped => StoredFromResponses

(* Until two requests overlap, every step is an operation of AtomicEvaluation  *)
(* or none: DRAFT and IN_PROGRESS are one phase, and what a request read      *)
(* before it writes might as well have been read by the write, whichever      *)
(* call fails and whatever an administrator excludes meanwhile.               *)
Phase(e) == IF ~Exists(e) THEN "absent" ELSE IF Active(e) THEN "open" ELSE "completed"
Atomic == INSTANCE AtomicEvaluation WITH
  Evaluations <- EvalIds, Owners <- Profiles, Kpis <- Indicators, Marks <- Scores,
  Null <- None, ownerOf <- owner, phase <- [e \in EvalIds |-> Phase(e)],
  answers <- responses, scores <- stored

AtomicWhileAlone ==
  Atomic!Init /\ [][overlapped' \/ Atomic!Next]_(Atomic!evaluationVars)

=============================================================================
