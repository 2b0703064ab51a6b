--------------------------- MODULE AtomicEvaluation ---------------------------
(***************************************************************************)
(* What the evaluations of a tool promise to who does not see the database *)
(* calls: an evaluation is open or completed, a profile has one open       *)
(* evaluation at most, only an open one is scored, and completing takes    *)
(* its scores from the answers it has, the excluded KPI apart, and can be  *)
(* repeated.  Each operation is one step.  How the operations are made of  *)
(* calls, and what the status is meanwhile, is the matter of               *)
(* EvaluationLifecycle.                                                    *)
(***************************************************************************)
CONSTANTS Evaluations, Owners, Kpis, Marks, Null

VARIABLES
  ownerOf,  \* the profile of each evaluation
  phase,    \* "absent", "open" or "completed"
  answers,  \* the answer to each KPI, or Null
  scores    \* the answers the scores are computed from, or Null

evaluationVars == <<ownerOf, phase, answers, scores>>

Open(p) == {e \in Evaluations : ownerOf[e] = p /\ phase[e] = "open"}

Init ==
  /\ ownerOf = [e \in Evaluations |-> Null]
  /\ phase = [e \in Evaluations |-> "absent"]
  /\ answers = [e \in Evaluations |-> [k \in Kpis |-> Null]]
  /\ scores = [e \in Evaluations |-> Null]

Start(p, e) ==
  /\ phase[e] = "absent" /\ Open(p) = {}
  /\ ownerOf' = [ownerOf EXCEPT ![e] = p]
  /\ phase' = [phase EXCEPT ![e] = "open"]
  /\ UNCHANGED <<answers, scores>>

Answer(e, batch) ==
  /\ phase[e] = "open"
  /\ answers' = [answers EXCEPT ![e] =
       [k \in Kpis |-> IF k \in DOMAIN batch THEN batch[k] ELSE @[k]]]
  /\ UNCHANGED <<ownerOf, phase, scores>>

Finish(e, excluded) ==
  /\ phase[e] # "absent"
  /\ phase' = [phase EXCEPT ![e] = "completed"]
  /\ scores' = [scores EXCEPT ![e] =
       [k \in Kpis |-> IF k \in excluded THEN Null ELSE answers[e][k]]]
  /\ UNCHANGED <<ownerOf, answers>>

Batches == UNION {[ks -> Marks] : ks \in SUBSET Kpis}

Next ==
  \E e \in Evaluations :
    \/ \E p \in Owners : Start(p, e)
    \/ \E batch \in Batches : Answer(e, batch)
    \/ \E excluded \in SUBSET Kpis : Finish(e, excluded)

Spec == Init /\ [][Next]_evaluationVars

=============================================================================
