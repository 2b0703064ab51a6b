-------------------------- MODULE Evaluation_proofs --------------------------
(***************************************************************************)
(* Proofs about the life of an evaluation, for every value of the          *)
(* constants: first what holds of EvaluationLifecycle and its history      *)
(* variables, then what holds of the two kinds of tool that add to it      *)
(* (ActionPlan), whose steps are steps of EvaluationLifecycle.             *)
(***************************************************************************)
EXTENDS EvaluationHistory, ActionPlan, FiniteSetTheorems, TLAPS

(***************************************************************************)
(* EvaluationLifecycle and EvaluationHistory.                              *)
(***************************************************************************)

(* A request may go idle. *)
LEMMA IdleIsContinuation == Idle \in Continuations
  BY DEF Continuations

(* The label of a continuation determines the values it carries. *)
LEMMA ContinuationByLabel ==
  ASSUME TypeOK, NEW r \in Requests
  PROVE  /\ req[r].pc = "idle" => req[r] = Idle
         /\ req[r].pc = "insert" => req[r] \in Creating
         /\ req[r].pc = "persist" => req[r] \in Persisting
         /\ req[r].pc = "mark" => req[r] \in Marking
         /\ req[r].pc = "resolve" => req[r] \in Resolving
         /\ req[r].pc = "gather" => req[r] \in Gathering
  BY DEF TypeOK, Continuations, Idle, Creating, Persisting, Marking,
         Resolving, Gathering

(* Every continuation but the idle and the inserting one refers to an        *)
(* evaluation; that stays so when a request moves on and no row is removed.  *)
LEMMA TypedStep ==
  ASSUME TypeOK, NEW r \in Requests, NEW k \in Continuations, Goto(r, k),
         owner' = owner,
         k.pc \notin {"idle", "insert"} => Exists(k.eval)
  PROVE  /\ req' \in [Requests -> Continuations]
         /\ \A q \in Requests :
              ~IsIdle(q)' /\ req'[q].pc # "insert" => Exists(req[q].eval)'
  BY DEF TypeOK, Goto, IsIdle, Exists

(* No step leaves a column or a continuation without its type. *)
LEMMA TypeStep == TypeOK /\ [Next]_vars => TypeOK'
<1> SUFFICES ASSUME TypeOK, [Next]_vars PROVE TypeOK'
  OBVIOUS
<1>1. CASE UNCHANGED vars
  BY <1>1 DEF vars, TypeOK, IsIdle, Exists
<1>2. ASSUME NEW r \in Requests, NEW p \in Profiles, CreateLookup(r, p)
      PROVE TypeOK'
  <2>1. [pc |-> "insert", profile |-> p] \in Continuations
    BY DEF Continuations, Creating
  <2> QED BY <1>2, <2>1, TypedStep DEF CreateLookup, TypeOK
<1>3. ASSUME NEW r \in Requests, CreateInsert(r)
      PROVE TypeOK'
  <2>1. req[r].profile \in Profiles
    BY <1>3, ContinuationByLabel DEF CreateInsert, Creating
  <2>2. PICK e \in EvalIds :
          /\ owner' = [owner EXCEPT ![e] = req[r].profile]
          /\ status' = [status EXCEPT ![e] = "DRAFT"]
    BY <1>3 DEF CreateInsert
  <2>3. owner' \in [EvalIds -> Profiles \union {None}]
    BY <2>1, <2>2 DEF TypeOK
  <2>4. status' \in [EvalIds -> Status]
    BY <2>2 DEF Status, TypeOK
  <2>5. req' \in [Requests -> Continuations]
    BY <1>3 DEF CreateInsert, Goto, TypeOK, Continuations
  <2>6. \A q \in Requests :
          ~IsIdle(q)' /\ req'[q].pc # "insert" => Exists(req[q].eval)'
    BY <1>3, <2>1, <2>2, NoneAssumption
       DEF CreateInsert, Goto, TypeOK, IsIdle, Idle, Exists
  <2> QED BY <1>3, <2>3, <2>4, <2>5, <2>6 DEF CreateInsert, TypeOK
<1>4. ASSUME NEW r \in Requests, NEW e \in EvalIds, NEW b \in Batches,
             ScoreRead(r, e, b)
      PROVE TypeOK'
  <2>1. [pc |-> "persist", eval |-> e, seen |-> status[e], batch |-> b]
          \in Continuations
    BY DEF Continuations, Persisting, Batches, TypeOK
  <2> QED BY <1>4, <2>1, TypedStep DEF ScoreRead, TypeOK
<1>5. ASSUME NEW r \in Requests, ScorePersist(r)
      PROVE TypeOK'
  <2> DEFINE e == req[r].eval
             b == req[r].batch
             k == IF req[r].seen = "DRAFT" THEN [pc |-> "mark", eval |-> e] ELSE Idle
  <2>1. req[r] \in Persisting
    BY <1>5, ContinuationByLabel DEF ScorePersist
  <2>2. /\ e \in EvalIds
        /\ b \in UNION {[J -> Scores] : J \in SUBSET Indicators}
    BY <2>1 DEF Persisting
  <2>3. [i \in Indicators |-> IF i \in DOMAIN b THEN b[i] ELSE responses[e][i]]
          \in Answers
    BY <2>2 DEF Answers, TypeOK
  <2>4. responses' \in [EvalIds -> Answers]
    BY <1>5, <2>3 DEF ScorePersist, TypeOK
  <2>5. k \in Continuations /\ (k.pc \notin {"idle", "insert"} => k.eval = e)
    BY <2>2 DEF Continuations, Marking, Idle
  <2>6. Exists(e)
    BY <1>5 DEF ScorePersist, TypeOK, IsIdle
  <2>7. Goto(r, k) /\ UNCHANGED <<owner, status, stored, applic>>
    BY <1>5 DEF ScorePersist
  <2> HIDE DEF e, b, k
  <2> QED BY <2>4, <2>5, <2>6, <2>7, TypedStep DEF TypeOK
<1>6. ASSUME NEW r \in Requests, ScoreMark(r)
      PROVE TypeOK'
  <2>1. status' \in [EvalIds -> Status]
    BY <1>6 DEF ScoreMark, TypeOK, Status
  <2> QED BY <1>6, <2>1, TypedStep, IdleIsContinuation
          DEF ScoreMark, TypeOK, Idle
<1>7. ASSUME NEW r \in Requests, NEW e \in EvalIds, CompleteRead(r, e)
      PROVE TypeOK'
  <2>1. [pc |-> "resolve", eval |-> e, answers |-> responses[e]] \in Continuations
    BY DEF Continuations, Resolving, TypeOK
  <2> QED BY <1>7, <2>1, TypedStep DEF CompleteRead, TypeOK
<1>8. ASSUME NEW r \in Requests, CompleteSections(r)
      PROVE TypeOK'
  <2> DEFINE k == [pc |-> "gather", eval |-> req[r].eval, answers |-> req[r].answers,
                   sections |-> applic[owner[req[r].eval]].sections,
                   secRows |-> None, indRows |-> None]
  <2>1. req[r] \in Resolving /\ Exists(req[r].eval)
    BY <1>8, ContinuationByLabel DEF CompleteSections, TypeOK, IsIdle
  <2>2. applic[owner[req[r].eval]] \in Configs
    BY <2>1 DEF Resolving, Exists, TypeOK
  <2>3. k \in Continuations
    BY <2>1, <2>2, ConfigAssumption DEF Continuations, Resolving, Gathering
  <2>4. k.eval = req[r].eval /\ Goto(r, k)
        /\ UNCHANGED <<owner, status, responses, stored, applic>>
    BY <1>8 DEF CompleteSections
  <2> HIDE DEF k
  <2> QED BY <2>1, <2>3, <2>4, TypedStep DEF TypeOK
<1>9. ASSUME NEW r \in Requests, ReadSectionRows(r)
      PROVE TypeOK'
  <2> DEFINE k == [req[r] EXCEPT !.secRows = applic[owner[req[r].eval]].sections]
  <2>1. req[r] \in Gathering /\ Exists(req[r].eval)
    BY <1>9, ContinuationByLabel DEF ReadSectionRows, TypeOK, IsIdle
  <2>2. applic[owner[req[r].eval]] \in Configs
    BY <2>1 DEF Gathering, Exists, TypeOK
  <2>3. k \in Gathering
    BY <2>1, <2>2, ConfigAssumption DEF Gathering
  <2>4. k.eval = req[r].eval /\ Goto(r, k)
        /\ UNCHANGED <<owner, status, responses, stored, applic>>
    BY <1>9, <2>1 DEF ReadSectionRows, Gathering
  <2>5. k \in Continuations
    BY <2>3 DEF Continuations
  <2> HIDE DEF k
  <2> QED BY <2>1, <2>4, <2>5, TypedStep DEF TypeOK
<1>10. ASSUME NEW r \in Requests, ReadIndicatorRows(r)
       PROVE TypeOK'
  <2> DEFINE k == [req[r] EXCEPT !.indRows = applic[owner[req[r].eval]].indicators]
  <2>1. req[r] \in Gathering /\ Exists(req[r].eval)
    BY <1>10, ContinuationByLabel DEF ReadIndicatorRows, TypeOK, IsIdle
  <2>2. applic[owner[req[r].eval]] \in Configs
    BY <2>1 DEF Gathering, Exists, TypeOK
  <2>3. k \in Gathering
    BY <2>1, <2>2, ConfigAssumption DEF Gathering
  <2>4. k.eval = req[r].eval /\ Goto(r, k)
        /\ UNCHANGED <<owner, status, responses, stored, applic>>
    BY <1>10, <2>1 DEF ReadIndicatorRows, Gathering
  <2>5. k \in Continuations
    BY <2>3 DEF Continuations
  <2> HIDE DEF k
  <2> QED BY <2>1, <2>4, <2>5, TypedStep DEF TypeOK
<1>11. ASSUME NEW r \in Requests, CompleteRefuse(r) \/ Fail(r)
       PROVE TypeOK'
  BY <1>11, TypedStep, IdleIsContinuation DEF CompleteRefuse, Fail, TypeOK, Idle
<1>12. ASSUME NEW r \in Requests, CompleteWrite(r)
       PROVE TypeOK'
  <2>1. req[r] \in Gathering
    BY <1>12, ContinuationByLabel DEF CompleteWrite, Gathered
  <2>2. ScoreInputs(req[r].answers, Excluded(req[r].secRows, req[r].indRows))
          \in Answers
    BY <2>1 DEF Gathering, ScoreInputs, Answers
  <2>3. /\ status' \in [EvalIds -> Status]
        /\ stored' \in [EvalIds -> Answers \union {None}]
    BY <1>12, <2>2 DEF CompleteWrite, TypeOK, Status
  <2> QED BY <1>12, <2>3, TypedStep, IdleIsContinuation
          DEF CompleteWrite, TypeOK, Idle
<1>13. ASSUME NEW p \in Profiles, NEW c \in Configs, SetApplicability(p, c)
       PROVE TypeOK'
  BY <1>13 DEF SetApplicability, TypeOK, IsIdle, Exists
<1> QED
  BY <1>1, <1>2, <1>3, <1>4, <1>5, <1>6, <1>7, <1>8, <1>9, <1>10, <1>11, <1>12,
     <1>13 DEF Next, Create, Score, Complete

(* Type correctness: in every reachable state the columns hold values of     *)
(* their types, and a request only carries an evaluation that exists.        *)
THEOREM TypeCorrect == Spec => []TypeOK
<1>1. Init => TypeOK
  BY DEF Init, TypeOK, Status, NoAnswers, Answers, Continuations, IsIdle, Idle
<1> QED BY <1>1, TypeStep, PTL DEF Spec

-----------------------------------------------------------------------------
(* An evaluation that has left DRAFT never returns to it. *)
LEMMA DraftIsLeftForGood ==
  ASSUME TypeOK, [Next]_vars, NEW e \in EvalIds, Exists(e), status[e] # "DRAFT"
  PROVE  status'[e] # "DRAFT" /\ Exists(e)'
<1>1. ASSUME NEW r \in Requests, CreateInsert(r)
      PROVE status'[e] # "DRAFT" /\ Exists(e)'
  BY <1>1 DEF CreateInsert, TypeOK, Exists
<1>2. ASSUME NEW r \in Requests, ScoreMark(r) \/ CompleteWrite(r)
      PROVE status'[e] # "DRAFT" /\ Exists(e)'
  BY <1>2 DEF ScoreMark, CompleteWrite, TypeOK, Exists
<1>3. CASE UNCHANGED <<owner, status>>
  BY <1>3 DEF Exists
<1> QED
  BY <1>1, <1>2, <1>3
     DEF Next, vars, Create, Score, Complete, CreateLookup, ScoreRead,
         ScorePersist, CompleteRead, CompleteSections, ReadSectionRows,
         ReadIndicatorRows, CompleteRefuse, Fail, SetApplicability

(* The snapshot a scorer decides from is never ahead of the evaluation: if   *)
(* it saw that the evaluation had left DRAFT, it has.  So the step the       *)
(* scorer then leaves out (setStatus) is not needed.                         *)
THEOREM SnapshotNeverAhead == Spec => []SeenNeverAhead
<1>1. Init => SeenNeverAhead
  BY DEF Init, SeenNeverAhead, Idle
<1>2. TypeOK /\ SeenNeverAhead /\ [Next]_vars => SeenNeverAhead'
  <2> SUFFICES ASSUME TypeOK, SeenNeverAhead, [Next]_vars,
                      NEW q \in Requests,
                      req'[q].pc = "persist", req'[q].seen # "DRAFT"
               PROVE  status'[req'[q].eval] # "DRAFT"
    BY DEF SeenNeverAhead
  <2>1. CASE req'[q] = req[q]
    <3>1. req[q].eval \in EvalIds /\ Exists(req[q].eval)
      BY <2>1, ContinuationByLabel DEF Persisting, TypeOK, IsIdle
    <3> QED BY <2>1, <3>1, DraftIsLeftForGood DEF SeenNeverAhead
  <2>2. ASSUME NEW e \in EvalIds, NEW b \in Batches, ScoreRead(q, e, b)
        PROVE  status'[req'[q].eval] # "DRAFT"
    BY <2>2 DEF ScoreRead, Goto, TypeOK
  <2>3. \/ req'[q] = req[q]
        \/ req'[q].pc # "persist"
        \/ \E e \in EvalIds, b \in Batches : ScoreRead(q, e, b)
    <3>1. ASSUME NEW r \in Requests, NEW k, Goto(r, k), k.pc # "persist"
          PROVE req'[q] = req[q] \/ req'[q].pc # "persist"
      BY <3>1 DEF Goto, TypeOK
    <3>2. ASSUME NEW r \in Requests, NEW e \in EvalIds, NEW b \in Batches,
                 ScoreRead(r, e, b)
          PROVE req'[q] = req[q] \/ ScoreRead(q, e, b)
      BY <3>2 DEF ScoreRead, Goto, TypeOK
    <3>3. ASSUME NEW r \in Requests, ReadSectionRows(r) \/ ReadIndicatorRows(r)
          PROVE req'[q] = req[q] \/ req'[q].pc # "persist"
      <4>1. req[r] \in Gathering
        BY <3>3, ContinuationByLabel DEF ReadSectionRows, ReadIndicatorRows
      <4> QED BY <3>3, <4>1 DEF ReadSectionRows, ReadIndicatorRows, Goto, TypeOK, Gathering
    <3>4. ASSUME NEW r \in Requests,
                 \/ \E p \in Profiles : CreateLookup(r, p)
                 \/ CreateInsert(r) \/ ScorePersist(r) \/ ScoreMark(r)
                 \/ \E e \in EvalIds : CompleteRead(r, e)
                 \/ CompleteSections(r) \/ CompleteRefuse(r)
                 \/ CompleteWrite(r) \/ Fail(r)
          PROVE req'[q] = req[q] \/ req'[q].pc # "persist"
      BY <3>4, <3>1 DEF CreateLookup, CreateInsert, ScorePersist, ScoreMark,
           CompleteRead, CompleteSections, CompleteRefuse, CompleteWrite, Fail, Idle
    <3>5. CASE UNCHANGED req
      BY <3>5
    <3> QED
      BY <3>2, <3>3, <3>4, <3>5
         DEF Next, vars, Create, Score, Complete, SetApplicability
  <2> QED BY <2>1, <2>2, <2>3
<1> QED BY <1>1, <1>2, TypeCorrect, PTL DEF Spec

-----------------------------------------------------------------------------
(* A row that does not exist yet has the default status. *)
RowsStartInDraft == \A e \in EvalIds : ~Exists(e) => status[e] = "DRAFT"

LEMMA RowsStartInDraftInvariant == Spec => []RowsStartInDraft
<1>1. Init => RowsStartInDraft
  BY DEF Init, RowsStartInDraft
<1>2. TypeOK /\ RowsStartInDraft /\ [Next]_vars => RowsStartInDraft'
  <2> SUFFICES ASSUME TypeOK, RowsStartInDraft, [Next]_vars
               PROVE  RowsStartInDraft'
    OBVIOUS
  <2>1. ASSUME NEW r \in Requests, CreateInsert(r)
        PROVE  RowsStartInDraft'
    <3>1. req[r].profile # None
      BY <2>1, ContinuationByLabel, NoneAssumption DEF CreateInsert, Creating
    <3> QED BY <2>1, <3>1 DEF CreateInsert, RowsStartInDraft, TypeOK, Exists
  <2>2. ASSUME NEW r \in Requests, ScoreMark(r) \/ CompleteWrite(r)
        PROVE  RowsStartInDraft'
    <3>1. Exists(req[r].eval)
      BY <2>2 DEF ScoreMark, CompleteWrite, Gathered, TypeOK, IsIdle
    <3> QED BY <2>2, <3>1 DEF ScoreMark, CompleteWrite, RowsStartInDraft, TypeOK, Exists
  <2>3. CASE UNCHANGED <<owner, status>>
    BY <2>3 DEF RowsStartInDraft, Exists
  <2> QED
    BY <2>1, <2>2, <2>3
       DEF Next, vars, Create, Score, Complete, CreateLookup, ScoreRead,
           ScorePersist, CompleteRead, CompleteSections, ReadSectionRows,
           ReadIndicatorRows, CompleteRefuse, Fail, SetApplicability
<1> QED BY <1>1, <1>2, TypeCorrect, PTL DEF Spec

(* No request becomes a scorer of an evaluation it was not scoring, unless    *)
(* it has just found that evaluation unlocked.                               *)
LEMMA ScorersStartUnlocked ==
  ASSUME TypeOK, [Next]_vars, NEW e \in EvalIds, NEW q \in Requests,
         Scoring(q, e)'
  PROVE  Scoring(q, e) \/ ~Locked(status[e])
<1>1. ASSUME NEW r \in Requests, NEW k, Goto(r, k), k.pc \notin {"persist", "mark"}
      PROVE  Scoring(q, e)
  BY <1>1 DEF Goto, Scoring, TypeOK
<1>2. ASSUME NEW r \in Requests, NEW f \in EvalIds, NEW b \in Batches,
             ScoreRead(r, f, b)
      PROVE  Scoring(q, e) \/ ~Locked(status[e])
  BY <1>2 DEF ScoreRead, Goto, Scoring, TypeOK
<1>3. ASSUME NEW r \in Requests, ScorePersist(r)
      PROVE  Scoring(q, e)
  BY <1>3 DEF ScorePersist, Goto, Scoring, TypeOK, Idle
<1>4. ASSUME NEW r \in Requests, ReadSectionRows(r) \/ ReadIndicatorRows(r)
      PROVE  Scoring(q, e)
  <2>1. req[r] \in Gathering
    BY <1>4, ContinuationByLabel DEF ReadSectionRows, ReadIndicatorRows
  <2> QED BY <1>4, <2>1 DEF ReadSectionRows, ReadIndicatorRows, Goto, Scoring,
                            TypeOK, Gathering
<1>5. ASSUME NEW r \in Requests,
             \/ \E p \in Profiles : CreateLookup(r, p)
             \/ CreateInsert(r) \/ ScoreMark(r)
             \/ \E f \in EvalIds : CompleteRead(r, f)
             \/ CompleteSections(r) \/ CompleteRefuse(r)
             \/ CompleteWrite(r) \/ Fail(r)
      PROVE  Scoring(q, e)
  BY <1>5, <1>1 DEF CreateLookup, CreateInsert, ScoreMark, CompleteRead,
       CompleteSections, CompleteRefuse, CompleteWrite, Fail, Idle
<1>6. CASE UNCHANGED req
  BY <1>6 DEF Scoring
<1> QED
  BY <1>2, <1>3, <1>4, <1>5, <1>6
     DEF Next, vars, Create, Score, Complete, SetApplicability

(* A completed evaluation without a scorer in flight is frozen: no later      *)
(* step changes its responses, reopens it or lets a scorer in.               *)
THEOREM SettledForGood == Spec => SettledStaysSettled
<1> DEFINE Frozen == \A e \in EvalIds :
             Settled(e) => Settled(e)' /\ responses'[e] = responses[e]
<1>1. TypeOK /\ RowsStartInDraft /\ [Next]_vars => Frozen
  <2> SUFFICES ASSUME TypeOK, RowsStartInDraft, [Next]_vars,
                      NEW e \in EvalIds, Settled(e)
               PROVE  Settled(e)' /\ responses'[e] = responses[e]
    OBVIOUS
  <2>1. \A q \in Requests : ~Scoring(q, e)'
    BY ScorersStartUnlocked DEF Settled, Locked
  <2>2. Exists(e) /\ status[e] = "COMPLETED"
    BY DEF Settled, RowsStartInDraft
  <2>3. status'[e] = "COMPLETED" /\ responses'[e] = responses[e]
    <3>1. ASSUME NEW r \in Requests,
                 CreateInsert(r) \/ ScorePersist(r) \/ ScoreMark(r) \/ CompleteWrite(r)
          PROVE  status'[e] = "COMPLETED" /\ responses'[e] = responses[e]
      BY <2>2, <3>1 DEF CreateInsert, ScorePersist, ScoreMark, CompleteWrite,
           Settled, Scoring, TypeOK, Exists
    <3>2. CASE UNCHANGED <<status, responses>>
      BY <2>2, <3>2
    <3> QED
      BY <3>1, <3>2
         DEF Next, vars, Create, Score, Complete, CreateLookup, ScoreRead,
             CompleteRead, CompleteSections, ReadSectionRows,
             ReadIndicatorRows, CompleteRefuse, Fail, SetApplicability
  <2> QED BY <2>1, <2>3 DEF Settled
<1>2. TypeOK /\ RowsStartInDraft /\ [Next]_vars => [Frozen]_vars
  BY <1>1
<1> QED
  BY <1>2, TypeCorrect, RowsStartInDraftInvariant, PTL
     DEF Spec, SettledStaysSettled

-----------------------------------------------------------------------------
(* The two sets the bound on open evaluations counts are finite. *)
LEMMA CountsAreNumbers ==
  ASSUME NEW p
  PROVE  /\ IsFiniteSet(LiveOf(p)) /\ Cardinality(LiveOf(p)) \in Nat
         /\ IsFiniteSet(InsertingFor(p)) /\ Cardinality(InsertingFor(p)) \in Nat
         /\ Cardinality(Requests) \in Nat
<1>1. IsFiniteSet(EvalIds) /\ LiveOf(p) \in SUBSET EvalIds
  BY FS_Interval, BoundAssumption DEF EvalIds, LiveOf
<1>2. InsertingFor(p) \in SUBSET Requests
  BY DEF InsertingFor
<1> QED BY <1>1, <1>2, RequestAssumption, FS_Subset, FS_CardinalityType

(* When a profile has no open evaluation, the evaluations it still counts and *)
(* its creations in flight belong to different requests, none of them idle.   *)
LEMMA RoomForOneMore ==
  ASSUME NEW p, NEW r \in Requests, IsIdle(r), OpenOf(p) = {}
  PROVE  Cardinality(LiveOf(p)) + Cardinality(InsertingFor(p) \union {r})
           <= Cardinality(Requests)
<1> DEFINE S == {q \in Requests : \E e \in LiveOf(p) : MayMark(q, e)}
           f == [q \in S |-> req[q].eval]
           C == InsertingFor(p) \union {r}
<1>1. S \in SUBSET Requests /\ C \in SUBSET Requests /\ S \intersect C = {}
  BY DEF InsertingFor, MayMark, IsIdle
<1>2. IsFiniteSet(S) /\ IsFiniteSet(C)
  BY <1>1, RequestAssumption, FS_Subset
<1>3. f \in Surjection(S, LiveOf(p))
  <2>1. f \in [S -> LiveOf(p)]
    BY DEF MayMark
  <2>2. \A e \in LiveOf(p) : \E q \in S : f[q] = e
    BY DEF LiveOf, OpenOf, MayMark
  <2> QED BY <2>1, <2>2 DEF Surjection
<1>4. Cardinality(LiveOf(p)) <= Cardinality(S)
  BY <1>2, <1>3, FS_Surjection
<1>5. Cardinality(S \union C) = Cardinality(S) + Cardinality(C)
  <2>1. Cardinality(S \intersect C) = 0
    BY <1>1, FS_EmptySet
  <2>2. Cardinality(S \union C)
          = Cardinality(S) + Cardinality(C) - Cardinality(S \intersect C)
    BY <1>2, FS_Union
  <2>3. Cardinality(S) \in Nat /\ Cardinality(C) \in Nat
    BY <1>2, FS_CardinalityType
  <2> HIDE DEF S, C
  <2> QED BY <2>1, <2>2, <2>3
<1>6. Cardinality(S \union C) <= Cardinality(Requests)
  BY <1>1, RequestAssumption, FS_Subset
<1>7. /\ Cardinality(S) \in Nat /\ Cardinality(C) \in Nat
      /\ Cardinality(S \union C) \in Nat
  BY <1>2, FS_CardinalityType, FS_Union
<1> HIDE DEF S, C
<1>8. Cardinality(LiveOf(p)) + Cardinality(C) <= Cardinality(Requests)
  BY <1>4, <1>5, <1>6, <1>7, CountsAreNumbers
<1> QED BY <1>8 DEF C

(* A smaller count stays within the bound. *)
LEMMA SmallerCount ==
  ASSUME NEW p, NEW L \in SUBSET LiveOf(p), NEW I \in SUBSET InsertingFor(p),
         Cardinality(LiveOf(p)) + Cardinality(InsertingFor(p)) <= Cardinality(Requests)
  PROVE  Cardinality(L) + Cardinality(I) <= Cardinality(Requests)
<1>1. /\ Cardinality(L) <= Cardinality(LiveOf(p)) /\ Cardinality(L) \in Nat
      /\ Cardinality(I) <= Cardinality(InsertingFor(p)) /\ Cardinality(I) \in Nat
  BY CountsAreNumbers, FS_Subset, FS_CardinalityType
<1> QED BY <1>1, CountsAreNumbers

(* Only a scorer that finds the evaluation open becomes one that may mark it. *)
LEMMA MarkersStartOpen ==
  ASSUME TypeOK, [Next]_vars, NEW e \in EvalIds, NEW q \in Requests,
         MayMark(q, e)'
  PROVE  MayMark(q, e) \/ Active(e)
<1>1. ASSUME NEW r \in Requests, NEW k, Goto(r, k), k.pc \notin {"persist", "mark"}
      PROVE  MayMark(q, e)
  BY <1>1 DEF Goto, MayMark, TypeOK
<1>2. ASSUME NEW r \in Requests, NEW f \in EvalIds, NEW b \in Batches,
             ScoreRead(r, f, b)
      PROVE  MayMark(q, e) \/ Active(e)
  BY <1>2 DEF ScoreRead, Goto, MayMark, Active, TypeOK
<1>3. ASSUME NEW r \in Requests, ScorePersist(r)
      PROVE  MayMark(q, e)
  BY <1>3 DEF ScorePersist, Goto, MayMark, TypeOK, Idle
<1>4. ASSUME NEW r \in Requests, ReadSectionRows(r) \/ ReadIndicatorRows(r)
      PROVE  MayMark(q, e)
  <2>1. req[r] \in Gathering
    BY <1>4, ContinuationByLabel DEF ReadSectionRows, ReadIndicatorRows
  <2> QED BY <1>4, <2>1 DEF ReadSectionRows, ReadIndicatorRows, Goto, MayMark,
                            TypeOK, Gathering
<1>5. ASSUME NEW r \in Requests,
             \/ \E p \in Profiles : CreateLookup(r, p)
             \/ CreateInsert(r) \/ ScoreMark(r)
             \/ \E f \in EvalIds : CompleteRead(r, f)
             \/ CompleteSections(r) \/ CompleteRefuse(r)
             \/ CompleteWrite(r) \/ Fail(r)
      PROVE  MayMark(q, e)
  BY <1>5, <1>1 DEF CreateLookup, CreateInsert, ScoreMark, CompleteRead,
       CompleteSections, CompleteRefuse, CompleteWrite, Fail, Idle
<1>6. CASE UNCHANGED req
  BY <1>6 DEF MayMark
<1> QED
  BY <1>2, <1>3, <1>4, <1>5, <1>6
     DEF Next, vars, Create, Score, Complete, SetApplicability

(* A request joins the creations of a profile only through the lookup that    *)
(* finds no open evaluation.                                                 *)
LEMMA InsertersStartWithNoneOpen ==
  ASSUME TypeOK, [Next]_vars, NEW p \in Profiles, NEW q \in InsertingFor(p)',
         q \notin InsertingFor(p)
  PROVE  CreateLookup(q, p)
<1> q \in Requests /\ req'[q].pc = "insert" /\ req'[q].profile = p
  BY DEF InsertingFor
<1>1. ASSUME NEW r \in Requests, NEW k, Goto(r, k), k.pc # "insert"
      PROVE  FALSE
  BY <1>1 DEF Goto, InsertingFor, TypeOK
<1>2. ASSUME NEW r \in Requests, ReadSectionRows(r) \/ ReadIndicatorRows(r)
      PROVE  FALSE
  <2>1. req[r] \in Gathering
    BY <1>2, ContinuationByLabel DEF ReadSectionRows, ReadIndicatorRows
  <2> QED BY <1>2, <2>1 DEF ReadSectionRows, ReadIndicatorRows, Goto,
                            InsertingFor, TypeOK, Gathering
<1>3. ASSUME NEW r \in Requests, NEW s \in Profiles, CreateLookup(r, s)
      PROVE  CreateLookup(q, p)
  BY <1>3 DEF CreateLookup, Goto, InsertingFor, TypeOK
<1>4. ASSUME NEW r \in Requests,
             \/ CreateInsert(r)
             \/ \E e \in EvalIds, b \in Batches : ScoreRead(r, e, b)
             \/ ScorePersist(r) \/ ScoreMark(r)
             \/ \E e \in EvalIds : CompleteRead(r, e)
             \/ CompleteSections(r) \/ CompleteRefuse(r)
             \/ CompleteWrite(r) \/ Fail(r)
      PROVE  FALSE
  BY <1>4, <1>1 DEF CreateInsert, ScoreRead, ScorePersist, ScoreMark,
       CompleteRead, CompleteSections, CompleteRefuse, CompleteWrite, Fail, Idle
<1>5. CASE UNCHANGED req
  BY <1>5 DEF InsertingFor
<1> QED
  BY <1>2, <1>3, <1>4, <1>5
     DEF Next, vars, Create, Score, Complete, SetApplicability

(* The evaluations a profile counts grow only by an insert. *)
LEMMA LiveGrowsByInsert ==
  ASSUME TypeOK, [Next]_vars, NEW p \in Profiles,
         \A r \in Requests : ~(CreateInsert(r) /\ req[r].profile = p)
  PROVE  LiveOf(p)' \subseteq LiveOf(p)
<1> SUFFICES ASSUME NEW e \in EvalIds, owner'[e] = p,
                    Active(e)' \/ \E q \in Requests : MayMark(q, e)'
             PROVE  e \in LiveOf(p)
  BY DEF LiveOf, EvalIds
<1>1. owner[e] = p
  <2>1. ASSUME NEW r \in Requests, CreateInsert(r)
        PROVE  owner[e] = p
    BY <2>1 DEF CreateInsert, TypeOK
  <2>2. CASE UNCHANGED owner
    BY <2>2
  <2> QED
    BY <2>1, <2>2
       DEF Next, vars, Create, Score, Complete, CreateLookup, ScoreRead,
           ScorePersist, ScoreMark, CompleteRead, CompleteSections,
           ReadSectionRows, ReadIndicatorRows, CompleteRefuse, CompleteWrite,
           Fail, SetApplicability
<1>2. CASE Active(e)'
  <2>1. ASSUME NEW r \in Requests, CreateInsert(r)
        PROVE  Active(e)
    <3>1. Exists(e)
      BY <1>1, NoneAssumption DEF Exists
    <3> QED BY <1>2, <2>1, <3>1 DEF CreateInsert, Active, Exists, TypeOK
  <2>2. ASSUME NEW r \in Requests, ScoreMark(r)
        PROVE  Active(e) \/ MayMark(r, e)
    BY <1>2, <2>2 DEF ScoreMark, Active, MayMark, TypeOK
  <2>3. ASSUME NEW r \in Requests, CompleteWrite(r)
        PROVE  Active(e)
    BY <1>2, <2>3 DEF CompleteWrite, Active, TypeOK
  <2>4. ASSUME UNCHANGED status
        PROVE  Active(e)
    BY <1>2, <2>4 DEF Active
  <2>5. Active(e) \/ \E r \in Requests : MayMark(r, e)
    BY <2>1, <2>2, <2>3, <2>4
       DEF Next, vars, Create, Score, Complete, CreateLookup, ScoreRead,
           ScorePersist, CompleteRead, CompleteSections,
           ReadSectionRows, ReadIndicatorRows, CompleteRefuse,
           Fail, SetApplicability
  <2> QED BY <1>1, <2>5 DEF LiveOf
<1>3. ASSUME NEW q \in Requests, MayMark(q, e)'
      PROVE  e \in LiveOf(p)
  BY <1>1, <1>3, MarkersStartOpen DEF LiveOf
<1> QED BY <1>2, <1>3

(* The bound is inductive. *)
LEMMA LiveBoundStep ==
  ASSUME TypeOK, LiveEvaluationsBounded, [Next]_vars
  PROVE  LiveEvaluationsBounded'
<1> SUFFICES ASSUME NEW p \in Profiles
             PROVE  Cardinality(LiveOf(p)') + Cardinality(InsertingFor(p)')
                      <= Cardinality(Requests)
  BY DEF LiveEvaluationsBounded
<1>0. Cardinality(LiveOf(p)) + Cardinality(InsertingFor(p)) <= Cardinality(Requests)
  BY DEF LiveEvaluationsBounded
<1>1. ASSUME NEW r \in Requests, CreateLookup(r, p)
      PROVE  Cardinality(LiveOf(p)') + Cardinality(InsertingFor(p)')
               <= Cardinality(Requests)
  <2>1. LiveOf(p)' = LiveOf(p)
    BY <1>1 DEF CreateLookup, Goto, LiveOf, MayMark, Active, TypeOK, IsIdle
  <2>2. InsertingFor(p)' = InsertingFor(p) \union {r}
    BY <1>1 DEF CreateLookup, Goto, InsertingFor, TypeOK
  <2> QED BY <1>1, <2>1, <2>2, RoomForOneMore DEF CreateLookup
<1>2. ASSUME NEW r \in Requests, CreateInsert(r), req[r].profile = p
      PROVE  Cardinality(LiveOf(p)') + Cardinality(InsertingFor(p)')
               <= Cardinality(Requests)
  <2>1. PICK e \in EvalIds :
          /\ owner' = [owner EXCEPT ![e] = p]
          /\ status' = [status EXCEPT ![e] = "DRAFT"]
    BY <1>2 DEF CreateInsert
  <2>2. LiveOf(p)' \in SUBSET (LiveOf(p) \union {e})
    BY <1>2, <2>1 DEF CreateInsert, Goto, LiveOf, MayMark, Active, TypeOK, Idle, EvalIds
  <2>3. /\ InsertingFor(p)' = InsertingFor(p) \ {r}
        /\ r \in InsertingFor(p)
    BY <1>2 DEF CreateInsert, Goto, InsertingFor, TypeOK, Idle
  <2>4. Cardinality(InsertingFor(p)') = Cardinality(InsertingFor(p)) - 1
    BY <2>3, CountsAreNumbers, FS_RemoveElement
  <2>5. /\ IsFiniteSet(LiveOf(p) \union {e})
        /\ Cardinality(LiveOf(p) \union {e}) <= Cardinality(LiveOf(p)) + 1
    <3>1. /\ IsFiniteSet(LiveOf(p) \union {e})
          /\ Cardinality(LiveOf(p) \union {e}) =
               IF e \in LiveOf(p) THEN Cardinality(LiveOf(p)) ELSE Cardinality(LiveOf(p)) + 1
      BY CountsAreNumbers, FS_AddElement, Zenon
    <3> QED BY <3>1, CountsAreNumbers
  <2>6. /\ Cardinality(LiveOf(p)') <= Cardinality(LiveOf(p) \union {e})
        /\ Cardinality(LiveOf(p)') \in Nat
        /\ Cardinality(LiveOf(p) \union {e}) \in Nat
    BY <2>2, <2>5, FS_Subset, FS_CardinalityType
  <2> QED BY <1>0, <2>4, <2>5, <2>6, CountsAreNumbers
<1>3. CASE /\ \A r \in Requests : ~CreateLookup(r, p)
           /\ \A r \in Requests : ~(CreateInsert(r) /\ req[r].profile = p)
  <2>1. LiveOf(p)' \in SUBSET LiveOf(p)
    BY <1>3, LiveGrowsByInsert
  <2>2. InsertingFor(p)' \in SUBSET InsertingFor(p)
    BY <1>3, InsertersStartWithNoneOpen DEF InsertingFor
  <2> QED BY <1>0, <2>1, <2>2, SmallerCount
<1> QED BY <1>1, <1>2, <1>3

(* However creations, scores and completions interleave or fail, the live      *)
(* evaluations and the creations in flight of a profile never outnumber the   *)
(* requests in flight: each insert uses up the request that found nothing.    *)
THEOREM LiveBound == Spec => []LiveEvaluationsBounded
<1>1. Init => LiveEvaluationsBounded
  <2> SUFFICES ASSUME Init, NEW p \in Profiles
               PROVE  Cardinality(LiveOf(p)) + Cardinality(InsertingFor(p))
                        <= Cardinality(Requests)
    BY DEF LiveEvaluationsBounded
  <2>1. LiveOf(p) = {} /\ InsertingFor(p) = {}
    BY NoneAssumption DEF Init, LiveOf, InsertingFor, Idle
  <2> QED BY <2>1, FS_EmptySet, CountsAreNumbers
<1> QED BY <1>1, LiveBoundStep, TypeCorrect, PTL DEF Spec

(* A double click creates at most as many open evaluations as the server has  *)
(* requests in flight; with one request at a time, one.                       *)
THEOREM OpenBound == Spec => []OpenEvaluationsBounded
<1>1. LiveEvaluationsBounded => OpenEvaluationsBounded
  <2> SUFFICES ASSUME LiveEvaluationsBounded, NEW p \in Profiles
               PROVE  Cardinality(OpenOf(p)) <= Cardinality(Requests)
    BY DEF OpenEvaluationsBounded
  <2>1. OpenOf(p) \in SUBSET LiveOf(p)
    BY DEF OpenOf, LiveOf
  <2>2. Cardinality(OpenOf(p)) <= Cardinality(LiveOf(p))
        /\ Cardinality(OpenOf(p)) \in Nat
    BY <2>1, CountsAreNumbers, FS_Subset, FS_CardinalityType
  <2> QED BY <2>2, CountsAreNumbers DEF LiveEvaluationsBounded
<1> QED BY <1>1, LiveBound, PTL

-----------------------------------------------------------------------------
(* The history variables only watch: without them a behaviour of HistorySpec  *)
(* is one of Spec, so everything proved of Spec holds of HistorySpec.         *)
THEOREM HistoryWatches == HistorySpec => Spec
<1>1. HistoryInit => Init
  BY DEF HistoryInit
<1>2. [HistoryNext]_historyVars => [Next]_vars
  BY DEF HistoryNext, historyVars, vars
<1> QED BY <1>1, <1>2, PTL DEF HistorySpec, Spec

(* The evaluation of a completion stays that of its profile. *)
LEMMA OwnersStay ==
  ASSUME TypeOK, [Next]_vars, NEW e \in EvalIds, Exists(e)
  PROVE  owner'[e] = owner[e]
<1>1. ASSUME NEW r \in Requests, CreateInsert(r)
      PROVE  owner'[e] = owner[e]
  BY <1>1 DEF CreateInsert, TypeOK
<1>2. CASE UNCHANGED owner
  BY <1>2
<1> QED
  BY <1>1, <1>2
     DEF Next, vars, Create, Score, Complete, CreateLookup, ScoreRead,
         ScorePersist, ScoreMark, CompleteRead, CompleteSections,
         ReadSectionRows, ReadIndicatorRows, CompleteRefuse, CompleteWrite,
         Fail, SetApplicability

(* What a completion has read of the exclusion tables was in force at some    *)
(* moment of its window, and the window reaches the present.                  *)
InForce(r) == applic[owner[req[r].eval]]
ReadFromWindow(r) ==
  /\ Completing(r) => InForce(r) \in window[r]
  /\ req[r].pc = "gather" =>
       /\ \E c \in window[r] : req[r].sections = c.sections
       /\ req[r].secRows # None => \E c \in window[r] : req[r].secRows = c.sections
       /\ req[r].indRows # None => \E c \in window[r] : req[r].indRows = c.indicators
WindowInv ==
  /\ window \in [Requests -> SUBSET Configs]
  /\ \A r \in Requests : ReadFromWindow(r)

(* A completion in flight refers to an evaluation that has a profile.         *)
LEMMA CompletingType ==
  ASSUME TypeOK, NEW r \in Requests, Completing(r)
  PROVE  /\ req[r].eval \in EvalIds /\ Exists(req[r].eval)
         /\ owner[req[r].eval] \in Profiles /\ InForce(r) \in Configs
<1>1. req[r] \in Resolving \/ req[r] \in Gathering
  BY ContinuationByLabel DEF Completing
<1>2. req[r].eval \in EvalIds /\ Exists(req[r].eval)
  BY <1>1 DEF Resolving, Gathering, TypeOK, IsIdle
<1> QED BY <1>2 DEF TypeOK, Exists, InForce

(* A request that completes and did not before has just read its evaluation;  *)
(* one that did before has read at most one more of the tables.               *)
LEMMA CompletionStep ==
  ASSUME TypeOK, [Next]_vars, NEW q \in Requests, Completing(q)'
  PROVE  \/ req'[q] = req[q]
         \/ req'[q].pc = "resolve" /\ ~Completing(q)
         \/ CompleteSections(q) \/ ReadSectionRows(q) \/ ReadIndicatorRows(q)
<1>1. ASSUME NEW r \in Requests, NEW k, Goto(r, k), k.pc \notin {"resolve", "gather"}
      PROVE  req'[q] = req[q]
  BY <1>1 DEF Goto, Completing, TypeOK
<1>2. ASSUME NEW r \in Requests, NEW e \in EvalIds, CompleteRead(r, e)
      PROVE  req'[q] = req[q] \/ (req'[q].pc = "resolve" /\ ~Completing(q))
  BY <1>2 DEF CompleteRead, Goto, Completing, IsIdle, TypeOK
<1>3. ASSUME NEW r \in Requests,
             CompleteSections(r) \/ ReadSectionRows(r) \/ ReadIndicatorRows(r)
      PROVE  \/ req'[q] = req[q]
             \/ CompleteSections(q) \/ ReadSectionRows(q) \/ ReadIndicatorRows(q)
  BY <1>3 DEF CompleteSections, ReadSectionRows, ReadIndicatorRows, Goto, TypeOK
<1>4. ASSUME NEW r \in Requests,
             \/ \E p \in Profiles : CreateLookup(r, p)
             \/ CreateInsert(r)
             \/ \E e \in EvalIds, b \in Batches : ScoreRead(r, e, b)
             \/ ScorePersist(r) \/ ScoreMark(r)
             \/ CompleteRefuse(r) \/ CompleteWrite(r) \/ Fail(r)
      PROVE  req'[q] = req[q]
  BY <1>4, <1>1 DEF CreateLookup, CreateInsert, ScoreRead, ScorePersist, ScoreMark,
       CompleteRefuse, CompleteWrite, Fail, Idle
<1>5. CASE UNCHANGED req
  BY <1>5
<1> QED
  BY <1>2, <1>3, <1>4, <1>5
     DEF Next, vars, Create, Score, Complete, SetApplicability

LEMMA WindowStep ==
  ASSUME TypeOK, TypeOK', WindowInv, [HistoryNext]_historyVars
  PROVE  WindowInv'
<1>1. CASE UNCHANGED historyVars
  BY <1>1 DEF historyVars, WindowInv, ReadFromWindow, Completing, InForce
<1>2. CASE HistoryNext
  <2>1. [Next]_vars
    BY <1>2 DEF HistoryNext
  <2>2. \A r \in Requests : window'[r] =
          IF ~Completing(r)' THEN {}
          ELSE (IF Completing(r) THEN window[r] ELSE {}) \union {InForce(r)'}
    BY <1>2 DEF HistoryNext, InForce
  <2>3. ASSUME NEW r \in Requests, Completing(r)'
        PROVE  InForce(r)' \in Configs
    <3>1. req'[r] \in Resolving \/ req'[r] \in Gathering
      BY <2>3 DEF TypeOK, Continuations, Idle, Creating, Persisting, Marking,
         Resolving, Gathering, Completing
    <3>2. req'[r].eval \in EvalIds /\ Exists(req[r].eval)'
      BY <3>1 DEF Resolving, Gathering, TypeOK, IsIdle
    <3>3. owner'[req'[r].eval] \in Profiles
      BY <3>2 DEF TypeOK, Exists
    <3> QED BY <3>3 DEF TypeOK, InForce
  <2>4. window' \in [Requests -> SUBSET Configs]
    <3>1. \A r \in Requests : window'[r] \in SUBSET Configs
      BY <2>2, <2>3 DEF WindowInv
    <3>2. window' = [r \in Requests |-> window'[r]]
      BY <1>2 DEF HistoryNext
    <3> QED BY <3>1, <3>2
  <2>5. ASSUME NEW r \in Requests
        PROVE  ReadFromWindow(r)'
    <3>1. Completing(r)' => InForce(r)' \in window'[r]
      BY <2>2
    <3>2. ASSUME req'[r].pc = "gather"
          PROVE  /\ \E c \in window'[r] : req'[r].sections = c.sections
                 /\ req'[r].secRows # None =>
                      \E c \in window'[r] : req'[r].secRows = c.sections
                 /\ req'[r].indRows # None =>
                      \E c \in window'[r] : req'[r].indRows = c.indicators
      <4>1. Completing(r)'
        BY <3>2 DEF Completing
      <4>2. CASE req'[r] = req[r]
        <5>1. Completing(r) /\ window[r] \subseteq window'[r]
          BY <2>2, <3>2, <4>1, <4>2 DEF Completing
        <5> QED BY <3>2, <4>2, <5>1 DEF WindowInv, ReadFromWindow
      <4>3. CASE CompleteSections(r)
        <5>1. Completing(r) /\ window[r] \subseteq window'[r]
          BY <2>2, <4>1, <4>3 DEF Completing, CompleteSections
        <5>2. InForce(r) \in window'[r]
          BY <5>1 DEF WindowInv, ReadFromWindow
        <5>3. /\ req'[r].sections = InForce(r).sections
              /\ req'[r].secRows = None /\ req'[r].indRows = None
          BY <4>3 DEF CompleteSections, Goto, InForce, TypeOK
        <5> QED BY <5>2, <5>3
      <4>4. CASE ReadSectionRows(r) \/ ReadIndicatorRows(r)
        <5>1. Completing(r) /\ window[r] \subseteq window'[r]
          BY <2>2, <4>1, <4>4 DEF Completing, ReadSectionRows, ReadIndicatorRows
        <5>2. InForce(r) \in window'[r]
          BY <5>1 DEF WindowInv, ReadFromWindow
        <5>3. req[r] \in Gathering /\ req[r].pc = "gather"
          BY <4>4, ContinuationByLabel DEF ReadSectionRows, ReadIndicatorRows
        <5>4. /\ req'[r].sections = req[r].sections
              /\ \/ req'[r].secRows = req[r].secRows
                 \/ req'[r].secRows = InForce(r).sections
              /\ \/ req'[r].indRows = req[r].indRows
                 \/ req'[r].indRows = InForce(r).indicators
          BY <4>4, <5>3 DEF ReadSectionRows, ReadIndicatorRows, Goto, InForce, TypeOK,
                            Gathering
        <5> QED BY <5>1, <5>2, <5>3, <5>4 DEF WindowInv, ReadFromWindow
      <4> QED BY <2>1, <3>2, <4>1, <4>2, <4>3, <4>4, CompletionStep
    <3> QED BY <3>1, <3>2 DEF ReadFromWindow
  <2> QED BY <2>4, <2>5 DEF WindowInv
<1> QED BY <1>1, <1>2

LEMMA WindowInvariant == HistorySpec => [](TypeOK /\ WindowInv)
<1>1. HistoryInit => WindowInv
  BY DEF HistoryInit, Init, WindowInv, ReadFromWindow, Completing, Idle
<1>2. HistorySpec => []TypeOK
  BY HistoryWatches, TypeCorrect, PTL
<1>3. TypeOK /\ TypeOK' /\ WindowInv /\ [HistoryNext]_historyVars => WindowInv'
  BY WindowStep
<1> QED BY <1>1, <1>2, <1>3, PTL DEF HistorySpec

(* A completion reads three times what administrators replace meanwhile.      *)
(* Whatever mixture it sees, the scores it persists lack no KPI that every     *)
(* setting in force during it asks for, keep the answer of every KPI that     *)
(* none of them excludes, and leave out what all of them exclude alike.       *)
THEOREM CompletionsFitTheirWindow == HistorySpec => CompletedWithinWindow
<1> DEFINE Fits == \A r \in Requests : Completing(r) /\ CompleteWrite(r) =>
      LET e == req[r].eval IN
      \A i \in Indicators :
        /\ (\A c \in window[r] : i \in RequiredBy(c)) => stored'[e][i] # None
        /\ (\A c \in window[r] : i \notin ExcludedBy(c)) =>
             stored'[e][i] = req[r].answers[i]
        /\ \/ \A c \in window[r] : SectionOf[i] \in c.sections
           \/ \A c \in window[r] : i \in c.indicators
           => stored'[e][i] = None
<1>1. TypeOK /\ WindowInv => Fits
  <2> SUFFICES ASSUME TypeOK, WindowInv, NEW r \in Requests, CompleteWrite(r),
                      NEW i \in Indicators
               PROVE  LET e == req[r].eval IN
                      /\ (\A c \in window[r] : i \in RequiredBy(c)) => stored'[e][i] # None
                      /\ (\A c \in window[r] : i \notin ExcludedBy(c)) =>
                           stored'[e][i] = req[r].answers[i]
                      /\ \/ \A c \in window[r] : SectionOf[i] \in c.sections
                         \/ \A c \in window[r] : i \in c.indicators
                         => stored'[e][i] = None
    OBVIOUS
  <2> DEFINE secRows == req[r].secRows
             indRows == req[r].indRows
  <2>1. /\ req[r].pc = "gather" /\ secRows # None /\ indRows # None
        /\ req[r].eval \in EvalIds
    BY CompletingType DEF CompleteWrite, Gathered, Completing
  <2>2. PICK a \in window[r] : req[r].sections = a.sections
    BY <2>1 DEF WindowInv, ReadFromWindow
  <2>3. PICK b \in window[r] : secRows = b.sections
    BY <2>1 DEF WindowInv, ReadFromWindow
  <2>4. PICK c \in window[r] : indRows = c.indicators
    BY <2>1 DEF WindowInv, ReadFromWindow
  <2>5. stored'[req[r].eval][i] = IF i \in Excluded(secRows, indRows) THEN None
                                  ELSE req[r].answers[i]
    BY <2>1 DEF CompleteWrite, ScoreInputs, TypeOK
  <2>6. i \in Excluded(secRows, indRows)
          <=> i \in c.indicators \/ SectionOf[i] \in b.sections
    BY <2>3, <2>4 DEF Excluded
  <2>7. i \in Required(a.sections, Excluded(secRows, indRows)) =>
          req[r].answers[i] # None
    BY <2>2 DEF CompleteWrite, Missing, Answered
  <2> QED
    BY <2>2, <2>3, <2>4, <2>5, <2>6, <2>7 DEF Required, RequiredBy, ExcludedBy, Excluded
<1>2. TypeOK /\ WindowInv => [Fits]_historyVars
  BY <1>1
<1> QED BY <1>2, WindowInvariant, PTL DEF CompletedWithinWindow

-----------------------------------------------------------------------------
(* A set with at most one element. *)
LEMMA AtMostOne ==
  ASSUME NEW S, IsFiniteSet(S)
  PROVE  Cardinality(S) <= 1 <=> \A a, b \in S : a = b
<1>1. ASSUME Cardinality(S) <= 1, NEW a \in S, NEW b \in S
      PROVE  a = b
  <2>1. Cardinality(S) \in Nat /\ Cardinality(S) # 0
    BY FS_CardinalityType, FS_EmptySet
  <2>2. Cardinality(S) = 1
    BY <1>1, <2>1
  <2> QED BY <2>2, FS_Singleton
<1>2. ASSUME \A a, b \in S : a = b
      PROVE  Cardinality(S) <= 1
  <2>1. CASE S = {}
    BY <2>1, FS_EmptySet
  <2>2. CASE \E a : S = {a}
    BY <2>2, FS_Singleton
  <2> QED BY <1>2, <2>1, <2>2
<1> QED BY <1>1, <1>2

(* What holds until two requests are in flight at once: the request there is  *)
(* knows of its evaluation what the database still says.                      *)
KnowsItsEvaluation(r) ==
  /\ req[r].pc = "insert" => OpenOf(req[r].profile) = {}
  /\ req[r].pc \in {"persist", "mark"} => Active(req[r].eval)
  /\ Completing(r) => req[r].answers = responses[req[r].eval]
Alone ==
  /\ \A q, r \in InFlight : q = r
  /\ \A p \in Profiles : \A e, f \in OpenOf(p) : e = f
  /\ StoredFromResponses
  /\ \A r \in Requests : KnowsItsEvaluation(r)
AloneInv == ~overlapped => Alone

(* When the request that moves is alone before and after, so are the others   *)
(* idle, and only what it knows itself has to be looked at.                   *)
LEMMA OthersIdle ==
  ASSUME TypeOK, NEW r \in Requests, NEW k, Goto(r, k),
         \A p, q \in InFlight : p = q,
         \A p, q \in InFlight' : p = q,
         ~IsIdle(r) \/ k.pc # "idle"
  PROVE  \A q \in Requests \ {r} : req'[q].pc = "idle"
  BY DEF Goto, InFlight, IsIdle, TypeOK

(* A step that leaves the evaluations alone. *)
LEMMA QuietStep ==
  ASSUME Alone, UNCHANGED <<owner, status, responses, stored>>,
         \A p, q \in InFlight' : p = q,
         \A q \in Requests : KnowsItsEvaluation(q)'
  PROVE  Alone'
  BY DEF Alone, StoredFromResponses, OpenOf, Active

LEMMA AloneStep ==
  ASSUME TypeOK, AloneInv, [HistoryNext]_historyVars
  PROVE  AloneInv'
<1>1. CASE UNCHANGED historyVars
  BY <1>1 DEF historyVars, AloneInv, Alone, InFlight, IsIdle, OpenOf, Active,
              StoredFromResponses, KnowsItsEvaluation, Completing
<1>2. CASE HistoryNext
  <2> SUFFICES ASSUME ~overlapped'
               PROVE  Alone'
    BY DEF AloneInv
  <2>1. Next /\ Alone
    BY <1>2 DEF HistoryNext, AloneInv
  <2>2. \A p, q \in InFlight' : p = q
    <3>1. InFlight' \in SUBSET Requests
      BY DEF InFlight
    <3>2. IsFiniteSet(InFlight') /\ Cardinality(InFlight') \in Nat
      BY <3>1, RequestAssumption, FS_Subset, FS_CardinalityType
    <3>3. ~(Cardinality(InFlight') > 1)
      BY <1>2 DEF HistoryNext
    <3>4. Cardinality(InFlight') <= 1
      BY <3>2, <3>3
    <3> QED BY <3>2, <3>4, AtMostOne
  <2>3. \A p, q \in InFlight : p = q
    BY <2>1 DEF Alone
  <2>4. ASSUME NEW r \in Requests, NEW p \in Profiles, CreateLookup(r, p)
        PROVE  Alone'
    <3>1. \A q \in Requests \ {r} : req'[q].pc = "idle"
      BY <2>2, <2>3, <2>4, OthersIdle DEF CreateLookup
    <3>2. KnowsItsEvaluation(r)'
      BY <2>4 DEF CreateLookup, Goto, KnowsItsEvaluation, Completing, OpenOf, Active, TypeOK
    <3>3. \A q \in Requests : KnowsItsEvaluation(q)'
      BY <3>1, <3>2 DEF KnowsItsEvaluation, Completing
    <3> QED BY <2>1, <2>2, <2>4, <3>3, QuietStep DEF CreateLookup
  <2>5. ASSUME NEW r \in Requests, CreateInsert(r)
        PROVE  Alone'
    <3>1. req[r].profile \in Profiles /\ req[r].profile # None
      BY <2>5, ContinuationByLabel, NoneAssumption DEF CreateInsert, Creating
    <3>2. PICK e \in EvalIds :
            /\ ~Exists(e)
            /\ owner' = [owner EXCEPT ![e] = req[r].profile]
            /\ status' = [status EXCEPT ![e] = "DRAFT"]
      BY <2>5 DEF CreateInsert
    <3>3. OpenOf(req[r].profile) = {}
      BY <2>1, <2>5 DEF Alone, KnowsItsEvaluation, CreateInsert
    <3>4. ASSUME NEW p \in Profiles, NEW f \in OpenOf(p)', NEW g \in OpenOf(p)'
          PROVE  f = g
      <4>1. CASE p = req[r].profile
        BY <3>2, <3>3, <4>1 DEF OpenOf, Active, TypeOK, EvalIds
      <4>2. CASE p # req[r].profile
        <5>1. f \in OpenOf(p) /\ g \in OpenOf(p)
          BY <3>2, <4>2 DEF OpenOf, Active, TypeOK, EvalIds
        <5> QED BY <2>1, <5>1 DEF Alone
      <4> QED BY <4>1, <4>2
    <3>5. StoredFromResponses'
      BY <2>1, <2>5, <3>2 DEF Alone, CreateInsert, StoredFromResponses, TypeOK
    <3>6. \A q \in Requests : req'[q].pc = "idle"
      BY <2>2, <2>3, <2>5, OthersIdle DEF CreateInsert, IsIdle, Goto, TypeOK, Idle
    <3> QED BY <2>2, <3>4, <3>5, <3>6 DEF Alone, KnowsItsEvaluation, Completing
  <2>6. ASSUME NEW r \in Requests, NEW e \in EvalIds, NEW b \in Batches,
               ScoreRead(r, e, b)
        PROVE  Alone'
    <3>1. \A q \in Requests \ {r} : req'[q].pc = "idle"
      BY <2>2, <2>3, <2>6, OthersIdle DEF ScoreRead
    <3>2. KnowsItsEvaluation(r)'
      BY <2>6 DEF ScoreRead, Goto, KnowsItsEvaluation, Completing, Active, Locked, Status,
                  TypeOK
    <3>3. \A q \in Requests : KnowsItsEvaluation(q)'
      BY <3>1, <3>2 DEF KnowsItsEvaluation, Completing
    <3> QED BY <2>1, <2>2, <2>6, <3>3, QuietStep DEF ScoreRead
  <2>7. ASSUME NEW r \in Requests, ScorePersist(r)
        PROVE  Alone'
    <3>1. req[r].eval \in EvalIds /\ Active(req[r].eval)
      BY <2>1, <2>7, ContinuationByLabel
         DEF ScorePersist, Persisting, Alone, KnowsItsEvaluation
    <3>2. \A q \in Requests \ {r} : req'[q].pc = "idle"
      BY <2>2, <2>3, <2>7, OthersIdle DEF ScorePersist, IsIdle
    <3>3. KnowsItsEvaluation(r)'
      BY <2>7, <3>1 DEF ScorePersist, Goto, KnowsItsEvaluation, Completing, Active,
                        Idle, TypeOK
    <3>4. StoredFromResponses'
      BY <2>1, <2>7, <3>1 DEF Alone, ScorePersist, StoredFromResponses, Active, TypeOK
    <3>5. \A p \in Profiles : OpenOf(p)' = OpenOf(p)
      BY <2>7 DEF ScorePersist, OpenOf, Active
    <3> QED BY <2>1, <2>2, <3>2, <3>3, <3>4, <3>5 DEF Alone, KnowsItsEvaluation, Completing
  <2>8. ASSUME NEW r \in Requests, ScoreMark(r)
        PROVE  Alone'
    <3>1. req[r].eval \in EvalIds /\ Active(req[r].eval)
      BY <2>1, <2>8, ContinuationByLabel DEF ScoreMark, Marking, Alone, KnowsItsEvaluation
    <3>2. \A q \in Requests : req'[q].pc = "idle"
      BY <2>2, <2>3, <2>8, OthersIdle DEF ScoreMark, IsIdle, Goto, TypeOK, Idle
    <3>3. StoredFromResponses'
      BY <2>1, <2>8, <3>1 DEF Alone, ScoreMark, StoredFromResponses, Active, TypeOK
    <3>4. \A p \in Profiles : OpenOf(p)' = OpenOf(p)
      BY <2>8, <3>1 DEF ScoreMark, OpenOf, Active, TypeOK
    <3> QED BY <2>1, <2>2, <3>2, <3>3, <3>4 DEF Alone, KnowsItsEvaluation, Completing
  <2>9. ASSUME NEW r \in Requests, NEW e \in EvalIds, CompleteRead(r, e)
        PROVE  Alone'
    <3>1. \A q \in Requests \ {r} : req'[q].pc = "idle"
      BY <2>2, <2>3, <2>9, OthersIdle DEF CompleteRead
    <3>2. KnowsItsEvaluation(r)'
      BY <2>9 DEF CompleteRead, Goto, KnowsItsEvaluation, Completing, TypeOK
    <3>3. \A q \in Requests : KnowsItsEvaluation(q)'
      BY <3>1, <3>2 DEF KnowsItsEvaluation, Completing
    <3> QED BY <2>1, <2>2, <2>9, <3>3, QuietStep DEF CompleteRead
  <2>10. ASSUME NEW r \in Requests,
                CompleteSections(r) \/ ReadSectionRows(r) \/ ReadIndicatorRows(r)
         PROVE  Alone'
    <3>1. /\ Completing(r)
          /\ req'[r].pc = "gather"
          /\ req'[r].answers = req[r].answers /\ req'[r].eval = req[r].eval
          /\ \A q \in Requests \ {r} : req'[q] = req[q]
          /\ UNCHANGED <<owner, status, responses, stored>>
      BY <2>10, ContinuationByLabel
         DEF CompleteSections, ReadSectionRows, ReadIndicatorRows, Completing, Goto,
             TypeOK, Gathering
    <3>2. \A q \in Requests : KnowsItsEvaluation(q)'
      BY <2>1, <3>1 DEF Alone, KnowsItsEvaluation, Completing, OpenOf, Active
    <3> QED BY <2>1, <2>2, <3>1, <3>2, QuietStep
  <2>11. ASSUME NEW r \in Requests, CompleteRefuse(r) \/ Fail(r)
         PROVE  Alone'
    <3>1. \A q \in Requests : req'[q] = req[q] \/ req'[q].pc = "idle"
      BY <2>11 DEF CompleteRefuse, Fail, Goto, Idle, TypeOK
    <3>2. UNCHANGED <<owner, status, responses, stored>>
      BY <2>11 DEF CompleteRefuse, Fail
    <3>3. \A q \in Requests : KnowsItsEvaluation(q)'
      BY <2>1, <3>1, <3>2 DEF Alone, KnowsItsEvaluation, Completing, OpenOf, Active
    <3> QED BY <2>1, <2>2, <3>2, <3>3, QuietStep
  <2>12. ASSUME NEW r \in Requests, CompleteWrite(r)
         PROVE  Alone'
    <3>1. /\ req[r] \in Gathering /\ req[r].eval \in EvalIds
          /\ req[r].answers = responses[req[r].eval]
      BY <2>1, <2>12, ContinuationByLabel
         DEF CompleteWrite, Gathered, Gathering, Alone, KnowsItsEvaluation, Completing
    <3> DEFINE scores == ScoreInputs(req[r].answers,
                                     Excluded(req[r].secRows, req[r].indRows))
    <3>2. scores \in Answers /\ scores # None
      BY <3>1, NoneAssumption DEF ScoreInputs, Gathering, Answers
    <3>3. \A i \in Indicators : scores[i] # None => scores[i] = responses[req[r].eval][i]
      BY <3>1 DEF ScoreInputs
    <3>4. /\ stored' = [stored EXCEPT ![req[r].eval] = scores]
          /\ status' = [status EXCEPT ![req[r].eval] = "COMPLETED"]
          /\ UNCHANGED <<owner, responses, applic>>
      BY <2>12 DEF CompleteWrite
    <3> HIDE DEF scores
    <3>5. StoredFromResponses'
      BY <2>1, <3>1, <3>2, <3>3, <3>4 DEF Alone, StoredFromResponses, TypeOK
    <3>6. \A p \in Profiles : OpenOf(p)' \subseteq OpenOf(p)
      BY <3>1, <3>4 DEF OpenOf, Active, TypeOK, EvalIds
    <3>7. \A q \in Requests : req'[q].pc = "idle"
      BY <2>2, <2>3, <2>12, OthersIdle DEF CompleteWrite, Gathered, IsIdle, Goto, TypeOK, Idle
    <3> QED BY <2>1, <2>2, <3>5, <3>6, <3>7 DEF Alone, KnowsItsEvaluation, Completing
  <2>13. ASSUME NEW p \in Profiles, NEW c \in Configs, SetApplicability(p, c)
         PROVE  Alone'
    BY <2>1, <2>2, <2>13, QuietStep
       DEF SetApplicability, Alone, KnowsItsEvaluation, Completing, OpenOf, Active
  <2> QED
    BY <2>1, <2>4, <2>5, <2>6, <2>7, <2>8, <2>9, <2>10, <2>11, <2>12, <2>13
       DEF Next, Create, Score, Complete
<1> QED BY <1>1, <1>2

LEMMA AloneInvariant == HistorySpec => []AloneInv
<1>1. HistoryInit => AloneInv
  BY NoneAssumption
     DEF HistoryInit, Init, AloneInv, Alone, InFlight, IsIdle, Idle, OpenOf, Active,
         StoredFromResponses, KnowsItsEvaluation, Completing
<1>2. HistorySpec => []TypeOK
  BY HistoryWatches, TypeCorrect, PTL
<1>3. TypeOK /\ AloneInv /\ [HistoryNext]_historyVars => AloneInv'
  BY AloneStep
<1> QED BY <1>1, <1>2, <1>3, PTL DEF HistorySpec

(* createEvaluation keeps its promise of one open evaluation for each profile *)
(* as long as no two requests overlap, whichever of their calls fail.         *)
THEOREM OneOpenWhileAlone == HistorySpec => []SingleOpenWhileAlone
<1>1. AloneInv => SingleOpenWhileAlone
  <2> SUFFICES ASSUME Alone, NEW p \in Profiles
               PROVE  Cardinality(OpenOf(p)) <= 1
    BY DEF AloneInv, SingleOpenWhileAlone, SingleOpenEvaluation
  <2>1. OpenOf(p) \in SUBSET EvalIds
    BY DEF OpenOf
  <2>2. IsFiniteSet(OpenOf(p))
    <3>1. IsFiniteSet(EvalIds)
      BY BoundAssumption, FS_Interval DEF EvalIds
    <3> QED BY <2>1, <3>1, FS_Subset
  <2> QED BY <2>2, AtMostOne DEF Alone
<1> QED BY <1>1, AloneInvariant, PTL

(* As long as no two requests overlap, a completed evaluation has persisted   *)
(* scores, and they are of the responses it has.                              *)
THEOREM ScoresMatchWhileAlone == HistorySpec => []StoredFromResponsesWhileAlone
<1>1. AloneInv => StoredFromResponsesWhileAlone
  BY DEF AloneInv, Alone, StoredFromResponsesWhileAlone
<1> QED BY <1>1, AloneInvariant, PTL

-----------------------------------------------------------------------------
(* The refinement of AtomicEvaluation.                                        *)

(* A step that leaves the evaluations alone is none of AtomicEvaluation.      *)
LEMMA AtomicStutter ==
  ASSUME UNCHANGED <<owner, status, responses, stored>>
  PROVE  UNCHANGED Atomic!evaluationVars
BY DEF Atomic!evaluationVars, Phase, Exists, Active

(* The phases a step leaves alone that changes the row of one evaluation.     *)
LEMMA PhaseMoves ==
  ASSUME NEW e \in EvalIds,
         \A f \in EvalIds \ {e} : owner'[f] = owner[f] /\ status'[f] = status[f]
  PROVE  [f \in EvalIds |-> Phase(f)]'
           = [[f \in EvalIds |-> Phase(f)] EXCEPT ![e] = Phase(e)']
BY DEF Phase, Exists, Active

(* The insert of a creation that is alone finds what its lookup found.        *)
LEMMA InsertStarts ==
  ASSUME TypeOK, Alone, NEW r \in Requests, CreateInsert(r)
  PROVE  Atomic!Next
<1> DEFINE p == req[r].profile
<1>1. p \in Profiles /\ p # None
  BY ContinuationByLabel, NoneAssumption DEF CreateInsert, Creating
<1>2. OpenOf(p) = {}
  BY DEF Alone, KnowsItsEvaluation, CreateInsert
<1> HIDE DEF p
<1>3. PICK e \in EvalIds :
        /\ ~Exists(e)
        /\ owner' = [owner EXCEPT ![e] = p]
        /\ status' = [status EXCEPT ![e] = "DRAFT"]
  BY DEF CreateInsert, p
<1>4. Phase(e) = "absent" /\ Phase(e)' = "open"
  BY <1>1, <1>3 DEF Phase, Exists, Active, TypeOK
<1>5. Atomic!Open(p) = {}
  BY <1>1, <1>2, NoneAssumption DEF Atomic!Open, OpenOf, Phase, Exists
<1>6. [f \in EvalIds |-> Phase(f)]' = [[f \in EvalIds |-> Phase(f)] EXCEPT ![e] = "open"]
  BY <1>3, <1>4, PhaseMoves DEF TypeOK
<1>7. Atomic!Start(p, e)
  BY <1>3, <1>4, <1>5, <1>6 DEF Atomic!Start, CreateInsert
<1> QED BY <1>1, <1>7 DEF Atomic!Next

(* A scorer that is alone writes to an evaluation that is still open.         *)
LEMMA PersistAnswers ==
  ASSUME TypeOK, Alone, NEW r \in Requests, ScorePersist(r)
  PROVE  Atomic!Next
<1>1. /\ req[r].eval \in EvalIds /\ Exists(req[r].eval) /\ Active(req[r].eval)
      /\ req[r].batch \in Atomic!Batches
  BY ContinuationByLabel
     DEF ScorePersist, Persisting, Alone, KnowsItsEvaluation, TypeOK, IsIdle, Atomic!Batches
<1>2. Phase(req[r].eval) = "open"
  BY <1>1 DEF Phase
<1>3. [f \in EvalIds |-> Phase(f)]' = [f \in EvalIds |-> Phase(f)]
  BY DEF ScorePersist, Phase, Exists, Active
<1>4. Atomic!Answer(req[r].eval, req[r].batch)
  BY <1>1, <1>2, <1>3 DEF Atomic!Answer, ScorePersist
<1> QED BY <1>1, <1>4 DEF Atomic!Next

(* Its second write is not seen: DRAFT and IN_PROGRESS are one phase.         *)
LEMMA MarkStutters ==
  ASSUME TypeOK, Alone, NEW r \in Requests, ScoreMark(r)
  PROVE  UNCHANGED Atomic!evaluationVars
<1>1. req[r].eval \in EvalIds /\ Active(req[r].eval)
  BY ContinuationByLabel DEF ScoreMark, Marking, Alone, KnowsItsEvaluation
<1>2. \A f \in EvalIds : Phase(f)' = Phase(f)
  BY <1>1 DEF ScoreMark, Phase, Exists, Active, TypeOK
<1> QED BY <1>2 DEF ScoreMark, Atomic!evaluationVars

(* A completion that is alone persists the scores of the answers there are.   *)
LEMMA WriteFinishes ==
  ASSUME TypeOK, Alone, NEW r \in Requests, CompleteWrite(r)
  PROVE  Atomic!Next
<1>1. /\ req[r] \in Gathering /\ req[r].eval \in EvalIds /\ Exists(req[r].eval)
      /\ req[r].answers = responses[req[r].eval]
  BY ContinuationByLabel
     DEF CompleteWrite, Gathered, Gathering, Alone, KnowsItsEvaluation, Completing, TypeOK,
         IsIdle
<1>2. PICK e \in EvalIds : e = req[r].eval
  BY <1>1
<1>3. PICK excluded \in SUBSET Indicators : excluded = Excluded(req[r].secRows, req[r].indRows)
  BY <1>1 DEF Excluded, CompleteWrite, Gathered, Gathering
<1>4. /\ status' = [status EXCEPT ![e] = "COMPLETED"]
      /\ stored' = [stored EXCEPT ![e] = ScoreInputs(responses[e], excluded)]
      /\ UNCHANGED <<owner, responses>>
  BY <1>1, <1>2, <1>3 DEF CompleteWrite
<1>5. Phase(e) # "absent" /\ Phase(e)' = "completed"
  BY <1>1, <1>2, <1>4 DEF Phase, Exists, Active, TypeOK
<1>6. [f \in EvalIds |-> Phase(f)]'
        = [[f \in EvalIds |-> Phase(f)] EXCEPT ![e] = "completed"]
  BY <1>4, <1>5, PhaseMoves DEF TypeOK
<1>7. Atomic!Finish(e, excluded)
  BY <1>4, <1>5, <1>6 DEF Atomic!Finish, ScoreInputs
<1> QED BY <1>7 DEF Atomic!Next

(* Every step before an overlap is an operation of AtomicEvaluation or none.  *)
LEMMA AtomicStep ==
  ASSUME TypeOK, AloneInv, [HistoryNext]_historyVars
  PROVE  [overlapped' \/ Atomic!Next]_(Atomic!evaluationVars)
<1> SUFFICES ASSUME ~overlapped', ~(UNCHANGED historyVars)
             PROVE  Atomic!Next \/ UNCHANGED Atomic!evaluationVars
  BY AtomicStutter DEF historyVars
<1>1. Next /\ Alone
  BY DEF HistoryNext, AloneInv
<1>2. ASSUME NEW r \in Requests, Create(r)
      PROVE  Atomic!Next \/ UNCHANGED Atomic!evaluationVars
  BY <1>1, <1>2, InsertStarts, AtomicStutter DEF Create, CreateLookup
<1>3. ASSUME NEW r \in Requests, Score(r)
      PROVE  Atomic!Next \/ UNCHANGED Atomic!evaluationVars
  BY <1>1, <1>3, PersistAnswers, MarkStutters, AtomicStutter DEF Score, ScoreRead
<1>4. ASSUME NEW r \in Requests, Complete(r)
      PROVE  Atomic!Next \/ UNCHANGED Atomic!evaluationVars
  BY <1>1, <1>4, WriteFinishes, AtomicStutter
     DEF Complete, CompleteRead, CompleteSections, ReadSectionRows, ReadIndicatorRows,
         CompleteRefuse
<1>5. ASSUME NEW r \in Requests, Fail(r)
      PROVE  UNCHANGED Atomic!evaluationVars
  BY <1>5, AtomicStutter DEF Fail
<1>6. ASSUME NEW p \in Profiles, NEW c \in Configs, SetApplicability(p, c)
      PROVE  UNCHANGED Atomic!evaluationVars
  BY <1>6, AtomicStutter DEF SetApplicability
<1> QED BY <1>1, <1>2, <1>3, <1>4, <1>5, <1>6 DEF Next

(* Until two requests overlap, the evaluations are those of AtomicEvaluation:  *)
(* one open for each profile, scored only while open, completed from the      *)
(* answers they have; for any number of requests, profiles and KPI, whichever *)
(* calls fail and whatever is excluded meanwhile.                             *)
THEOREM LifecycleIsAtomicWhileAlone == HistorySpec => AtomicWhileAlone
<1>1. HistoryInit => Atomic!Init
  BY DEF HistoryInit, Init, Atomic!Init, Phase, Exists, NoAnswers
<1>2. HistorySpec => []TypeOK
  BY HistoryWatches, TypeCorrect, PTL
<1>3. TypeOK /\ AloneInv /\ [HistoryNext]_historyVars
        => [overlapped' \/ Atomic!Next]_(Atomic!evaluationVars)
  BY AtomicStep
<1> QED BY <1>1, <1>2, <1>3, AloneInvariant, PTL DEF HistorySpec, AtomicWhileAlone

-----------------------------------------------------------------------------
(***************************************************************************)
(* ActionPlan.                                                             *)
(***************************************************************************)

(* The two kinds of tool only add to the common life of an evaluation: every  *)
(* step is a step of EvaluationLifecycle or leaves its state alone.          *)
LEMMA PlanStepIsLifecycleStep == [PlanNext]_allVars => [Next]_vars
<1> SUFFICES ASSUME [PlanNext]_allVars PROVE [Next]_vars
  OBVIOUS
<1>1. ASSUME NEW r \in Requests, BeginScore(r) PROVE Next
  BY <1>1 DEF BeginScore, Next, Score
<1>2. ASSUME NEW r \in Requests, PersistResponses(r) PROVE Next
  BY <1>2 DEF PersistResponses, Next, Score
<1>3. ASSUME NEW r \in Requests, Reject(r) PROVE Next
  BY <1>3 DEF Reject, Next
<1>4. ASSUME CommonFlow PROVE Next
  BY <1>4 DEF CommonFlow, Next, Score
<1>5. \/ UNCHANGED vars
      \/ \E r \in Requests : BeginScore(r) \/ PersistResponses(r) \/ Reject(r)
      \/ CommonFlow
  BY DEF PlanNext, allVars, ResolveRiskThreshold, UpsertCountryParam, DeleteCountryParam,
         MeasureRead, MeasureCreate, ProgressRead, ProgressWrite, RejectPlan
<1> QED BY <1>1, <1>2, <1>3, <1>4, <1>5

(* So what is proved of EvaluationLifecycle holds of the tools: the bound on  *)
(* open evaluations, and the finality of a settled completed one.            *)
THEOREM PlanKeepsLifecycle == PlanSpec => Spec
<1>1. PlanInit => Init
  BY DEF PlanInit
<1> QED BY <1>1, PlanStepIsLifecycleStep, PTL DEF PlanSpec, Spec

(* The plan, run beside the evaluations, leaves them well typed. *)
THEOREM PlanTypesOfLifecycle == PlanSpec => []TypeOK
  BY PlanKeepsLifecycle, TypeCorrect, PTL


-----------------------------------------------------------------------------
(* Types.                                                                   *)

(* The columns of the responses and risks, and the thresholds. *)
ScoringTyped ==
  /\ tool \in Tools
  /\ params \in [Spellings -> Thresholds \union {None}]
  /\ flagged \in [EvalIds -> [Indicators -> BOOLEAN]]
  /\ class \in [EvalIds -> [Indicators -> {"NEGLIGIBLE", "NON_NEGLIGIBLE", None}]]
  /\ rule \in [Requests -> 1 .. 10 \union {None}]
  /\ inForce \in [Requests -> SUBSET (1 .. 10)]
  /\ needed \subseteq EvalIds \X Indicators

(* The measures and the requests about them. *)
MeasuresTyped ==
  /\ measures \in [MeasureIds -> Row \union {None}]
  /\ \A m \in Created : measures[m].status = measureStatusFor(measures[m].progress)
  /\ plan \in [Planners -> {NoPlan} \union Creation \union Progressing]
  /\ \A q \in Planners : plan[q].pc = "progress" => plan[q].measure \in Created

(* A threshold in force is one of those that can be set, or the default. *)
LEMMA EffectiveTyped ==
  ASSUME params \in [Spellings -> Thresholds \union {None}], NEW p \in Profiles
  PROVE  Effective(p) \in 1 .. 10
<1>1. params[CountryOf[p]] \in Thresholds \union {None}
  BY CountryAssumption
<1>2. params[CountryOf[p]] # None => params[CountryOf[p]] \in 1 .. 10
  BY <1>1, ThresholdAssumption
<1>3. TemplateThreshold # None => TemplateThreshold \in 1 .. 10
  BY ThresholdAssumption
<1>4. 5 \in 1 .. 10
  OBVIOUS
<1> QED BY <1>2, <1>3, <1>4, Zenon DEF Effective

LEMMA EffectiveTypedNext ==
  ASSUME (params \in [Spellings -> Thresholds \union {None}])'
  PROVE  \A p \in Profiles : Effective(p)' \in 1 .. 10
<1> SUFFICES ASSUME NEW p \in Profiles PROVE Effective(p)' \in 1 .. 10
  OBVIOUS
<1>1. params'[CountryOf[p]] \in Thresholds \union {None}
  BY CountryAssumption
<1>2. params'[CountryOf[p]] # None => params'[CountryOf[p]] \in 1 .. 10
  BY <1>1, ThresholdAssumption
<1>3. TemplateThreshold # None => TemplateThreshold \in 1 .. 10
  BY ThresholdAssumption
<1>4. 5 \in 1 .. 10
  OBVIOUS
<1> QED BY <1>2, <1>3, <1>4, Zenon DEF Effective

(* A request about an evaluation knows its profile. *)
LEMMA OwnerOfScored ==
  ASSUME TypeOK, NEW r \in Requests, req[r].pc = "persist"
  PROVE  /\ req[r].eval \in EvalIds /\ Exists(req[r].eval)
         /\ owner[req[r].eval] \in Profiles
         /\ DOMAIN req[r].batch \subseteq Indicators
         /\ \A i \in DOMAIN req[r].batch : req[r].batch[i] \in Scores
<1>1. req[r] \in Persisting
  BY ContinuationByLabel
<1>2. req[r].eval \in EvalIds /\ Exists(req[r].eval)
  BY <1>1 DEF TypeOK, IsIdle, Persisting
<1>3. PICK J \in SUBSET Indicators : req[r].batch \in [J -> Scores]
  BY <1>1 DEF Persisting
<1> QED BY <1>2, <1>3 DEF TypeOK, Exists

LEMMA ScoringTypedStep ==
  ASSUME TypeOK, ScoringTyped, [PlanNext]_allVars
  PROVE  ScoringTyped'
<1>1. ASSUME NEW r \in Requests, BeginScore(r)
      PROVE  ScoringTyped'
  <2>1. PICK e \in EvalIds :
          /\ Exists(e)
          /\ inForce' = [inForce EXCEPT ![r] =
               IF tool = "RISK" THEN {Effective(owner[e])} ELSE {}]
    BY <1>1 DEF BeginScore, ScoreRead
  <2>2. Effective(owner[e]) \in 1 .. 10
    BY <2>1, EffectiveTyped DEF ScoringTyped, TypeOK, Exists
  <2>3. inForce' \in [Requests -> SUBSET (1 .. 10)]
    BY <2>1, <2>2 DEF ScoringTyped
  <2> QED BY <1>1, <2>3 DEF BeginScore, ScoringTyped
<1>2. ASSUME NEW r \in Requests, ResolveRiskThreshold(r)
      PROVE  ScoringTyped'
  <2>1. Effective(owner[req[r].eval]) \in 1 .. 10
    BY <1>2, EffectiveTyped, OwnerOfScored DEF ResolveRiskThreshold, ScoringTyped
  <2> QED BY <1>2, <2>1 DEF ResolveRiskThreshold, ScoringTyped
<1>3. ASSUME NEW r \in Requests, PersistResponses(r)
      PROVE  ScoringTyped'
  <2>1. req[r].pc = "persist"
    BY <1>3 DEF PersistResponses, ScorePersist
  <2>2. PICK marked \in SUBSET DOMAIN req[r].batch : Flag(r, marked)
    BY <1>3 DEF PersistResponses
  <2>3. flagged' \in [EvalIds -> [Indicators -> BOOLEAN]]
    BY <2>2, OwnerOfScored, <2>1, ZenonT(30) DEF Flag, ScoringTyped
  <2>4. class' \in [EvalIds -> [Indicators -> {"NEGLIGIBLE", "NON_NEGLIGIBLE", None}]]
    <3>1. \A x, t : classifyRisk(x, t) \in {"NEGLIGIBLE", "NON_NEGLIGIBLE"}
      BY Zenon DEF classifyRisk
    <3>2. class' = class \/ Classify(r)
      BY <1>3 DEF PersistResponses
    <3> DEFINE Of(i) == classifyRisk(req[r].batch[i], rule[r])
               T == {"NEGLIGIBLE", "NON_NEGLIGIBLE", None}
    <3>3. \A i : Of(i) \in T
      BY <3>1
    <3>4. Classify(r) => class' = [class EXCEPT ![req[r].eval] =
             [i \in Indicators |->
                IF i \in DOMAIN req[r].batch THEN Of(i) ELSE class[req[r].eval][i]]]
      BY <2>1, OwnerOfScored DEF Classify, ScoringTyped
    <3> HIDE DEF Of, T
    <3>5. class \in [EvalIds -> [Indicators -> T]]
      BY DEF ScoringTyped, T
    <3>6. class' \in [EvalIds -> [Indicators -> T]]
      BY <3>2, <3>3, <3>4, <3>5, <2>1, OwnerOfScored
    <3> QED BY <3>6 DEF T
  <2>5. needed' \subseteq EvalIds \X Indicators
    BY <1>3 DEF PersistResponses, Note, ScoringTyped
  <2> QED BY <1>3, <2>3, <2>4, <2>5 DEF PersistResponses, ScoringTyped
<1>4. ASSUME NEW r \in Requests, Reject(r)
      PROVE  ScoringTyped'
  BY <1>4 DEF Reject, ScoringTyped
<1>5. ASSUME NEW s \in Spellings, NEW t \in Thresholds \union {None},
             params' = [params EXCEPT ![Upper[s]] = t], Enforce,
             UNCHANGED <<vars, tool, flagged, class, rule, needed>>
      PROVE  ScoringTyped'
  <2>1. params' \in [Spellings -> Thresholds \union {None}]
    BY <1>5 DEF ScoringTyped
  <2>2. ASSUME NEW r \in Requests, req[r].pc = "persist"
        PROVE  Effective(owner[req[r].eval])' \in 1 .. 10
    <3>1. owner[req[r].eval] \in Profiles
      BY <2>2, OwnerOfScored
    <3>2. (owner[req[r].eval])' = owner[req[r].eval]
      BY <1>5 DEF vars
    <3>3. \A p \in Profiles : Effective(p)' \in 1 .. 10
      BY <2>1, EffectiveTypedNext
    <3> QED BY <3>1, <3>2, <3>3 DEF Effective
  <2>3. inForce' \in [Requests -> SUBSET (1 .. 10)]
    BY <1>5, <2>2 DEF Enforce, ScoringTyped
  <2> QED BY <1>5, <2>1, <2>3 DEF ScoringTyped
<1>6. \/ UNCHANGED <<tool, params, flagged, class, rule, inForce, needed>>
      \/ \E r \in Requests :
           BeginScore(r) \/ ResolveRiskThreshold(r) \/ PersistResponses(r) \/ Reject(r)
      \/ \E s \in Spellings :
           DeleteCountryParam(s) \/ \E t \in Thresholds : UpsertCountryParam(s, t)
  BY DEF PlanNext, allVars, riskVars, CommonFlow, MeasureRead, MeasureCreate,
         ProgressRead, ProgressWrite, RejectPlan
<1>7. ASSUME UNCHANGED <<tool, params, flagged, class, rule, inForce, needed>>
      PROVE  ScoringTyped'
  BY <1>7 DEF ScoringTyped
<1>8. ASSUME NEW s \in Spellings,
             DeleteCountryParam(s) \/ \E t \in Thresholds : UpsertCountryParam(s, t)
      PROVE  ScoringTyped'
  BY <1>5, <1>8 DEF DeleteCountryParam, UpsertCountryParam
<1> QED BY <1>1, <1>2, <1>3, <1>4, <1>6, <1>7, <1>8

LEMMA MeasuresTypedStep ==
  ASSUME MeasuresTyped, [PlanNext]_allVars
  PROVE  MeasuresTyped'
<1>1. ASSUME NEW q \in Planners, NEW e \in EvalIds, NEW i \in Indicators,
             MeasureRead(q, e, i)
      PROVE  MeasuresTyped'
  <2>1. [pc |-> "create", eval |-> e, indicator |-> i] \in Creation
    BY DEF Creation
  <2> QED BY <1>1, <2>1 DEF MeasureRead, GotoPlan, MeasuresTyped, Created
<1>2. ASSUME NEW q \in Planners, MeasureCreate(q)
      PROVE  MeasuresTyped'
  <2>1. plan[q] \in Creation
    BY <1>2 DEF MeasureCreate, MeasuresTyped, NoPlan, Progressing
  <2> DEFINE new == [eval |-> plan[q].eval, indicator |-> plan[q].indicator,
                     progress |-> 0, status |-> "PENDING"]
  <2>2. PICK m \in MeasureIds \ Created : measures' = [measures EXCEPT ![m] = new]
    BY <1>2 DEF MeasureCreate
  <2>3. new \in Row /\ new.status = measureStatusFor(new.progress)
    BY <2>1, PlanAssumption DEF Creation, Row, measureStatusFor
  <2>4. new # None
    BY <2>3, NoMeasureAssumption DEF Row
  <2> HIDE DEF new
  <2>5. Created' = Created \union {m}
    BY <2>2, <2>4 DEF Created, MeasuresTyped
  <2>6. /\ measures' \in [MeasureIds -> Row \union {None}]
        /\ \A n \in Created' : measures'[n].status = measureStatusFor(measures'[n].progress)
    BY <2>2, <2>3, <2>5 DEF MeasuresTyped
  <2> QED BY <1>2, <2>5, <2>6 DEF MeasureCreate, GotoPlan, MeasuresTyped, NoPlan
<1>3. ASSUME NEW q \in Planners, NEW m \in MeasureIds, ProgressRead(q, m)
      PROVE  MeasuresTyped'
  <2>1. [pc |-> "progress", measure |-> m] \in Progressing
    BY DEF Progressing
  <2> QED BY <1>3, <2>1 DEF ProgressRead, GotoPlan, MeasuresTyped, Created
<1>4. ASSUME NEW q \in Planners, NEW pct \in ProgressSteps, ProgressWrite(q, pct)
      PROVE  MeasuresTyped'
  <2> DEFINE m == plan[q].measure
             new == [measures[m] EXCEPT !.progress = pct, !.status = measureStatusFor(pct)]
  <2>1. m \in Created /\ measures[m] \in Row
    BY <1>4 DEF ProgressWrite, MeasuresTyped, Created
  <2>2. measures' = [measures EXCEPT ![m] = new]
    BY <1>4 DEF ProgressWrite
  <2>3. new \in Row /\ new.status = measureStatusFor(new.progress)
    BY <2>1 DEF Row, measureStatusFor
  <2>4. new # None
    BY <2>3, NoMeasureAssumption DEF Row
  <2> HIDE DEF new, m
  <2>5. Created' = Created
    BY <2>1, <2>2, <2>4 DEF Created, MeasuresTyped
  <2>6. measures' \in [MeasureIds -> Row \union {None}]
    BY <2>1, <2>2, <2>3 DEF MeasuresTyped
  <2>7. ASSUME NEW n \in Created
        PROVE  measures'[n].status = measureStatusFor(measures'[n].progress)
    <3>1. CASE n = m
      BY <3>1, <2>1, <2>2, <2>3 DEF MeasuresTyped, Created
    <3>2. CASE n # m
      BY <3>2, <2>2 DEF MeasuresTyped, Created
    <3> QED BY <3>1, <3>2
  <2> QED BY <1>4, <2>5, <2>6, <2>7 DEF ProgressWrite, GotoPlan, MeasuresTyped, NoPlan
<1>5. ASSUME NEW q \in Planners, RejectPlan(q)
      PROVE  MeasuresTyped'
  BY <1>5 DEF RejectPlan, GotoPlan, MeasuresTyped, NoPlan, Created
<1>6. \/ UNCHANGED planVars
      \/ \E q \in Planners :
           \/ \E e \in EvalIds, i \in Indicators : MeasureRead(q, e, i)
           \/ MeasureCreate(q)
           \/ \E m \in MeasureIds : ProgressRead(q, m)
           \/ \E pct \in ProgressSteps : ProgressWrite(q, pct)
           \/ RejectPlan(q)
  BY DEF PlanNext, allVars, BeginScore, ResolveRiskThreshold, PersistResponses, Reject,
         CommonFlow, UpsertCountryParam, DeleteCountryParam
<1>7. ASSUME UNCHANGED planVars
      PROVE  MeasuresTyped'
  BY <1>7 DEF planVars, MeasuresTyped, Created
<1> QED BY <1>1, <1>2, <1>3, <1>4, <1>5, <1>6, <1>7

(* Columns and continuations keep their types, and the status of a measure    *)
(* is that of its progress.                                                 *)
THEOREM PlanTypeCorrect == PlanSpec => []PlanTypeOK
<1>1. PlanInit => ScoringTyped /\ MeasuresTyped
  BY DEF PlanInit, ScoringTyped, MeasuresTyped, Created, NoPlan
<1>2. TypeOK /\ ScoringTyped /\ MeasuresTyped /\ [PlanNext]_allVars
        => ScoringTyped' /\ MeasuresTyped'
  BY ScoringTypedStep, MeasuresTypedStep
<1>3. ScoringTyped /\ MeasuresTyped => PlanTypeOK
  BY DEF ScoringTyped, MeasuresTyped, PlanTypeOK
<1> QED BY <1>1, <1>2, <1>3, PlanTypesOfLifecycle, PTL DEF PlanSpec


-----------------------------------------------------------------------------
(* Risks.                                                                   *)

(* What the common flow leaves alone: the responses, the profile of an        *)
(* evaluation that exists, and every scorer about to write.                  *)
LEMMA CommonFlowKeeps ==
  ASSUME TypeOK, CommonFlow
  PROVE  /\ responses' = responses
         /\ \A e \in EvalIds : Exists(e) => owner'[e] = owner[e]
         /\ \A q \in Requests :
              req[q].pc = "persist" \/ req'[q].pc = "persist" => req'[q] = req[q]
<1> DEFINE Kept ==
      /\ responses' = responses
      /\ \A e \in EvalIds : Exists(e) => owner'[e] = owner[e]
      /\ \A q \in Requests :
           req[q].pc = "persist" \/ req'[q].pc = "persist" => req'[q] = req[q]
<1>1. ASSUME NEW r \in Requests, NEW k, Goto(r, k), req[r].pc # "persist",
             k.pc # "persist", responses' = responses,
             \A e \in EvalIds : Exists(e) => owner'[e] = owner[e]
      PROVE  Kept
  BY <1>1 DEF Goto, TypeOK
<1>2. ASSUME NEW r \in Requests, Create(r)
      PROVE  Kept
  <2>1. ASSUME NEW p \in Profiles, CreateLookup(r, p)
        PROVE  Kept
    BY <2>1, <1>1 DEF CreateLookup, IsIdle
  <2>2. ASSUME CreateInsert(r)
        PROVE  Kept
    <3>1. \A e \in EvalIds : Exists(e) => owner'[e] = owner[e]
      BY <2>2 DEF CreateInsert, TypeOK
    <3> QED BY <2>2, <3>1, <1>1 DEF CreateInsert, Idle
  <2> QED BY <1>2, <2>1, <2>2 DEF Create
<1>3. ASSUME NEW r \in Requests, ScoreMark(r)
      PROVE  Kept
  BY <1>3, <1>1 DEF ScoreMark, Idle
<1>4. ASSUME NEW r \in Requests, Complete(r)
      PROVE  Kept
  <2>1. ASSUME NEW e \in EvalIds, CompleteRead(r, e)
        PROVE  Kept
    BY <2>1, <1>1 DEF CompleteRead, IsIdle
  <2>2. ASSUME CompleteSections(r)
        PROVE  Kept
    BY <2>2, <1>1 DEF CompleteSections
  <2>3. ASSUME ReadSectionRows(r) \/ ReadIndicatorRows(r)
        PROVE  Kept
    <3>1. req[r] \in Gathering
      BY <2>3, ContinuationByLabel DEF ReadSectionRows, ReadIndicatorRows
    <3>2. \A x : /\ [req[r] EXCEPT !.secRows = x].pc = "gather"
                 /\ [req[r] EXCEPT !.indRows = x].pc = "gather"
      BY <3>1 DEF Gathering
    <3> QED BY <2>3, <3>2, <1>1 DEF ReadSectionRows, ReadIndicatorRows
  <2>4. ASSUME CompleteRefuse(r) \/ CompleteWrite(r)
        PROVE  Kept
    BY <2>4, <1>1 DEF CompleteRefuse, CompleteWrite, Gathered, Idle
  <2> QED BY <1>4, <2>1, <2>2, <2>3, <2>4 DEF Complete
<1>5. ASSUME NEW p \in Profiles, NEW c \in Configs, SetApplicability(p, c)
      PROVE  Kept
  BY <1>5 DEF SetApplicability
<1> QED BY <1>2, <1>3, <1>4, <1>5 DEF CommonFlow

(* The classes and the flags change only where responses are persisted. *)
LEMMA OnlyPersistingClassifies ==
  ASSUME [PlanNext]_allVars,
         ~ \E r \in Requests : PersistResponses(r)
  PROVE  UNCHANGED <<class, flagged>>
  BY DEF PlanNext, allVars, riskVars, BeginScore, ResolveRiskThreshold, Reject, CommonFlow,
         UpsertCountryParam, DeleteCountryParam, MeasureRead, MeasureCreate, ProgressRead,
         ProgressWrite, RejectPlan

LEMMA OnlyPersistingAnswers ==
  ASSUME TypeOK, [PlanNext]_allVars,
         ~ \E r \in Requests : PersistResponses(r)
  PROVE  UNCHANGED <<responses, class>>
<1>1. CommonFlow => UNCHANGED responses
  BY CommonFlowKeeps
<1>2. \A r \in Requests : BeginScore(r) \/ Reject(r) => UNCHANGED responses
  BY DEF BeginScore, Reject, ScoreRead, Fail
<1> QED BY <1>1, <1>2, OnlyPersistingClassifies
        DEF PlanNext, allVars, vars, ResolveRiskThreshold, UpsertCountryParam,
            DeleteCountryParam, MeasureRead, MeasureCreate, ProgressRead, ProgressWrite,
            RejectPlan

(* In the risk tool a response and its risk are there together or not at all, *)
(* at every moment.                                                         *)
THEOREM RisksFollowResponses == PlanSpec => []RiskPerResponse
<1>1. PlanInit => RiskPerResponse
  BY DEF PlanInit, Init, NoAnswers, RiskPerResponse
<1>2. TypeOK /\ ScoringTyped /\ RiskPerResponse /\ [PlanNext]_allVars
        => RiskPerResponse'
  <2> SUFFICES ASSUME TypeOK, ScoringTyped, RiskPerResponse, [PlanNext]_allVars,
                      tool' = "RISK", NEW e \in EvalIds, NEW i \in Indicators
               PROVE  class'[e][i] = None <=> responses'[e][i] = None
    BY DEF RiskPerResponse
  <2>1. tool = "RISK"
    BY DEF PlanNext, allVars, BeginScore, ResolveRiskThreshold, PersistResponses, Reject,
           CommonFlow, UpsertCountryParam, DeleteCountryParam, MeasureRead, MeasureCreate,
           ProgressRead, ProgressWrite, RejectPlan
  <2>2. ASSUME NEW r \in Requests, PersistResponses(r)
        PROVE  class'[e][i] = None <=> responses'[e][i] = None
    <3>1. req[r].pc = "persist" /\ Classify(r)
      BY <2>1, <2>2 DEF PersistResponses, ScorePersist
    <3>2. \A x, t : classifyRisk(x, t) # None
      BY NoValueAssumption DEF classifyRisk
    <3>3. \A j \in DOMAIN req[r].batch : req[r].batch[j] # None
      BY <3>1, OwnerOfScored, NoneAssumption
    <3>4. CASE req[r].eval = e /\ i \in DOMAIN req[r].batch
      <4>1. class'[e][i] = classifyRisk(req[r].batch[i], rule[r])
        BY <3>1, <3>4 DEF Classify, ScoringTyped
      <4>2. responses'[e][i] = req[r].batch[i]
        BY <2>2, <3>4 DEF PersistResponses, ScorePersist, TypeOK
      <4> QED BY <3>2, <3>3, <3>4, <4>1, <4>2
    <3>5. CASE ~(req[r].eval = e /\ i \in DOMAIN req[r].batch)
      <4>1. class'[e][i] = class[e][i]
        BY <3>1, <3>5 DEF Classify, ScoringTyped
      <4>2. responses'[e][i] = responses[e][i]
        BY <2>2, <3>5 DEF PersistResponses, ScorePersist, TypeOK, Answers
      <4> QED BY <4>1, <4>2, <2>1 DEF RiskPerResponse
    <3> QED BY <3>4, <3>5
  <2>3. CASE ~ \E r \in Requests : PersistResponses(r)
    BY <2>1, <2>3, OnlyPersistingAnswers DEF RiskPerResponse
  <2> QED BY <2>2, <2>3
<1>3. PlanInit => ScoringTyped
  BY DEF PlanInit, ScoringTyped
<1> QED BY <1>1, <1>2, <1>3, ScoringTypedStep, PlanTypesOfLifecycle, PTL DEF PlanSpec


(* While a scorer is under way the threshold in force is one of those it has  *)
(* lived under, and so is the one it has read.                              *)
RuleInForce ==
  /\ \A r \in Requests : req[r].pc # "persist" => rule[r] = None
  /\ \A r \in Requests : rule[r] # None => rule[r] \in inForce[r]
  /\ tool = "RISK" =>
       \A r \in Requests :
         req[r].pc = "persist" => Effective(owner[req[r].eval]) \in inForce[r]

LEMMA RuleInForceStep ==
  ASSUME TypeOK, ScoringTyped, RuleInForce, [PlanNext]_allVars
  PROVE  RuleInForce'
<1>1. ASSUME NEW r \in Requests, BeginScore(r)
      PROVE  RuleInForce'
  <2>1. PICK e \in EvalIds, b \in Batches :
          /\ req[r].pc = "idle"
          /\ req' = [req EXCEPT ![r] =
               [pc |-> "persist", eval |-> e, seen |-> status[e], batch |-> b]]
          /\ inForce' = [inForce EXCEPT ![r] =
               IF tool = "RISK" THEN {Effective(owner[e])} ELSE {}]
          /\ owner' = owner
    BY <1>1 DEF BeginScore, ScoreRead, IsIdle, Goto
  <2>2. UNCHANGED <<tool, params, rule>>
    BY <1>1 DEF BeginScore
  <2>3. \A q \in Requests : q # r => req'[q] = req[q] /\ inForce'[q] = inForce[q]
    BY <2>1 DEF TypeOK, ScoringTyped
  <2>4. /\ req'[r].pc = "persist" /\ req'[r].eval = e
        /\ rule'[r] = None
        /\ tool = "RISK" => inForce'[r] = {Effective(owner[e])}
    BY <2>1, <2>2 DEF TypeOK, ScoringTyped, RuleInForce
  <2>5. \A q \in Requests : rule'[q] = rule[q] /\ (q # r \/ rule'[q] = None)
    BY <2>2, <2>4
  <2>6. ASSUME NEW q \in Requests, tool = "RISK", req'[q].pc = "persist"
        PROVE  Effective(owner[req[q].eval])' \in inForce'[q]
    <3>1. (owner[req[q].eval])' = owner[req'[q].eval]
      BY <2>1
    <3>2. Effective(owner[req[q].eval])' = Effective(owner[req'[q].eval])
      BY <2>2, <3>1 DEF Effective
    <3> QED BY <2>3, <2>4, <2>6, <3>2 DEF RuleInForce
  <2> QED BY <2>1, <2>2, <2>3, <2>4, <2>5, <2>6 DEF RuleInForce
<1>2. ASSUME NEW r \in Requests, ResolveRiskThreshold(r)
      PROVE  RuleInForce'
  BY <1>2 DEF ResolveRiskThreshold, RuleInForce, ScoringTyped, Effective, vars
<1>3. ASSUME NEW r \in Requests, PersistResponses(r) \/ Reject(r)
      PROVE  RuleInForce'
  <2>1. PICK k : Goto(r, k) /\ k.pc # "persist"
    BY <1>3 DEF PersistResponses, Reject, ScorePersist, Fail, Idle
  <2>2. /\ owner' = owner /\ UNCHANGED <<tool, params>>
        /\ rule' = [rule EXCEPT ![r] = None] /\ inForce' = [inForce EXCEPT ![r] = {}]
    BY <1>3 DEF PersistResponses, Reject, ScorePersist, Fail
  <2> QED BY <2>1, <2>2 DEF Goto, RuleInForce, ScoringTyped, TypeOK, Effective
<1>4. ASSUME CommonFlow
      PROVE  RuleInForce'
  <2>1. UNCHANGED <<tool, params, rule, inForce>>
    BY <1>4 DEF CommonFlow, riskVars
  <2>2. \A q \in Requests : req'[q].pc = "persist" =>
          req'[q] = req[q] /\ owner'[req[q].eval] = owner[req[q].eval]
    BY <1>4, CommonFlowKeeps, OwnerOfScored
  <2>3. \A q \in Requests : req'[q].pc # "persist" => req[q].pc # "persist"
    BY <1>4, CommonFlowKeeps
  <2> QED BY <2>1, <2>2, <2>3 DEF RuleInForce, Effective
<1>5. ASSUME Enforce, UNCHANGED <<vars, tool, rule>>
      PROVE  RuleInForce'
  <2>1. UNCHANGED <<req, owner>>
    BY <1>5 DEF vars
  <2>2. ASSUME NEW r \in Requests
        PROVE  /\ inForce[r] \subseteq inForce'[r]
               /\ tool = "RISK" /\ req[r].pc = "persist" =>
                    Effective(owner[req[r].eval])' \in inForce'[r]
    BY <1>5 DEF Enforce
  <2> QED BY <1>5, <2>1, <2>2 DEF RuleInForce
<1>6. \/ UNCHANGED <<req, owner, tool, params, rule, inForce>>
      \/ \E r \in Requests :
           BeginScore(r) \/ ResolveRiskThreshold(r) \/ PersistResponses(r) \/ Reject(r)
      \/ CommonFlow
      \/ Enforce /\ UNCHANGED <<vars, tool, rule>>
  BY DEF PlanNext, allVars, vars, riskVars, MeasureRead, MeasureCreate, ProgressRead,
         ProgressWrite, RejectPlan, UpsertCountryParam, DeleteCountryParam
<1>7. ASSUME UNCHANGED <<req, owner, tool, params, rule, inForce>>
      PROVE  RuleInForce'
  BY <1>7 DEF RuleInForce, Effective
<1> QED BY <1>1, <1>2, <1>3, <1>4, <1>5, <1>6, <1>7

(* However the thresholds are changed, the risks of one request are           *)
(* classified by one threshold that was in force while it lasted.           *)
THEOREM ClassesWereInForce == PlanSpec => ClassifiedInForce
<1> DEFINE Justified ==
      \A e \in EvalIds : class'[e] # class[e] =>
        \E r \in Requests : \E t \in inForce[r] :
          /\ req[r].eval = e
          /\ \A i \in Indicators : class'[e][i] # class[e][i] =>
               class'[e][i] = classifyRisk(responses'[e][i], t)
<1>1. TypeOK /\ ScoringTyped /\ RuleInForce /\ [PlanNext]_allVars => Justified
  <2> SUFFICES ASSUME TypeOK, ScoringTyped, RuleInForce, [PlanNext]_allVars,
                      NEW e \in EvalIds, class'[e] # class[e]
               PROVE  \E r \in Requests : \E t \in inForce[r] :
                        /\ req[r].eval = e
                        /\ \A i \in Indicators : class'[e][i] # class[e][i] =>
                             class'[e][i] = classifyRisk(responses'[e][i], t)
    OBVIOUS
  <2>1. PICK r \in Requests : PersistResponses(r)
    BY OnlyPersistingClassifies
  <2>2. req[r].pc = "persist" /\ Classify(r) /\ rule[r] \in inForce[r]
    BY <2>1 DEF PersistResponses, ScorePersist, RuleInForce
  <2>3. req[r].eval = e
    BY <2>2 DEF Classify, ScoringTyped
  <2>4. ASSUME NEW i \in Indicators, class'[e][i] # class[e][i]
        PROVE  class'[e][i] = classifyRisk(responses'[e][i], rule[r])
    <3>1. /\ i \in DOMAIN req[r].batch
          /\ class'[e][i] = classifyRisk(req[r].batch[i], rule[r])
      BY <2>2, <2>3, <2>4 DEF Classify, ScoringTyped
    <3>2. responses'[e][i] = req[r].batch[i]
      BY <2>1, <2>3, <3>1 DEF PersistResponses, ScorePersist, TypeOK
    <3> QED BY <3>1, <3>2
  <2> QED BY <2>2, <2>3, <2>4
<1>2. PlanInit => ScoringTyped /\ RuleInForce
  BY DEF PlanInit, Init, Idle, ScoringTyped, RuleInForce
<1>3. TypeOK /\ ScoringTyped /\ RuleInForce /\ [PlanNext]_allVars
        => ScoringTyped' /\ RuleInForce'
  BY ScoringTypedStep, RuleInForceStep
<1>4. TypeOK /\ ScoringTyped /\ RuleInForce /\ [PlanNext]_allVars
        => [Justified]_allVars
  BY <1>1
<1> HIDE DEF Justified
<1> QED BY <1>2, <1>3, <1>4, PlanTypesOfLifecycle, PTL DEF PlanSpec, ClassifiedInForce, Justified

-----------------------------------------------------------------------------
(* Measures.                                                                *)

(* Whatever may have a measure now, or has one on its way, is on record. *)
Recorded ==
  /\ \A e \in EvalIds, i \in Indicators : Plannable(e, i) => <<e, i>> \in needed
  /\ \A q \in Planners : plan[q].pc = "create" =>
       <<plan[q].eval, plan[q].indicator>> \in needed

LEMMA RecordGrows ==
  ASSUME [PlanNext]_allVars
  PROVE  /\ needed \subseteq needed'
         /\ \/ UNCHANGED <<tool, class, flagged>>
            \/ \A e \in EvalIds, i \in Indicators : Plannable(e, i)' => <<e, i>> \in needed'
<1>1. ASSUME NEW r \in Requests, PersistResponses(r)
      PROVE  /\ needed \subseteq needed'
             /\ \A e \in EvalIds, i \in Indicators : Plannable(e, i)' => <<e, i>> \in needed'
  <2>1. Note
    BY <1>1 DEF PersistResponses
  <2> QED BY <2>1 DEF Note, Plannable
<1>2. ASSUME ~ \E r \in Requests : PersistResponses(r)
      PROVE  UNCHANGED <<tool, class, flagged, needed>>
  BY <1>2 DEF PlanNext, allVars, riskVars, BeginScore, ResolveRiskThreshold, Reject,
         CommonFlow, UpsertCountryParam, DeleteCountryParam, MeasureRead, MeasureCreate,
         ProgressRead, ProgressWrite, RejectPlan
<1> QED BY <1>1, <1>2

(* No measure hangs on a KPI or a risk that never called for one, although    *)
(* the check and the creation are separate calls.                           *)
THEOREM MeasuresNeeded == PlanSpec => []MeasuresWereNeeded
<1>1. PlanInit => Recorded /\ MeasuresWereNeeded /\ MeasuresTyped
  BY NoValueAssumption
     DEF PlanInit, Recorded, MeasuresWereNeeded, MeasuresTyped, Created, NoPlan, Plannable
<1>2. MeasuresTyped /\ Recorded /\ MeasuresWereNeeded /\ [PlanNext]_allVars
        => Recorded' /\ MeasuresWereNeeded'
  <2> SUFFICES ASSUME MeasuresTyped, Recorded, MeasuresWereNeeded, [PlanNext]_allVars
               PROVE  Recorded' /\ MeasuresWereNeeded'
    OBVIOUS
  <2>1. \A e \in EvalIds, i \in Indicators : Plannable(e, i)' => <<e, i>> \in needed'
    BY RecordGrows DEF Recorded, Plannable
  <2>2. ASSUME NEW q \in Planners, NEW e \in EvalIds, NEW i \in Indicators,
               MeasureRead(q, e, i)
        PROVE  Recorded' /\ MeasuresWereNeeded'
    <3>1. <<e, i>> \in needed' /\ measures' = measures
      BY <2>2, RecordGrows DEF MeasureRead, Recorded
    <3>2. plan' = [plan EXCEPT ![q] = [pc |-> "create", eval |-> e, indicator |-> i]]
      BY <2>2 DEF MeasureRead, GotoPlan
    <3> QED BY <3>1, <3>2, <2>1, RecordGrows
            DEF Recorded, MeasuresWereNeeded, MeasuresTyped, Created
  <2>3. ASSUME NEW q \in Planners, MeasureCreate(q)
        PROVE  Recorded' /\ MeasuresWereNeeded'
    <3>1. PICK m \in MeasureIds : measures' = [measures EXCEPT ![m] =
            [eval |-> plan[q].eval, indicator |-> plan[q].indicator,
             progress |-> 0, status |-> "PENDING"]]
      BY <2>3 DEF MeasureCreate
    <3>2. <<plan[q].eval, plan[q].indicator>> \in needed'
      BY <2>3, RecordGrows DEF MeasureCreate, Recorded
    <3>3. MeasuresWereNeeded'
      BY <3>1, <3>2, RecordGrows DEF MeasuresWereNeeded, MeasuresTyped, Created
    <3> QED BY <2>1, <2>3, <3>3, RecordGrows
            DEF MeasureCreate, GotoPlan, NoPlan, Recorded, MeasuresTyped
  <2>4. ASSUME NEW q \in Planners, NEW pct \in ProgressSteps, ProgressWrite(q, pct)
        PROVE  Recorded' /\ MeasuresWereNeeded'
    <3> DEFINE m == plan[q].measure
    <3>1. m \in Created /\ measures[m] \in Row
      BY <2>4 DEF ProgressWrite, MeasuresTyped, Created
    <3>2. /\ measures'[m].eval = measures[m].eval
          /\ measures'[m].indicator = measures[m].indicator
          /\ \A n \in MeasureIds : n # m => measures'[n] = measures[n]
      BY <2>4, <3>1 DEF ProgressWrite, MeasuresTyped, Row, Created
    <3>3. MeasuresWereNeeded'
      BY <3>1, <3>2, RecordGrows DEF MeasuresWereNeeded, Created
    <3> QED BY <2>1, <2>4, <3>3, RecordGrows
            DEF ProgressWrite, GotoPlan, NoPlan, Recorded, MeasuresTyped
  <2>5. ASSUME NEW q \in Planners, (\E n \in MeasureIds : ProgressRead(q, n)) \/ RejectPlan(q)
        PROVE  Recorded' /\ MeasuresWereNeeded'
    BY <2>1, <2>5, RecordGrows
       DEF ProgressRead, RejectPlan, GotoPlan, NoPlan, Recorded, MeasuresWereNeeded,
           MeasuresTyped, Created
  <2>6. ASSUME UNCHANGED planVars
        PROVE  Recorded' /\ MeasuresWereNeeded'
    BY <2>1, <2>6, RecordGrows DEF planVars, Recorded, MeasuresWereNeeded, Created
  <2>7. \/ UNCHANGED planVars
        \/ \E q \in Planners :
             \/ \E e \in EvalIds, i \in Indicators : MeasureRead(q, e, i)
             \/ MeasureCreate(q)
             \/ \E pct \in ProgressSteps : ProgressWrite(q, pct)
             \/ (\E n \in MeasureIds : ProgressRead(q, n)) \/ RejectPlan(q)
    BY DEF PlanNext, allVars, BeginScore, ResolveRiskThreshold, PersistResponses, Reject,
           CommonFlow, UpsertCountryParam, DeleteCountryParam
  <2> QED BY <2>2, <2>3, <2>4, <2>5, <2>6, <2>7
<1>3. MeasuresTyped /\ [PlanNext]_allVars => MeasuresTyped'
  BY MeasuresTypedStep
<1> QED BY <1>1, <1>2, <1>3, PTL DEF PlanSpec


(* A measure stays with its KPI or risk. *)
LEMMA MeasuresStay ==
  ASSUME MeasuresTyped, [PlanNext]_allVars, NEW m \in Created
  PROVE  /\ m \in Created'
         /\ measures'[m].eval = measures[m].eval
         /\ measures'[m].indicator = measures[m].indicator
<1>1. ASSUME NEW q \in Planners, MeasureCreate(q)
      PROVE  measures'[m] = measures[m]
  BY <1>1 DEF MeasureCreate, MeasuresTyped, Created
<1>2. ASSUME NEW q \in Planners, NEW pct \in ProgressSteps, ProgressWrite(q, pct)
      PROVE  /\ measures'[m].eval = measures[m].eval
             /\ measures'[m].indicator = measures[m].indicator
  <2>1. plan[q].measure \in Created /\ measures[plan[q].measure] \in Row
    BY <1>2 DEF ProgressWrite, MeasuresTyped, Created
  <2> QED BY <1>2, <2>1 DEF ProgressWrite, MeasuresTyped, Row, Created
<1>3. \/ UNCHANGED measures
      \/ \E q \in Planners :
           MeasureCreate(q) \/ \E pct \in ProgressSteps : ProgressWrite(q, pct)
  BY DEF PlanNext, allVars, planVars, BeginScore, ResolveRiskThreshold, PersistResponses,
         Reject, CommonFlow, UpsertCountryParam, DeleteCountryParam, MeasureRead,
         ProgressRead, RejectPlan
<1>4. m \in Created'
  <2>1. ASSUME NEW q \in Planners, NEW pct \in ProgressSteps, ProgressWrite(q, pct)
        PROVE  measures'[m] # None
    <3> DEFINE k == plan[q].measure
               new == [measures[k] EXCEPT !.progress = pct, !.status = measureStatusFor(pct)]
    <3>1. k \in Created /\ measures[k] \in Row
      BY <2>1 DEF ProgressWrite, MeasuresTyped, Created
    <3>2. new \in Row
      BY <3>1 DEF Row, measureStatusFor
    <3>3. new # None
      BY <3>2, NoMeasureAssumption DEF Row
    <3>4. measures' = [measures EXCEPT ![k] = new]
      BY <2>1 DEF ProgressWrite
    <3> HIDE DEF new, k
    <3> QED BY <3>3, <3>4 DEF MeasuresTyped, Created
  <2> QED BY <1>1, <1>3, <2>1 DEF Created
<1> QED BY <1>1, <1>2, <1>3, <1>4

(* With no scorer left, nothing in a completed evaluation starts to wait for  *)
(* a measure.                                                               *)
LEMMA PendingStep ==
  ASSUME ScoringTyped, MeasuresTyped, [PlanNext]_allVars, NEW e \in EvalIds, Settled(e)
  PROVE  Pending(e)' \subseteq Pending(e)
<1>1. \A i \in Indicators : Measured(e, i) => Measured(e, i)'
  BY MeasuresStay DEF Measured
<1>2. class'[e] = class[e] /\ flagged'[e] = flagged[e]
  <2>1. ASSUME NEW r \in Requests, PersistResponses(r)
        PROVE  class'[e] = class[e] /\ flagged'[e] = flagged[e]
    <3>1. req[r].pc = "persist" /\ req[r].eval # e
      BY <2>1 DEF PersistResponses, ScorePersist, Settled, Scoring
    <3>2. \E marked \in SUBSET DOMAIN req[r].batch : Flag(r, marked)
      BY <2>1 DEF PersistResponses
    <3>3. class' = class \/ Classify(r)
      BY <2>1 DEF PersistResponses
    <3> QED BY <3>1, <3>2, <3>3 DEF Flag, Classify, ScoringTyped
  <2> QED BY <2>1, OnlyPersistingClassifies
<1>3. tool' = tool
  BY DEF PlanNext, allVars, BeginScore, ResolveRiskThreshold, PersistResponses, Reject,
         CommonFlow, UpsertCountryParam, DeleteCountryParam, MeasureRead, MeasureCreate,
         ProgressRead, ProgressWrite, RejectPlan
<1>4. \A i \in Indicators : Plannable(e, i)' => Plannable(e, i)
  BY <1>2, <1>3 DEF Plannable
<1> QED BY <1>1, <1>4 DEF Pending

(* The work left in a settled evaluation never grows. *)
THEOREM PendingShrinks == PlanSpec => PendingOnlyShrinks
<1> DEFINE Frozen == \A e \in EvalIds :
             Settled(e) => Settled(e)' /\ responses'[e] = responses[e]
           Shrunk == \A e \in EvalIds :
             Settled(e) => Settled(e)' /\ Pending(e)' \subseteq Pending(e)
<1>1. PlanSpec => [][Frozen]_vars
  BY PlanKeepsLifecycle, SettledForGood, PTL DEF SettledStaysSettled
<1>2. ScoringTyped /\ MeasuresTyped /\ [PlanNext]_allVars /\ [Frozen]_vars
        => [Shrunk]_allVars
  <2> SUFFICES ASSUME ScoringTyped, MeasuresTyped, [PlanNext]_allVars, [Frozen]_vars,
                      NEW e \in EvalIds, Settled(e)
               PROVE  Settled(e)' /\ Pending(e)' \subseteq Pending(e)
    OBVIOUS
  <2>1. UNCHANGED vars => Settled(e)'
    BY DEF vars, Settled, Scoring
  <2> QED BY <2>1, PendingStep
<1>3. PlanInit => ScoringTyped /\ MeasuresTyped
  BY DEF PlanInit, ScoringTyped, MeasuresTyped, Created, NoPlan
<1>4. TypeOK /\ ScoringTyped /\ MeasuresTyped /\ [PlanNext]_allVars
        => ScoringTyped' /\ MeasuresTyped'
  BY ScoringTypedStep, MeasuresTypedStep
<1> HIDE DEF Frozen, Shrunk
<1>5. PlanSpec => [][Shrunk]_allVars
  BY <1>1, <1>2, <1>3, <1>4, PlanTypesOfLifecycle, PTL DEF PlanSpec
<1> QED BY <1>5 DEF PendingOnlyShrinks, Shrunk

=============================================================================
