------------------------- MODULE IdempotencyProofs --------------------------
EXTENDS Idempotency, TLAPS

LEMMA ArriveKeeps ==
    ASSUME NEW s \in Sessions, NEW k \in Keys, NEW o \in Ops,
           IInv, Arrive(s, k, o)
    PROVE  IInv'
<1>1. TypeOK'
  BY ConstantsAssumption DEF IInv, TypeOK, Row, Effect, Arrive
<1>2. OwnerInv'
  BY ConstantsAssumption DEF IInv, OwnerInv, Owning, TypeOK, Row, Done, Arrive
<1>3. FreshInv'
  BY ConstantsAssumption DEF IInv, FreshInv, Owning, OwnerInv, TypeOK, Row, Effect, Arrive
<1>4. ViewInv'
  BY ConstantsAssumption DEF IInv, ViewInv, MemoryIsExact, TypeOK, Row, Arrive
<1>5. SweepInv'
  BY ConstantsAssumption DEF IInv, SweepInv, Arrive
<1>6. MemoryIsExact'
  BY ConstantsAssumption DEF IInv, MemoryIsExact, OwnerInv, Owning, SweepInv, TypeOK, Row, Effect, Arrive
<1>7. AnswersAreTrue'
  BY ConstantsAssumption DEF IInv, AnswersAreTrue, ViewInv, OwnerInv, MemoryIsExact, TypeOK, Row, Done, Arrive
<1> QED
  BY <1>1, <1>2, <1>3, <1>4, <1>5, <1>6, <1>7 DEF IInv

LEMMA DropKeeps ==
    ASSUME NEW s \in Sessions,
           IInv, Drop(s)
    PROVE  IInv'
<1>1. TypeOK'
  BY ConstantsAssumption DEF IInv, TypeOK, Row, Effect, Drop, SeesExpired, Free
<1>2. OwnerInv'
  BY ConstantsAssumption DEF IInv, OwnerInv, Owning, TypeOK, Row, Done, Drop, SeesExpired, Free
<1>3. FreshInv'
  BY ConstantsAssumption DEF IInv, FreshInv, Owning, OwnerInv, TypeOK, Row, Effect, Drop, SeesExpired, Free
<1>4. ViewInv'
  BY ConstantsAssumption DEF IInv, ViewInv, MemoryIsExact, TypeOK, Row, Drop, SeesExpired, Free
<1>5. SweepInv'
  BY ConstantsAssumption DEF IInv, SweepInv, Drop, SeesExpired, Free
<1>6. MemoryIsExact'
  BY ConstantsAssumption DEF IInv, MemoryIsExact, OwnerInv, Owning, SweepInv, TypeOK, Row, Effect, Drop, SeesExpired, Free
<1>7. AnswersAreTrue'
  BY ConstantsAssumption DEF IInv, AnswersAreTrue, ViewInv, OwnerInv, MemoryIsExact, TypeOK, Row, Done, Drop, SeesExpired, Free
<1> QED
  BY <1>1, <1>2, <1>3, <1>4, <1>5, <1>6, <1>7 DEF IInv

LEMMA InsertKeeps ==
    ASSUME NEW s \in Sessions,
           IInv, Insert(s)
    PROVE  IInv'
<1>1. TypeOK'
  BY ConstantsAssumption DEF IInv, TypeOK, Row, Effect, Insert, Inserting, Free, Candidate
<1>2. OwnerInv'
  BY ConstantsAssumption DEF IInv, OwnerInv, Owning, TypeOK, Row, Done, Insert, Inserting, Free, Candidate
<1>3. FreshInv'
  BY ConstantsAssumption DEF IInv, FreshInv, Owning, OwnerInv, TypeOK, Row, Effect, Insert, Inserting, Free, Candidate
<1>4. ViewInv'
  BY ConstantsAssumption DEF IInv, ViewInv, MemoryIsExact, TypeOK, Row, Insert, Inserting, Free, Candidate
<1>5. SweepInv'
  BY ConstantsAssumption DEF IInv, SweepInv, Insert, Inserting, Free, Candidate
<1>6. MemoryIsExact'
  BY ConstantsAssumption DEF IInv, MemoryIsExact, OwnerInv, Owning, SweepInv, TypeOK, Row, Effect, Insert, Inserting, Free, Candidate
<1>7. AnswersAreTrue'
  BY ConstantsAssumption DEF IInv, AnswersAreTrue, ViewInv, OwnerInv, MemoryIsExact, TypeOK, Row, Done, Insert, Inserting, Free, Candidate
<1> QED
  BY <1>1, <1>2, <1>3, <1>4, <1>5, <1>6, <1>7 DEF IInv

LEMMA CollideKeeps ==
    ASSUME NEW s \in Sessions,
           IInv, Collide(s)
    PROVE  IInv'
<1>1. TypeOK'
  BY ConstantsAssumption DEF IInv, TypeOK, Row, Effect, Collide, Inserting, Free
<1>2. OwnerInv'
  BY ConstantsAssumption DEF IInv, OwnerInv, Owning, TypeOK, Row, Done, Collide, Inserting, Free
<1>3. FreshInv'
  BY ConstantsAssumption DEF IInv, FreshInv, Owning, OwnerInv, TypeOK, Row, Effect, Collide, Inserting, Free
<1>4. ViewInv'
  BY ConstantsAssumption DEF IInv, ViewInv, MemoryIsExact, TypeOK, Row, Collide, Inserting, Free
<1>5. SweepInv'
  BY ConstantsAssumption DEF IInv, SweepInv, Collide, Inserting, Free
<1>6. MemoryIsExact'
  BY ConstantsAssumption DEF IInv, MemoryIsExact, OwnerInv, Owning, SweepInv, TypeOK, Row, Effect, Collide, Inserting, Free
<1>7. AnswersAreTrue'
  BY ConstantsAssumption DEF IInv, AnswersAreTrue, ViewInv, OwnerInv, MemoryIsExact, TypeOK, Row, Done, Collide, Inserting, Free
<1> QED
  BY <1>1, <1>2, <1>3, <1>4, <1>5, <1>6, <1>7 DEF IInv

LEMMA ReplayKeeps ==
    ASSUME NEW s \in Sessions,
           IInv, Replay(s)
    PROVE  IInv'
<1>1. TypeOK'
  BY ConstantsAssumption DEF IInv, TypeOK, Row, Effect, Replay, Decides, Replayable, Found, Acknowledge, Free
<1>2. OwnerInv'
  BY ConstantsAssumption DEF IInv, OwnerInv, Owning, TypeOK, Row, Done, Replay, Decides, Replayable, Found, Acknowledge, Free
<1>3. FreshInv'
  BY ConstantsAssumption DEF IInv, FreshInv, Owning, OwnerInv, TypeOK, Row, Effect, Replay, Decides, Replayable, Found, Acknowledge, Free
<1>4. ViewInv'
  BY ConstantsAssumption DEF IInv, ViewInv, MemoryIsExact, TypeOK, Row, Replay, Decides, Replayable, Found, Acknowledge, Free
<1>5. SweepInv'
  BY ConstantsAssumption DEF IInv, SweepInv, Replay, Decides, Replayable, Found, Acknowledge, Free
<1>6. MemoryIsExact'
  BY ConstantsAssumption DEF IInv, MemoryIsExact, OwnerInv, Owning, SweepInv, TypeOK, Row, Effect, Replay, Decides, Replayable, Found, Acknowledge, Free
<1>7. AnswersAreTrue'
  BY ConstantsAssumption DEF IInv, AnswersAreTrue, ViewInv, OwnerInv, MemoryIsExact, TypeOK, Row, Done, Replay, Decides, Replayable, Found, Acknowledge, Free
<1> QED
  BY <1>1, <1>2, <1>3, <1>4, <1>5, <1>6, <1>7 DEF IInv

LEMMA RefuseKeeps ==
    ASSUME NEW s \in Sessions,
           IInv, Refuse(s)
    PROVE  IInv'
<1>1. TypeOK'
  BY ConstantsAssumption DEF IInv, TypeOK, Row, Effect, Refuse
<1>2. OwnerInv'
  BY ConstantsAssumption DEF IInv, OwnerInv, Owning, TypeOK, Row, Done, Refuse, Decides
<1>3. FreshInv'
  BY ConstantsAssumption DEF IInv, FreshInv, Owning, OwnerInv, TypeOK, Row, Effect, Refuse
<1>4. ViewInv'
  BY ConstantsAssumption DEF IInv, ViewInv, MemoryIsExact, TypeOK, Row, Refuse
<1>5. SweepInv'
  BY ConstantsAssumption DEF IInv, SweepInv, Refuse
<1>6. MemoryIsExact'
  BY ConstantsAssumption DEF IInv, MemoryIsExact, OwnerInv, Owning, SweepInv, TypeOK, Row, Effect, Refuse
<1>7. AnswersAreTrue'
  BY ConstantsAssumption DEF IInv, AnswersAreTrue, ViewInv, OwnerInv, MemoryIsExact, TypeOK, Row, Done, Refuse, Decides
<1> QED
  BY <1>1, <1>2, <1>3, <1>4, <1>5, <1>6, <1>7 DEF IInv

LEMMA WorkKeeps ==
    ASSUME NEW s \in Sessions,
           IInv, Work(s)
    PROVE  IInv'
<1>1. TypeOK'
  BY ConstantsAssumption DEF IInv, TypeOK, Row, Effect, OwnerInv, Owning, Work
<1>2. OwnerInv'
  BY ConstantsAssumption DEF IInv, OwnerInv, Owning, TypeOK, Row, Done, Work
<1>3. FreshInv'
  BY ConstantsAssumption DEF IInv, FreshInv, Owning, OwnerInv, TypeOK, Row, Effect, Work
<1>4. ViewInv'
  BY ConstantsAssumption DEF IInv, ViewInv, MemoryIsExact, TypeOK, Row, Work
<1>5. SweepInv'
  BY ConstantsAssumption DEF IInv, SweepInv, Work
<1>6. MemoryIsExact'
  BY ConstantsAssumption DEF IInv, MemoryIsExact, OwnerInv, Owning, SweepInv, TypeOK, Row, Effect, Work
<1>7. AnswersAreTrue'
  BY ConstantsAssumption DEF IInv, AnswersAreTrue, ViewInv, OwnerInv, MemoryIsExact, TypeOK, Row, Done, Work
<1> QED
  BY <1>1, <1>2, <1>3, <1>4, <1>5, <1>6, <1>7 DEF IInv

LEMMA CommitKeeps ==
    ASSUME NEW s \in Sessions,
           IInv, Commit(s)
    PROVE  IInv'
<1>1. TypeOK'
  BY ConstantsAssumption DEF IInv, TypeOK, Row, Effect, OwnerInv, Owning, Commit, Unlocked
<1>2. OwnerInv'
  BY ConstantsAssumption DEF IInv, OwnerInv, Owning, TypeOK, Row, Done, Commit, Unlocked
<1>3. FreshInv'
  BY ConstantsAssumption DEF IInv, FreshInv, Owning, OwnerInv, TypeOK, Row, Effect, Commit, Unlocked
<1>4. ViewInv'
  BY ConstantsAssumption DEF IInv, ViewInv, MemoryIsExact, TypeOK, Row, Commit, Unlocked
<1>5. SweepInv'
  BY ConstantsAssumption DEF IInv, SweepInv, Commit, Unlocked
<1>6. MemoryIsExact'
  BY ConstantsAssumption DEF IInv, MemoryIsExact, OwnerInv, Owning, SweepInv, TypeOK, Row, Effect, Commit, Unlocked
<1>7. AnswersAreTrue'
  BY ConstantsAssumption DEF IInv, AnswersAreTrue, ViewInv, OwnerInv, MemoryIsExact, TypeOK, Row, Done, Commit, Unlocked
<1> QED
  BY <1>1, <1>2, <1>3, <1>4, <1>5, <1>6, <1>7 DEF IInv

LEMMA AnswerKeeps ==
    ASSUME NEW s \in Sessions,
           IInv, Answer(s)
    PROVE  IInv'
<1>1. TypeOK'
  BY ConstantsAssumption DEF IInv, TypeOK, Row, Effect, OwnerInv, Owning, Answer, Acknowledge
<1>2. OwnerInv'
  BY ConstantsAssumption DEF IInv, OwnerInv, Owning, TypeOK, Row, Done, Answer, Acknowledge
<1>3. FreshInv'
  BY ConstantsAssumption DEF IInv, FreshInv, Owning, OwnerInv, TypeOK, Row, Effect, Answer, Acknowledge
<1>4. ViewInv'
  BY ConstantsAssumption DEF IInv, ViewInv, MemoryIsExact, TypeOK, Row, Answer, Acknowledge
<1>5. SweepInv'
  BY ConstantsAssumption DEF IInv, SweepInv, Answer, Acknowledge
<1>6. MemoryIsExact'
  BY ConstantsAssumption DEF IInv, MemoryIsExact, OwnerInv, Owning, SweepInv, TypeOK, Row, Effect, Answer, Acknowledge
<1>7. AnswersAreTrue'
  BY ConstantsAssumption DEF IInv, AnswersAreTrue, ViewInv, OwnerInv, MemoryIsExact, TypeOK, Row, Done, Answer, Acknowledge
<1> QED
  BY <1>1, <1>2, <1>3, <1>4, <1>5, <1>6, <1>7 DEF IInv

LEMMA FailKeeps ==
    ASSUME NEW s \in Sessions,
           IInv, Fail(s)
    PROVE  IInv'
<1>1. TypeOK'
  BY ConstantsAssumption DEF IInv, TypeOK, Row, Effect, Fail, Unlocked
<1>2. OwnerInv'
  BY ConstantsAssumption DEF IInv, OwnerInv, Owning, TypeOK, Row, Done, Fail, Unlocked
<1>3. FreshInv'
  BY ConstantsAssumption DEF IInv, FreshInv, Owning, OwnerInv, TypeOK, Row, Effect, Fail, Unlocked
<1>4. ViewInv'
  BY ConstantsAssumption DEF IInv, ViewInv, MemoryIsExact, TypeOK, Row, Fail, Unlocked
<1>5. SweepInv'
  BY ConstantsAssumption DEF IInv, SweepInv, Fail, Unlocked
<1>6. MemoryIsExact'
  BY ConstantsAssumption DEF IInv, MemoryIsExact, OwnerInv, Owning, SweepInv, TypeOK, Row, Effect, Fail, Unlocked
<1>7. AnswersAreTrue'
  BY ConstantsAssumption DEF IInv, AnswersAreTrue, ViewInv, OwnerInv, MemoryIsExact, TypeOK, Row, Done, Fail, Unlocked
<1> QED
  BY <1>1, <1>2, <1>3, <1>4, <1>5, <1>6, <1>7 DEF IInv

LEMMA ExpireKeeps ==
    ASSUME NEW k \in Keys,
           IInv, Expire(k)
    PROVE  IInv'
<1> DEFINE d == [key |-> k, op |-> row[k].op, id |-> row[k].id]
<1>a. row[k] \in Row /\ row[k].id \in Nat \ {0}
  BY DEF IInv, TypeOK, Row, Expire
<1>b. d \in done /\ d.id = row[k].id
  BY DEF IInv, MemoryIsExact, Expire
<1>c. expired' = expired \cup {row[k].id} /\ UNCHANGED <<row, lock, nextId, session, sweep, done, answers>>
  BY DEF Expire
<1> HIDE DEF d
<1>1. TypeOK'
  BY <1>a, <1>c DEF IInv, TypeOK, session
<1>2. OwnerInv'
  BY <1>c DEF IInv, OwnerInv, Owning, Done, session
<1>3. FreshInv'
  BY <1>a, <1>b, <1>c DEF IInv, FreshInv, Owning, session
<1>4. ViewInv'
  BY <1>c DEF IInv, ViewInv, session
<1>5. SweepInv'
  BY <1>c DEF IInv, SweepInv
<1>6. MemoryIsExact'
  BY <1>c DEF IInv, MemoryIsExact
<1>7. AnswersAreTrue'
  BY <1>c DEF IInv, AnswersAreTrue
<1> QED
  BY <1>1, <1>2, <1>3, <1>4, <1>5, <1>6, <1>7 DEF IInv

LEMMA SweepSelectKeeps ==
    ASSUME IInv, SweepSelect
    PROVE  IInv'
<1>1. TypeOK'
  BY ConstantsAssumption DEF IInv, TypeOK, Row, Effect, SweepSelect, Selected, session
<1>2. OwnerInv'
  BY ConstantsAssumption DEF IInv, OwnerInv, Owning, TypeOK, Row, Done, SweepSelect, Selected, session
<1>3. FreshInv'
  BY ConstantsAssumption DEF IInv, FreshInv, Owning, OwnerInv, TypeOK, Row, Effect, SweepSelect, Selected, session
<1>4. ViewInv'
  BY ConstantsAssumption DEF IInv, ViewInv, MemoryIsExact, TypeOK, Row, SweepSelect, Selected, session
<1>5. SweepInv'
  BY ConstantsAssumption DEF IInv, SweepInv, SweepSelect, Selected, session
<1>6. MemoryIsExact'
  BY ConstantsAssumption DEF IInv, MemoryIsExact, OwnerInv, Owning, SweepInv, TypeOK, Row, Effect, SweepSelect, Selected, session
<1>7. AnswersAreTrue'
  BY ConstantsAssumption DEF IInv, AnswersAreTrue, ViewInv, OwnerInv, MemoryIsExact, TypeOK, Row, Done, SweepSelect, Selected, session
<1> QED
  BY <1>1, <1>2, <1>3, <1>4, <1>5, <1>6, <1>7 DEF IInv

LEMMA SweepDeleteKeeps ==
    ASSUME IInv, SweepDelete
    PROVE  IInv'
<1>1. TypeOK'
  BY ConstantsAssumption DEF IInv, TypeOK, Row, Effect, SweepDelete, session
<1>2. OwnerInv'
  BY ConstantsAssumption DEF IInv, OwnerInv, Owning, TypeOK, Row, Done, SweepDelete, session
<1>3. FreshInv'
  BY ConstantsAssumption DEF IInv, FreshInv, Owning, OwnerInv, TypeOK, Row, Effect, SweepDelete, session
<1>4. ViewInv'
  BY ConstantsAssumption DEF IInv, ViewInv, MemoryIsExact, TypeOK, Row, SweepDelete, session
<1>5. SweepInv'
  BY ConstantsAssumption DEF IInv, SweepInv, SweepDelete, session
<1>6. MemoryIsExact'
  BY ConstantsAssumption DEF IInv, MemoryIsExact, OwnerInv, Owning, SweepInv, TypeOK, Row, Effect, SweepDelete, session
<1>7. AnswersAreTrue'
  BY ConstantsAssumption DEF IInv, AnswersAreTrue, ViewInv, OwnerInv, MemoryIsExact, TypeOK, Row, Done, SweepDelete, session
<1> QED
  BY <1>1, <1>2, <1>3, <1>4, <1>5, <1>6, <1>7 DEF IInv

LEMMA InitIInv == Init => IInv
<1> SUFFICES ASSUME Init PROVE IInv
  OBVIOUS
<1>1. TypeOK
  BY ConstantsAssumption DEF Init, TypeOK
<1>2. OwnerInv /\ ViewInv /\ SweepInv /\ MemoryIsExact /\ AnswersAreTrue
  BY ConstantsAssumption DEF Init, OwnerInv, Owning, ViewInv, SweepInv, MemoryIsExact, AnswersAreTrue
<1>3. FreshInv
  BY ConstantsAssumption DEF Init, FreshInv, Owning
<1> QED
  BY <1>1, <1>2, <1>3 DEF IInv

LEMMA StepIInv == IInv /\ [Next]_vars => IInv'
<1> SUFFICES ASSUME IInv, [Next]_vars PROVE IInv'
  OBVIOUS
<1>1. ASSUME NEW s \in Sessions, NEW k \in Keys, NEW o \in Ops, Arrive(s, k, o)
      PROVE  IInv'
  BY <1>1, ArriveKeeps
<1>2. ASSUME NEW s \in Sessions,
             Drop(s) \/ Insert(s) \/ Collide(s) \/ Replay(s) \/ Refuse(s)
      PROVE  IInv'
  BY <1>2, DropKeeps, InsertKeeps, CollideKeeps, ReplayKeeps, RefuseKeeps
<1>3. ASSUME NEW s \in Sessions, Work(s) \/ Commit(s) \/ Answer(s) \/ Fail(s)
      PROVE  IInv'
  BY <1>3, WorkKeeps, CommitKeeps, AnswerKeeps, FailKeeps
<1>4. ASSUME NEW k \in Keys, Expire(k)
      PROVE  IInv'
  BY <1>4, ExpireKeeps
<1>5. CASE SweepSelect \/ SweepDelete
  BY <1>5, SweepSelectKeeps, SweepDeleteKeeps
<1>6. CASE UNCHANGED vars
  BY <1>6 DEF IInv, TypeOK, OwnerInv, Owning, Done, FreshInv, ViewInv, SweepInv,
              MemoryIsExact, AnswersAreTrue, vars, session
<1> QED
  BY <1>1, <1>2, <1>3, <1>4, <1>5, <1>6 DEF Next

LEMMA Inductive == Spec => []IInv
  BY InitIInv, StepIInv, PTL DEF Spec

(* Every variable of idempotency_service's protocol keeps its type.        *)
THEOREM ClaimTypeCorrect == Spec => []TypeOK
<1>1. IInv => TypeOK
  BY DEF IInv
<1> QED
  BY <1>1, Inductive, PTL

(* The table of claims and the business data agree in every state, for any *)
(* number of sessions, keys and repetitions.                               *)
THEOREM ClaimsMatchEffects == Spec => []MemoryIsExact
<1>1. IInv => MemoryIsExact
  BY DEF IInv
<1> QED
  BY <1>1, Inductive, PTL

(* A key has at most one effect whose retention period has not ended: a    *)
(* retry within it cannot repeat the mutation.                             *)
THEOREM RetryNeverRepeats == Spec => []OneEffectPerKey
<1>1. IInv => OneEffectPerKey
  <2> SUFFICES ASSUME IInv,
                      NEW d \in done, NEW e \in done,
                      d.key = e.key, d # e,
                      d.id \notin expired, e.id \notin expired
               PROVE  FALSE
    BY DEF OneEffectPerKey
  <2>1. row[d.key].id = d.id /\ row[e.key].id = e.id
    BY DEF IInv, MemoryIsExact
  <2>2. d.id = e.id
    BY <2>1
  <2> QED
    BY <2>2 DEF IInv, FreshInv
<1> QED
  BY <1>1, Inductive, PTL

(* Every success answer, fresh or replayed, names a committed effect of    *)
(* the same key and the same request data.                                 *)
THEOREM SuccessIsCommitted == Spec => []AnswersAreTrue
<1>1. IInv => AnswersAreTrue
  BY DEF IInv
<1> QED
  BY <1>1, Inductive, PTL

-----------------------------------------------------------------------------
(* The refinement: most steps leave the promise's variables alone.         *)
LEMMA Stutters ==
    ASSUME UNCHANGED <<row, expired, done, answers>>
    PROVE  UNCHANGED Promise!vars
  BY DEF Promise!vars, Memo

LEMMA AnswerAnswers ==
    ASSUME IInv,
           NEW d \in done,
           answers' = answers \cup {d},
           UNCHANGED <<row, expired, done>>
    PROVE  Promise!Next
<1>1. d \in [key : Keys, op : Ops, id : 1..MaxId]
  BY ConstantsAssumption DEF IInv, TypeOK, Effect, FreshInv
<1>2. Memo' = Memo
  BY DEF Memo
<1>3. Promise!Answer(d)
  BY <1>2 DEF Promise!Answer
<1> QED
  BY <1>1, <1>3 DEF Promise!Next, Promise!Operation

LEMMA ReplayAnswers ==
    ASSUME IInv, NEW s \in Sessions, Replay(s)
    PROVE  Promise!Next
<1> DEFINE d == [key |-> key[s], op |-> op[s], id |-> Found(s).id]
<1>1. d \in done
  <2>1. CASE pc[s] = "reloading"
    <3>1. row[key[s]] # NoRow /\ d = [key |-> key[s], op |-> row[key[s]].op, id |-> row[key[s]].id]
      BY <2>1 DEF Replay, Replayable, Found
    <3> QED
      BY <3>1 DEF IInv, TypeOK, MemoryIsExact
  <2>2. CASE pc[s] # "reloading"
    <3>1. view[s] # NoRow /\ d = [key |-> key[s], op |-> view[s].op, id |-> view[s].id]
      BY <2>2 DEF Replay, Replayable, Found
    <3> QED
      BY <3>1 DEF IInv, ViewInv
  <2> QED
    BY <2>1, <2>2
<1>2. answers' = answers \cup {d} /\ UNCHANGED <<row, expired, done>>
  BY DEF Replay, Acknowledge
<1> HIDE DEF d
<1> QED
  BY <1>1, <1>2, AnswerAnswers

LEMMA FirstAnswerAnswers ==
    ASSUME IInv, NEW s \in Sessions, Answer(s)
    PROVE  Promise!Next
<1>1. Done(s) \in done
  BY DEF IInv, OwnerInv, Answer
<1>2. answers' = answers \cup {Done(s)} /\ UNCHANGED <<row, expired, done>>
  BY DEF Answer, Acknowledge, Done
<1> QED
  BY <1>1, <1>2, AnswerAnswers

LEMMA CommitPerforms ==
    ASSUME IInv, NEW s \in Sessions, Commit(s)
    PROVE  Promise!Next
<1> DEFINE i == mine[s].id
<1>1. mine[s] \in Row /\ key[s] \in Keys /\ op[s] \in Ops
  BY DEF IInv, TypeOK, OwnerInv, Owning, Commit
<1>2. i \in 1..MaxId
  BY <1>1, ConstantsAssumption DEF IInv, TypeOK, FreshInv, Owning, Commit, Row
<1>3. i \notin expired /\ \A d \in done : d.id # i
  BY DEF IInv, FreshInv, Owning, Commit
<1>4. Memo[key[s]] = NoRow
  BY <1>1 DEF IInv, OwnerInv, Owning, Commit, Memo
<1>5. Memo' = [Memo EXCEPT ![key[s]] = i]
  <2>1. row' = [row EXCEPT ![key[s]] = mine[s]] /\ expired' = expired
    BY DEF Commit
  <2>2. mine[s] # NoRow
    BY <1>1, ConstantsAssumption
  <2>3. row \in [Keys -> Row \cup {NoRow}]
    BY DEF IInv, TypeOK
  <2> QED
    BY <1>1, <1>3, <2>1, <2>2, <2>3 DEF Memo
<1>6. done' = done \cup {[key |-> key[s], op |-> op[s], id |-> i]} /\ answers' = answers
  BY DEF Commit
<1>7. Promise!Perform(key[s], op[s], i)
  BY <1>3, <1>4, <1>5, <1>6 DEF Promise!Perform
<1> QED
  BY <1>1, <1>2, <1>7 DEF Promise!Next

LEMMA ExpireForgets ==
    ASSUME IInv, NEW k \in Keys, Expire(k)
    PROVE  Promise!Next
<1>1. Memo[k] # NoRow
  BY ConstantsAssumption DEF Expire, Memo, IInv, TypeOK, Row
<1>2. Memo' = [Memo EXCEPT ![k] = NoRow]
  <2> SUFFICES ASSUME NEW j \in Keys, j # k
               PROVE  row[j] # NoRow => row[j].id # row[k].id
    BY DEF Expire, Memo
  <2> DEFINE d == [key |-> k, op |-> row[k].op, id |-> row[k].id]
  <2> DEFINE e == [key |-> j, op |-> row[j].op, id |-> row[j].id]
  <2>1. d \in done /\ (row[j] # NoRow => e \in done) /\ d # e
    BY DEF IInv, MemoryIsExact, Expire
  <2> QED
    BY <2>1 DEF IInv, FreshInv
<1>3. Promise!Forget(k)
  BY <1>1, <1>2 DEF Expire, Promise!Forget
<1> QED
  BY <1>3 DEF Promise!Next

LEMMA SweepStutters ==
    ASSUME IInv, SweepDelete
    PROVE  UNCHANGED Promise!vars
<1>1. Memo' = Memo
  BY DEF SweepDelete, Memo, IInv, SweepInv
<1> QED
  BY <1>1 DEF SweepDelete, Promise!vars

(* The transactional claim implements the abstract promise: performed      *)
(* once, remembered until it expires, acknowledged only when performed.    *)
THEOREM ServiceKeepsPromise == Spec => KeepsPromise
<1>1. Init => Promise!Init
  BY DEF Init, Promise!Init, Memo
<1>2. IInv /\ [Next]_vars => [Promise!Next]_(Promise!vars)
  <2> SUFFICES ASSUME IInv, [Next]_vars
               PROVE  Promise!Next \/ UNCHANGED Promise!vars
    OBVIOUS
  <2>1. ASSUME NEW s \in Sessions, NEW k \in Keys, NEW o \in Ops, Arrive(s, k, o)
        PROVE  UNCHANGED Promise!vars
    BY <2>1, Stutters DEF Arrive
  <2>2. ASSUME NEW s \in Sessions,
               Drop(s) \/ Insert(s) \/ Collide(s) \/ Refuse(s) \/ Work(s) \/ Fail(s)
        PROVE  UNCHANGED Promise!vars
    BY <2>2, Stutters DEF Drop, Insert, Collide, Refuse, Work, Fail
  <2>3. ASSUME NEW s \in Sessions, Replay(s) \/ Answer(s) \/ Commit(s)
        PROVE  Promise!Next
    BY <2>3, ReplayAnswers, FirstAnswerAnswers, CommitPerforms
  <2>4. ASSUME NEW k \in Keys, Expire(k)
        PROVE  Promise!Next
    BY <2>4, ExpireForgets
  <2>5. CASE SweepSelect
    BY <2>5, Stutters DEF SweepSelect
  <2>6. CASE SweepDelete
    BY <2>6, SweepStutters
  <2>7. CASE UNCHANGED vars
    BY <2>7, Stutters DEF vars
  <2> QED
    BY <2>1, <2>2, <2>3, <2>4, <2>5, <2>6, <2>7 DEF Next
<1> QED
  BY <1>1, <1>2, Inductive, PTL DEF Spec, KeepsPromise, Promise!Spec
=============================================================================
