-------------------------- MODULE IdempotencyProofs --------------------------
(***************************************************************************)
(* Theorems about Idempotency, for any number of requests and payloads.    *)
(***************************************************************************)
EXTENDS Idempotency, TLAPS

\* Where a request is whose operation committed, or that reports an effect; only
\* one that is done has answered.
Steps ==
  \A r \in Requests :
    /\ pc[r] # "done" => answer[r].kind = "none"
    /\ pc[r] \in Working \cup {"takeover"} => claim[r] # NoRequest
    /\ r \in effects => pc[r] \in {"record", "drop", "done", "dead"}
    /\ pc[r] = "record" => made[r] \in effects /\ payload[made[r]] = payload[r]

\* A row exists exactly while its status says so, and ids are never given twice.
RowIds ==
  /\ row = NoRow \/ (row.id # NoRequest /\ row.status # "none")
  /\ \A r \in Requests :
       pc[r] = "new" => row.id # r /\ \A q \in Requests : claim[q] # r

\* A row is worked on for its own payload only, and tells the truth about it.
RowIsTrue ==
  /\ \A r \in Requests :
       pc[r] \in Working \cup {"takeover"} /\ Holds(r) => row.fingerprint = payload[r]
  /\ row.status = "succeeded" =>
       row.result \in effects /\ payload[row.result] = row.fingerprint

\* As long as nobody was taken over, whoever works is alone and has the row.
OneWorker ==
  displaced = {} =>
    \A r \in Requests :
      pc[r] \in Working =>
        /\ Holds(r) /\ row.status = "processing"
        /\ \A q \in Requests : pc[q] \in Working => q = r

\* And a committed operation is about to be recorded, is recorded, or was lost.
Accounted ==
  displaced = {} =>
    \A r \in effects : Forgotten(r) \/ pc[r] = "record" \/ row.status = "succeeded"

\* The inductive invariant.
IInv ==
  /\ TypeOK /\ Steps /\ RowIds /\ RowIsTrue
  /\ OneWorker /\ Accounted /\ ReplayIsTrue /\ OnceUnlessLost

LEMMA InitIInv == Init => IInv
BY IdempotencyAssumption
   DEF Init, IInv, TypeOK, Steps, RowIds, RowIsTrue, OneWorker, Accounted,
       ReplayIsTrue, OnceUnlessLost, NoRow, Working, Operations

USE DEF At, Goto, Return, Holds, Working, inputs

-----------------------------------------------------------------------------
(* Types.                                                                  *)

Row == [id: Requests \cup {NoRequest},
        status: {"none", "processing", "succeeded", "failed_final"},
        fingerprint: Payloads \cup {"none"},
        result: Requests \cup {NoRequest}, stale: BOOLEAN]

Answer == [kind: {"none", "ok", "failed", "reused", "in_progress", "error"},
           of: Requests \cup {NoRequest}]

LEMMA TypePreserved == ASSUME IInv, [Next]_vars PROVE TypeOK'
<1> DEFINE Successful(w) == w.status = "succeeded" => w.result # NoRequest
<1> USE IdempotencyAssumption
<1>0. TypeOK /\ Steps /\ row \in Row /\ Successful(row) /\ answer \in [Requests -> Answer]
  BY DEF IInv, TypeOK, Row, Answer
<1>1. ASSUME NEW r \in Requests, Claim(r) PROVE TypeOK'
  <2>1. payload[r] \in Payloads
    BY <1>0 DEF TypeOK
  <2> DEFINE fresh == [NoRow EXCEPT !.id = r, !.status = "processing",
                                    !.fingerprint = payload[r]]
  <2>2. fresh \in Row /\ Successful(fresh)
    BY <2>1 DEF Row, NoRow
  <2> HIDE DEF fresh
  <2>3. row' \in Row /\ Successful(row')
    <3>1. row' = fresh \/ row' = row
      BY <1>1 DEF Claim, fresh
    <3> QED
      BY <1>0, <2>2, <3>1
  <2>4. /\ pc' \in [Requests -> Working \cup {"new", "lookup", "takeover", "done", "dead"}]
        /\ claim' \in [Requests -> Requests \cup {NoRequest}]
    <3>1. CASE row = NoRow
      BY <1>0, <1>1, <3>1 DEF Claim, TypeOK
    <3>2. CASE row # NoRow
      BY <1>0, <1>1, <3>2 DEF Claim, TypeOK
    <3> QED
      BY <3>1, <3>2
  <2> QED
    BY <1>0, <1>1, <2>3, <2>4 DEF Claim, TypeOK, Row
<1>2. ASSUME NEW r \in Requests, LookUp(r) PROVE TypeOK'
  <2>1. answer' \in [Requests -> Answer]
    BY <1>0, <1>2 DEF LookUp, Matches, Answer, Row
  <2>2. claim' \in [Requests -> Requests \cup {NoRequest}]
    BY <1>0, <1>2 DEF LookUp, TypeOK, Row
  <2>3. pc' \in [Requests -> Working \cup {"new", "lookup", "takeover", "done", "dead"}]
    BY <1>0, <1>2 DEF LookUp, TypeOK
  <2> QED
    BY <1>0, <1>2, <2>1, <2>2, <2>3 DEF LookUp, TypeOK, Answer
<1>3. ASSUME NEW r \in Requests, TakeOver(r) PROVE TypeOK'
  <2>0. payload[r] \in Payloads
    BY <1>0 DEF TypeOK
  <2>1. row' \in Row /\ Successful(row')
    <3> DEFINE taken == [row EXCEPT !.fingerprint = payload[r], !.stale = FALSE]
    <3>1. taken \in Row /\ Successful(taken)
      BY <1>0, <2>0 DEF Row
    <3> HIDE DEF taken
    <3>2. row' = taken \/ row' = row
      BY <1>3 DEF TakeOver, taken
    <3> QED
      BY <1>0, <3>1, <3>2
  <2>2. answer' \in [Requests -> Answer]
    BY <1>0, <1>3 DEF TakeOver, Answer
  <2> QED
    BY <1>0, <1>3, <2>1, <2>2 DEF TakeOver, TypeOK, Row, Answer
<1>4. ASSUME NEW r \in Requests, Execute(r) PROVE TypeOK'
  BY <1>0, <1>4 DEF Execute, TypeOK
<1>5. ASSUME NEW r \in Requests, Resume(r) PROVE TypeOK'
  BY <1>0, <1>5 DEF Resume, Same, TypeOK
<1>6. ASSUME NEW r \in Requests, Refuse(r) \/ Break(r) \/ Crash(r) PROVE TypeOK'
  BY <1>0, <1>6 DEF Refuse, Break, Crash, TypeOK
<1>7. ASSUME NEW r \in Requests, RecordSuccess(r) PROVE TypeOK'
  <2>1. made[r] \in Requests
    BY <1>0, <1>7 DEF RecordSuccess, Steps, TypeOK
  <2>2. row' \in Row /\ Successful(row')
    BY <1>0, <1>7, <2>1 DEF RecordSuccess, Succeeded, Row
  <2>3. answer' \in [Requests -> Answer]
    BY <1>0, <1>7, <2>1 DEF RecordSuccess, Answer
  <2> QED
    BY <1>0, <1>7, <2>2, <2>3 DEF RecordSuccess, TypeOK, Row, Answer
<1>8. ASSUME NEW r \in Requests, RecordFailure(r) \/ DropClaim(r) PROVE TypeOK'
  <2>0. \/ UNCHANGED row \/ row' = NoRow
        \/ row' = [row EXCEPT !.status = "failed_final"]
    BY <1>8 DEF RecordFailure, DropClaim
  <2>1. row' \in Row /\ Successful(row')
    <3>1. NoRow \in Row /\ Successful(NoRow)
      BY DEF Row, NoRow
    <3>2. [row EXCEPT !.status = "failed_final"] \in Row
          /\ Successful([row EXCEPT !.status = "failed_final"])
      BY <1>0 DEF Row
    <3> QED
      BY <1>0, <2>0, <3>1, <3>2
  <2>2. answer' \in [Requests -> Answer]
    BY <1>0, <1>8 DEF RecordFailure, DropClaim, Answer
  <2> QED
    BY <1>0, <1>8, <2>1, <2>2 DEF RecordFailure, DropClaim, TypeOK, Row, Answer
<1>9. ASSUME MinutePasses PROVE TypeOK'
  BY <1>0, <1>9 DEF MinutePasses, TypeOK
<1>10. CASE UNCHANGED vars
  BY <1>0, <1>10 DEF vars, TypeOK
<1> QED
  BY <1>1, <1>2, <1>3, <1>4, <1>5, <1>6, <1>7, <1>8, <1>9, <1>10 DEF Next

-----------------------------------------------------------------------------
(* The steps that write the row, by what they leave in its fields.         *)

Claimed(r) ==
  /\ pc[r] = "new"
  /\ \/ row # NoRow /\ UNCHANGED <<row, claim>> /\ pc' = [pc EXCEPT ![r] = "lookup"]
     \/ /\ row = NoRow /\ row' # NoRow
        /\ row'.id = r /\ row'.status = "processing" /\ row'.fingerprint = payload[r]
        /\ claim' = [claim EXCEPT ![r] = r] /\ pc' = [pc EXCEPT ![r] = "run"]
  /\ UNCHANGED <<payload, made, effects, displaced, answer>>

Taken(r) ==
  /\ pc[r] = "takeover"
  /\ \/ /\ UNCHANGED <<row, displaced>> /\ pc' = [pc EXCEPT ![r] = "done"]
        /\ answer' = [answer EXCEPT ![r] = [kind |-> "in_progress", of |-> NoRequest]]
     \/ /\ row.id = claim[r] /\ row.status = "processing"
        /\ row'.id = row.id /\ row'.status = "processing" /\ row'.fingerprint = payload[r]
        /\ displaced' = displaced \cup
             {q \in Requests : pc[q] \in Working /\ row.id = claim[q]}
        /\ pc' = [pc EXCEPT ![r] = "run"] /\ UNCHANGED answer
  /\ UNCHANGED <<payload, claim, made, effects>>

SuccessRecorded(r) ==
  /\ pc[r] = "record"
  /\ \/ UNCHANGED <<row, answer>> /\ pc' = [pc EXCEPT ![r] = "drop"]
     \/ /\ row.id = claim[r]
        /\ row'.id = row.id /\ row'.status = "succeeded"
        /\ row'.fingerprint = row.fingerprint /\ row'.result = made[r]
        /\ pc' = [pc EXCEPT ![r] = "done"]
        /\ answer' = [answer EXCEPT ![r] = [kind |-> "ok", of |-> made[r]]]
  /\ UNCHANGED <<payload, claim, made, effects, displaced>>

FailureRecorded(r) ==
  /\ pc[r] = "refuse"
  /\ \/ /\ row.id = claim[r]
        /\ row'.id = row.id /\ row'.status = "failed_final"
        /\ answer' = [answer EXCEPT ![r] = [kind |-> "failed", of |-> NoRequest]]
     \/ /\ UNCHANGED row
        /\ answer' = [answer EXCEPT ![r] = [kind |-> "error", of |-> NoRequest]]
  /\ row'.fingerprint = row.fingerprint
  /\ pc' = [pc EXCEPT ![r] = "done"]
  /\ UNCHANGED <<payload, claim, made, effects, displaced>>

LEMMA ClaimedRow ==
  ASSUME TypeOK, NEW r \in Requests, Claim(r)
  PROVE  Claimed(r)
<1>1. CASE row = NoRow
  <2>1. row' = [NoRow EXCEPT !.id = r, !.status = "processing",
                             !.fingerprint = payload[r]]
    BY <1>1 DEF Claim
  <2>2. row'.id = r /\ row'.status = "processing" /\ row'.fingerprint = payload[r]
    BY <2>1 DEF NoRow
  <2>3. row' # NoRow
    BY <2>2 DEF NoRow
  <2> HIDE DEF NoRow
  <2> QED
    BY <1>1, <2>2, <2>3 DEF Claim, Claimed
<1>2. CASE row # NoRow
  BY <1>2 DEF Claim, Claimed
<1> QED
  BY <1>1, <1>2

LEMMA TakenRow ==
  ASSUME TypeOK, NEW r \in Requests, TakeOver(r)
  PROVE  Taken(r)
<1>1. CASE Holds(r) /\ row.status = "processing" /\ row.stale
  <2>1. row' = [row EXCEPT !.fingerprint = payload[r], !.stale = FALSE]
    BY <1>1 DEF TakeOver
  <2>2. row'.id = row.id /\ row'.status = row.status /\ row'.fingerprint = payload[r]
    BY <2>1 DEF TypeOK
  <2> QED
    BY <1>1, <2>2 DEF TakeOver, Taken
<1>2. CASE ~(Holds(r) /\ row.status = "processing" /\ row.stale)
  BY <1>2 DEF TakeOver, Taken
<1> QED
  BY <1>1, <1>2

LEMMA SuccessRow ==
  ASSUME TypeOK, NEW r \in Requests, RecordSuccess(r)
  PROVE  SuccessRecorded(r)
<1>1. CASE Holds(r)
  <2>1. row' = [row EXCEPT !.status = "succeeded", !.result = made[r]]
    BY <1>1 DEF RecordSuccess, Succeeded
  <2>2. /\ row'.id = row.id /\ row'.status = "succeeded"
        /\ row'.fingerprint = row.fingerprint /\ row'.result = made[r]
    BY <2>1 DEF TypeOK
  <2> QED
    BY <1>1, <2>2 DEF RecordSuccess, SuccessRecorded
<1>2. CASE ~Holds(r)
  BY <1>2 DEF RecordSuccess, SuccessRecorded
<1> QED
  BY <1>1, <1>2

LEMMA FailureRow ==
  ASSUME TypeOK, NEW r \in Requests, RecordFailure(r)
  PROVE  FailureRecorded(r)
<1>1. CASE UNCHANGED row /\ Return(r, "error", NoRequest)
  BY <1>1 DEF RecordFailure, FailureRecorded
<1>2. CASE /\ Holds(r) /\ row' = [row EXCEPT !.status = "failed_final"]
           /\ Return(r, "failed", NoRequest)
  <2>1. /\ row'.id = row.id /\ row'.status = "failed_final"
        /\ row'.fingerprint = row.fingerprint
    BY <1>2 DEF TypeOK
  <2> QED
    BY <1>2, <2>1 DEF RecordFailure, FailureRecorded
<1> QED
  BY <1>1, <1>2 DEF RecordFailure

-----------------------------------------------------------------------------
(* The conjuncts of the invariant.                                         *)

\* What a request reports was committed for its payload.
LEMMA StepsPreserved == ASSUME IInv, [Next]_vars PROVE Steps'
<1>0. TypeOK /\ Steps /\ RowIds
  BY DEF IInv
<1> USE <1>0, IdempotencyAssumption DEF TypeOK, Steps, RowIds, NoRow
<1>1. ASSUME NEW r \in Requests, Claim(r) PROVE Steps'
  <2>1. Claimed(r)
    BY <1>1, ClaimedRow
  <2> QED
    BY <2>1 DEF Claimed
<1>2. ASSUME NEW r \in Requests, LookUp(r) PROVE Steps'
  BY <1>2 DEF LookUp, Matches
<1>3. ASSUME NEW r \in Requests, TakeOver(r) PROVE Steps'
  <2>1. Taken(r)
    BY <1>3, TakenRow
  <2> QED
    BY <2>1 DEF Taken
<1>4. ASSUME NEW r \in Requests, Execute(r) PROVE Steps'
  BY <1>4 DEF Execute, Same
<1>5. ASSUME NEW r \in Requests, Resume(r) PROVE Steps'
  BY <1>5 DEF Resume, Same
<1>6. ASSUME NEW r \in Requests, Refuse(r) \/ Break(r) \/ Crash(r) PROVE Steps'
  BY <1>6 DEF Refuse, Break, Crash
<1>7. ASSUME NEW r \in Requests, RecordSuccess(r) PROVE Steps'
  <2>1. SuccessRecorded(r)
    BY <1>7, SuccessRow
  <2> QED
    BY <2>1 DEF SuccessRecorded
<1>8. ASSUME NEW r \in Requests, RecordFailure(r) PROVE Steps'
  <2>1. FailureRecorded(r)
    BY <1>8, FailureRow
  <2> QED
    BY <2>1 DEF FailureRecorded
<1>9. ASSUME NEW r \in Requests, DropClaim(r) PROVE Steps'
  BY <1>9 DEF DropClaim
<1>10. ASSUME MinutePasses PROVE Steps'
  BY <1>10 DEF MinutePasses
<1>11. CASE UNCHANGED vars
  BY <1>11 DEF vars
<1> QED
  BY <1>1, <1>2, <1>3, <1>4, <1>5, <1>6, <1>7, <1>8, <1>9, <1>10, <1>11 DEF Next

\* Ids are fresh.
LEMMA RowIdsPreserved == ASSUME IInv, [Next]_vars PROVE RowIds'
<1>0. TypeOK /\ Steps /\ RowIds
  BY DEF IInv
<1> USE <1>0, IdempotencyAssumption DEF TypeOK, Steps, RowIds, NoRow
<1>1. ASSUME NEW r \in Requests, Claim(r) PROVE RowIds'
  <2>1. Claimed(r)
    BY <1>1, ClaimedRow
  <2> QED
    BY <2>1 DEF Claimed
<1>2. ASSUME NEW r \in Requests, LookUp(r) PROVE RowIds'
  BY <1>2 DEF LookUp, Matches
<1>3. ASSUME NEW r \in Requests, TakeOver(r) PROVE RowIds'
  <2>1. Taken(r)
    BY <1>3, TakenRow
  <2> QED
    BY <2>1 DEF Taken
<1>4. ASSUME NEW r \in Requests, Execute(r) PROVE RowIds'
  BY <1>4 DEF Execute, Same
<1>5. ASSUME NEW r \in Requests, Resume(r) PROVE RowIds'
  BY <1>5 DEF Resume, Same
<1>6. ASSUME NEW r \in Requests, Refuse(r) \/ Break(r) \/ Crash(r) PROVE RowIds'
  BY <1>6 DEF Refuse, Break, Crash
<1>7. ASSUME NEW r \in Requests, RecordSuccess(r) PROVE RowIds'
  <2>1. SuccessRecorded(r)
    BY <1>7, SuccessRow
  <2> QED
    BY <2>1 DEF SuccessRecorded
<1>8. ASSUME NEW r \in Requests, RecordFailure(r) PROVE RowIds'
  <2>1. FailureRecorded(r)
    BY <1>8, FailureRow
  <2> QED
    BY <2>1 DEF FailureRecorded
<1>9. ASSUME NEW r \in Requests, DropClaim(r) PROVE RowIds'
  BY <1>9 DEF DropClaim
<1>10. ASSUME MinutePasses PROVE RowIds'
  BY <1>10 DEF MinutePasses
<1>11. CASE UNCHANGED vars
  BY <1>11 DEF vars
<1> QED
  BY <1>1, <1>2, <1>3, <1>4, <1>5, <1>6, <1>7, <1>8, <1>9, <1>10, <1>11 DEF Next

\* A row says what was committed for its payload.
LEMMA RowIsTruePreserved == ASSUME IInv, [Next]_vars PROVE RowIsTrue'
<1>0. TypeOK /\ Steps /\ RowIds /\ RowIsTrue
  BY DEF IInv
<1> USE <1>0, IdempotencyAssumption DEF TypeOK, Steps, RowIds, RowIsTrue, NoRow
<1>1. ASSUME NEW r \in Requests, Claim(r) PROVE RowIsTrue'
  <2>1. Claimed(r)
    BY <1>1, ClaimedRow
  <2> QED
    BY <2>1 DEF Claimed
<1>2. ASSUME NEW r \in Requests, LookUp(r) PROVE RowIsTrue'
  BY <1>2 DEF LookUp, Matches
<1>3. ASSUME NEW r \in Requests, TakeOver(r) PROVE RowIsTrue'
  <2>1. Taken(r)
    BY <1>3, TakenRow
  <2> QED
    BY <2>1 DEF Taken
<1>4. ASSUME NEW r \in Requests, Execute(r) PROVE RowIsTrue'
  BY <1>4 DEF Execute, Same
<1>5. ASSUME NEW r \in Requests, Resume(r) PROVE RowIsTrue'
  BY <1>5 DEF Resume, Same
<1>6. ASSUME NEW r \in Requests, Refuse(r) \/ Break(r) \/ Crash(r) PROVE RowIsTrue'
  BY <1>6 DEF Refuse, Break, Crash
<1>7. ASSUME NEW r \in Requests, RecordSuccess(r) PROVE RowIsTrue'
  <2>1. SuccessRecorded(r)
    BY <1>7, SuccessRow
  <2> QED
    BY <2>1 DEF SuccessRecorded
<1>8. ASSUME NEW r \in Requests, RecordFailure(r) PROVE RowIsTrue'
  <2>1. FailureRecorded(r)
    BY <1>8, FailureRow
  <2> QED
    BY <2>1 DEF FailureRecorded
<1>9. ASSUME NEW r \in Requests, DropClaim(r) PROVE RowIsTrue'
  BY <1>9 DEF DropClaim
<1>10. ASSUME MinutePasses PROVE RowIsTrue'
  BY <1>10 DEF MinutePasses
<1>11. CASE UNCHANGED vars
  BY <1>11 DEF vars
<1> QED
  BY <1>1, <1>2, <1>3, <1>4, <1>5, <1>6, <1>7, <1>8, <1>9, <1>10, <1>11 DEF Next

\* Nobody works beside the holder of the row.
LEMMA OneWorkerPreserved == ASSUME IInv, [Next]_vars PROVE OneWorker'
<1>0. TypeOK /\ Steps /\ RowIds /\ OneWorker
  BY DEF IInv
<1> USE <1>0, IdempotencyAssumption DEF TypeOK, Steps, RowIds, OneWorker, NoRow
<1>1. ASSUME NEW r \in Requests, Claim(r) PROVE OneWorker'
  <2>1. Claimed(r)
    BY <1>1, ClaimedRow
  <2> QED
    BY <2>1 DEF Claimed
<1>2. ASSUME NEW r \in Requests, LookUp(r) PROVE OneWorker'
  BY <1>2 DEF LookUp, Matches
<1>3. ASSUME NEW r \in Requests, TakeOver(r) PROVE OneWorker'
  <2>1. Taken(r)
    BY <1>3, TakenRow
  <2> QED
    BY <2>1 DEF Taken
<1>4. ASSUME NEW r \in Requests, Execute(r) PROVE OneWorker'
  BY <1>4 DEF Execute, Same
<1>5. ASSUME NEW r \in Requests, Resume(r) PROVE OneWorker'
  BY <1>5 DEF Resume, Same
<1>6. ASSUME NEW r \in Requests, Refuse(r) \/ Break(r) \/ Crash(r) PROVE OneWorker'
  BY <1>6 DEF Refuse, Break, Crash
<1>7. ASSUME NEW r \in Requests, RecordSuccess(r) PROVE OneWorker'
  <2>1. SuccessRecorded(r)
    BY <1>7, SuccessRow
  <2> QED
    BY <2>1 DEF SuccessRecorded
<1>8. ASSUME NEW r \in Requests, RecordFailure(r) PROVE OneWorker'
  <2>1. FailureRecorded(r)
    BY <1>8, FailureRow
  <2> QED
    BY <2>1 DEF FailureRecorded
<1>9. ASSUME NEW r \in Requests, DropClaim(r) PROVE OneWorker'
  BY <1>9 DEF DropClaim
<1>10. ASSUME MinutePasses PROVE OneWorker'
  BY <1>10 DEF MinutePasses
<1>11. CASE UNCHANGED vars
  BY <1>11 DEF vars
<1> QED
  BY <1>1, <1>2, <1>3, <1>4, <1>5, <1>6, <1>7, <1>8, <1>9, <1>10, <1>11 DEF Next

\* Effects are accounted for.
LEMMA AccountedPreserved == ASSUME IInv, [Next]_vars PROVE Accounted'
<1>0. TypeOK /\ Steps /\ RowIds /\ OneWorker /\ Accounted
  BY DEF IInv
<1> USE <1>0, IdempotencyAssumption DEF TypeOK, Steps, RowIds, OneWorker, Accounted, Forgotten, NoRow
<1>1. ASSUME NEW r \in Requests, Claim(r) PROVE Accounted'
  <2>1. Claimed(r)
    BY <1>1, ClaimedRow
  <2> QED
    BY <2>1 DEF Claimed
<1>2. ASSUME NEW r \in Requests, LookUp(r) PROVE Accounted'
  BY <1>2 DEF LookUp, Matches
<1>3. ASSUME NEW r \in Requests, TakeOver(r) PROVE Accounted'
  <2>1. Taken(r)
    BY <1>3, TakenRow
  <2> QED
    BY <2>1 DEF Taken
<1>4. ASSUME NEW r \in Requests, Execute(r) PROVE Accounted'
  BY <1>4 DEF Execute, Same
<1>5. ASSUME NEW r \in Requests, Resume(r) PROVE Accounted'
  BY <1>5 DEF Resume, Same
<1>6. ASSUME NEW r \in Requests, Refuse(r) \/ Break(r) \/ Crash(r) PROVE Accounted'
  BY <1>6 DEF Refuse, Break, Crash
<1>7. ASSUME NEW r \in Requests, RecordSuccess(r) PROVE Accounted'
  <2>1. SuccessRecorded(r)
    BY <1>7, SuccessRow
  <2> QED
    BY <2>1 DEF SuccessRecorded
<1>8. ASSUME NEW r \in Requests, RecordFailure(r) PROVE Accounted'
  <2>1. FailureRecorded(r)
    BY <1>8, FailureRow
  <2> QED
    BY <2>1 DEF FailureRecorded
<1>9. ASSUME NEW r \in Requests, DropClaim(r) PROVE Accounted'
  BY <1>9 DEF DropClaim
<1>10. ASSUME MinutePasses PROVE Accounted'
  BY <1>10 DEF MinutePasses
<1>11. CASE UNCHANGED vars
  BY <1>11 DEF vars
<1> QED
  BY <1>1, <1>2, <1>3, <1>4, <1>5, <1>6, <1>7, <1>8, <1>9, <1>10, <1>11 DEF Next

\* Answers are true.
LEMMA ReplayPreserved == ASSUME IInv, [Next]_vars PROVE ReplayIsTrue'
<1>0. TypeOK /\ Steps /\ RowIds /\ RowIsTrue /\ ReplayIsTrue
  BY DEF IInv
<1> USE <1>0, IdempotencyAssumption DEF TypeOK, Steps, RowIds, RowIsTrue, ReplayIsTrue, NoRow
<1>1. ASSUME NEW r \in Requests, Claim(r) PROVE ReplayIsTrue'
  <2>1. Claimed(r)
    BY <1>1, ClaimedRow
  <2> QED
    BY <2>1 DEF Claimed
<1>2. ASSUME NEW r \in Requests, LookUp(r) PROVE ReplayIsTrue'
  BY <1>2 DEF LookUp, Matches
<1>3. ASSUME NEW r \in Requests, TakeOver(r) PROVE ReplayIsTrue'
  <2>1. Taken(r)
    BY <1>3, TakenRow
  <2> QED
    BY <2>1 DEF Taken
<1>4. ASSUME NEW r \in Requests, Execute(r) PROVE ReplayIsTrue'
  BY <1>4 DEF Execute, Same
<1>5. ASSUME NEW r \in Requests, Resume(r) PROVE ReplayIsTrue'
  BY <1>5 DEF Resume, Same
<1>6. ASSUME NEW r \in Requests, Refuse(r) \/ Break(r) \/ Crash(r) PROVE ReplayIsTrue'
  BY <1>6 DEF Refuse, Break, Crash
<1>7. ASSUME NEW r \in Requests, RecordSuccess(r) PROVE ReplayIsTrue'
  <2>1. SuccessRecorded(r)
    BY <1>7, SuccessRow
  <2> QED
    BY <2>1 DEF SuccessRecorded
<1>8. ASSUME NEW r \in Requests, RecordFailure(r) PROVE ReplayIsTrue'
  <2>1. FailureRecorded(r)
    BY <1>8, FailureRow
  <2> QED
    BY <2>1 DEF FailureRecorded
<1>9. ASSUME NEW r \in Requests, DropClaim(r) PROVE ReplayIsTrue'
  BY <1>9 DEF DropClaim
<1>10. ASSUME MinutePasses PROVE ReplayIsTrue'
  BY <1>10 DEF MinutePasses
<1>11. CASE UNCHANGED vars
  BY <1>11 DEF vars
<1> QED
  BY <1>1, <1>2, <1>3, <1>4, <1>5, <1>6, <1>7, <1>8, <1>9, <1>10, <1>11 DEF Next

\* A second effect needs a loss.
LEMMA OncePreserved == ASSUME IInv, [Next]_vars PROVE OnceUnlessLost'
<1>0. TypeOK /\ Steps /\ RowIds /\ OneWorker /\ Accounted /\ OnceUnlessLost
  BY DEF IInv
<1> USE <1>0, IdempotencyAssumption DEF TypeOK, Steps, RowIds, OneWorker, Accounted, Forgotten, OnceUnlessLost, NoRow
<1>1. ASSUME NEW r \in Requests, Claim(r) PROVE OnceUnlessLost'
  <2>1. Claimed(r)
    BY <1>1, ClaimedRow
  <2> QED
    BY <2>1 DEF Claimed
<1>2. ASSUME NEW r \in Requests, LookUp(r) PROVE OnceUnlessLost'
  BY <1>2 DEF LookUp, Matches
<1>3. ASSUME NEW r \in Requests, TakeOver(r) PROVE OnceUnlessLost'
  <2>1. Taken(r)
    BY <1>3, TakenRow
  <2> QED
    BY <2>1 DEF Taken
<1>4. ASSUME NEW r \in Requests, Execute(r) PROVE OnceUnlessLost'
  BY <1>4 DEF Execute, Same
<1>5. ASSUME NEW r \in Requests, Resume(r) PROVE OnceUnlessLost'
  BY <1>5 DEF Resume, Same
<1>6. ASSUME NEW r \in Requests, Refuse(r) \/ Break(r) \/ Crash(r) PROVE OnceUnlessLost'
  BY <1>6 DEF Refuse, Break, Crash
<1>7. ASSUME NEW r \in Requests, RecordSuccess(r) PROVE OnceUnlessLost'
  <2>1. SuccessRecorded(r)
    BY <1>7, SuccessRow
  <2> QED
    BY <2>1 DEF SuccessRecorded
<1>8. ASSUME NEW r \in Requests, RecordFailure(r) PROVE OnceUnlessLost'
  <2>1. FailureRecorded(r)
    BY <1>8, FailureRow
  <2> QED
    BY <2>1 DEF FailureRecorded
<1>9. ASSUME NEW r \in Requests, DropClaim(r) PROVE OnceUnlessLost'
  BY <1>9 DEF DropClaim
<1>10. ASSUME MinutePasses PROVE OnceUnlessLost'
  BY <1>10 DEF MinutePasses
<1>11. CASE UNCHANGED vars
  BY <1>11 DEF vars
<1> QED
  BY <1>1, <1>2, <1>3, <1>4, <1>5, <1>6, <1>7, <1>8, <1>9, <1>10, <1>11 DEF Next

-----------------------------------------------------------------------------
(* The theorems.                                                           *)

LEMMA NextIInv == IInv /\ [Next]_vars => IInv'
BY TypePreserved, StepsPreserved, RowIdsPreserved, RowIsTruePreserved,
   OneWorkerPreserved, AccountedPreserved, ReplayPreserved, OncePreserved DEF IInv

LEMMA Invariance == Spec => []IInv
<1>1. Init => IInv
  BY InitIInv
<1>2. IInv /\ [Next]_vars => IInv'
  BY NextIInv
<1> QED
  BY <1>1, <1>2, PTL DEF Spec

\* The variables of the key's row and of its requests keep their types.
THEOREM TypeCorrect == Spec => []TypeOK
<1>1. IInv => TypeOK
  BY DEF IInv
<1> QED
  BY <1>1, Invariance, PTL

\* A request answered with a result gets one that was committed, for the payload
\* it carried: IdempotencyService.execute never replays another request's.
THEOREM ReplaysAreTrue == Spec => []ReplayIsTrue
<1>1. IInv => ReplayIsTrue
  BY DEF IInv
<1> QED
  BY <1>1, Invariance, PTL

\* The run of an operation is repeated only after a takeover of a request still at
\* work, or when a request that had committed was lost before it could say so.
THEOREM RepeatsNeedALoss == Spec => []OnceUnlessLost
<1>1. IInv => OnceUnlessLost
  BY DEF IInv
<1> QED
  BY <1>1, Invariance, PTL

\* Until somebody is taken over, a recorded outcome is never written again.
THEOREM OutcomesStay == Spec => OutcomeStays
<1>1. ASSUME IInv, [Next]_vars, row.status \in {"succeeded", "failed_final"},
             displaced = {}
      PROVE  row' = row
  <2>0. /\ row # NoRow
        /\ \A r \in Requests : pc[r] \notin Working
    BY <1>1 DEF IInv, OneWorker, NoRow
  <2>1. CASE \E r \in Requests : Claim(r) \/ LookUp(r) \/ TakeOver(r)
    BY <1>1, <2>0, <2>1 DEF Claim, LookUp, TakeOver
  <2>2. CASE \E r \in Requests : Execute(r) \/ Resume(r) \/ Refuse(r) \/ Break(r)
                                 \/ RecordSuccess(r) \/ RecordFailure(r)
                                 \/ DropClaim(r) \/ Crash(r)
    BY <2>0, <2>2 DEF Execute, Resume, Refuse, Break, RecordSuccess, RecordFailure,
                      DropClaim, Crash
  <2>3. CASE MinutePasses
    BY <1>1, <2>3 DEF MinutePasses
  <2>4. CASE UNCHANGED vars
    BY <2>4 DEF vars
  <2> QED
    BY <1>1, <2>1, <2>2, <2>3, <2>4 DEF Next
<1>2. IInv /\ [Next]_vars =>
        [row.status \in {"succeeded", "failed_final"} /\ displaced = {} => row' = row]_vars
  BY <1>1
<1> QED
  BY <1>2, Invariance, PTL DEF OutcomeStays, Spec

-----------------------------------------------------------------------------
(* The promise of a key.                                                   *)

\* What was lost stays lost.
LEMMA LossStays == ASSUME IInv, [Next]_vars, Lost PROVE Lost'
<1>0. TypeOK /\ Steps
  BY DEF IInv
<1> SUFFICES ASSUME displaced' = {}, NEW q \in Requests, Forgotten(q)
             PROVE  Forgotten(q)'
  <2>1. displaced \subseteq displaced'
    BY DEF Next, Claim, LookUp, TakeOver, Execute, Resume, Refuse, Break, RecordSuccess,
           RecordFailure, DropClaim, Crash, MinutePasses, vars
  <2> QED
    BY <2>1 DEF Lost
<1>1. pc[q] \in {"dead", "drop"} \/ (pc[q] = "done" /\ answer[q].kind = "error")
  BY <1>0 DEF Forgotten, Steps
<1>2. q \in effects /\ effects \subseteq effects'
  BY DEF Forgotten, Next, Claim, LookUp, TakeOver, Execute, Resume, Refuse, Break,
         RecordSuccess, RecordFailure, DropClaim, Crash, MinutePasses, vars
<1>3. CASE \E r \in Requests : Claim(r) \/ LookUp(r) \/ TakeOver(r)
  BY <1>0, <1>1, <1>2, <1>3 DEF Claim, LookUp, TakeOver, Forgotten, TypeOK
<1>4. CASE \E r \in Requests : Execute(r) \/ Resume(r) \/ Refuse(r) \/ Break(r) \/ Crash(r)
  BY <1>0, <1>1, <1>2, <1>4 DEF Execute, Resume, Refuse, Break, Crash, Forgotten, TypeOK
<1>5. CASE \E r \in Requests : RecordSuccess(r) \/ RecordFailure(r) \/ DropClaim(r)
  BY <1>0, <1>1, <1>2, <1>5 DEF RecordSuccess, RecordFailure, DropClaim, Forgotten, TypeOK
<1>6. CASE MinutePasses \/ UNCHANGED vars
  BY <1>1, <1>2, <1>6 DEF MinutePasses, vars, Forgotten
<1> QED
  BY <1>3, <1>4, <1>5, <1>6 DEF Next

\* While nothing is lost, a request at work finds nothing chosen unless it is to
\* record what it has done itself.
LEMMA WorkFindsNothing ==
  ASSUME IInv, ~Lost, NEW r \in Requests, pc[r] \in {"run", "refuse"}
  PROVE  Chosen = {}
<1>1. displaced = {} /\ \A q \in effects : ~Forgotten(q)
  BY DEF Lost, IInv, TypeOK
<1>2. row.status = "processing" /\ \A q \in Requests : pc[q] # "record"
  BY <1>1 DEF IInv, OneWorker
<1>3. effects = {}
  BY <1>1, <1>2 DEF IInv, Accounted, TypeOK
<1> QED
  BY <1>2, <1>3 DEF Chosen

\* While nothing is lost, a step leaves the outcome or chooses the first one.
LEMMA ChosenOnce ==
  ASSUME IInv, [Next]_vars, ~Lost
  PROVE  \/ Chosen' = Chosen
         \/ /\ Chosen = {} /\ ~Lost'
            /\ \E v \in Requests \cup {NoRequest} : Chosen' = {v}
<1>0. TypeOK /\ Steps /\ displaced = {} /\ \A q \in Requests : ~Forgotten(q)
  BY DEF IInv, Lost
<1>1. ASSUME NEW r \in Requests, pc[r] \in Working
      PROVE  Holds(r) /\ row.status = "processing"
  BY <1>0, <1>1 DEF IInv, OneWorker
<1>2. ASSUME NEW r \in Requests, Claim(r) PROVE Chosen' = Chosen
  <2>1. Claimed(r)
    BY <1>0, <1>2, ClaimedRow
  <2> QED
    BY <2>1 DEF Claimed, Chosen, NoRow
<1>3. ASSUME NEW r \in Requests, TakeOver(r) PROVE Chosen' = Chosen
  <2>1. Taken(r)
    BY <1>0, <1>3, TakenRow
  <2> QED
    BY <2>1 DEF Taken, Chosen
<1>4. ASSUME NEW r \in Requests, Execute(r)
      PROVE  Chosen = {} /\ Chosen' = {r} /\ ~Lost'
  <2>1. Chosen = {} /\ row' = row /\ effects' = effects \cup {r}
    BY <1>4, WorkFindsNothing DEF Execute
  <2>2. Chosen' = {r}
    BY <2>1 DEF Chosen
  <2>3. effects' = {r}
    BY <2>1 DEF Chosen
  <2>4. pc'[r] = "record" /\ answer'[r].kind = "none" /\ displaced' = {}
    BY <1>0, <1>4 DEF Execute, TypeOK, Steps
  <2> QED
    BY <2>1, <2>2, <2>3, <2>4 DEF Lost, Forgotten
<1>5. ASSUME NEW r \in Requests, RecordSuccess(r) PROVE Chosen' = Chosen
  <2>1. SuccessRecorded(r)
    BY <1>0, <1>5, SuccessRow
  <2> QED
    BY <1>1, <2>1 DEF SuccessRecorded, Chosen
<1>6. ASSUME NEW r \in Requests, RecordFailure(r), Chosen' # Chosen
      PROVE  Chosen = {} /\ Chosen' = {NoRequest} /\ ~Lost'
  <2>1. FailureRecorded(r)
    BY <1>0, <1>6, FailureRow
  <2>2. Chosen = {} /\ effects = {}
    BY <2>1, WorkFindsNothing DEF FailureRecorded, Chosen
  <2>3. row'.status = "failed_final" /\ effects' = {} /\ displaced' = {}
    BY <1>0, <1>6, <2>1, <2>2 DEF FailureRecorded, Chosen
  <2> QED
    BY <2>2, <2>3 DEF Chosen, Lost, Forgotten
<1>7. ASSUME NEW r \in Requests, DropClaim(r) PROVE Chosen' = Chosen
  <2>1. row.status = "processing" /\ row'.status # "failed_final"
    BY <1>1, <1>7 DEF DropClaim, NoRow
  <2> QED
    BY <1>7, <2>1 DEF DropClaim, Chosen
<1>8. ASSUME MinutePasses PROVE Chosen' = Chosen
  <2>1. row'.status = row.status
    BY <1>0, <1>8 DEF MinutePasses, TypeOK
  <2> QED
    BY <1>8, <2>1 DEF MinutePasses, Chosen
<1>9. CASE UNCHANGED vars \/ \E r \in Requests : \/ LookUp(r) \/ Resume(r) \/ Refuse(r)
                                              \/ Break(r) \/ Crash(r)
  BY <1>9 DEF LookUp, Resume, Refuse, Break, Crash, vars, Chosen
<1> QED
  BY <1>2, <1>3, <1>4, <1>5, <1>6, <1>7, <1>8, <1>9 DEF Next

\* A request that answers had not answered, and a failure it tells is chosen.
LEMMA AnsweredOnce ==
  ASSUME IInv, [Next]_vars
  PROVE  \/ UNCHANGED answer
         \/ \E r \in Requests :
              /\ answer[r].kind = "none"
              /\ \A q \in Requests \ {r} : answer'[q] = answer[q]
              /\ answer'[r].kind = "failed" => row'.status = "failed_final"
<1>0. TypeOK /\ Steps
  BY DEF IInv
<1> USE <1>0 DEF TypeOK, Steps
<1>1. ASSUME NEW r \in Requests, LookUp(r)
      PROVE  /\ answer[r].kind = "none"
             /\ \A q \in Requests \ {r} : answer'[q] = answer[q]
             /\ answer'[r].kind = "failed" => row'.status = "failed_final"
  BY <1>1 DEF LookUp
<1>2. ASSUME NEW r \in Requests, TakeOver(r)
      PROVE  /\ answer[r].kind = "none"
             /\ \A q \in Requests \ {r} : answer'[q] = answer[q]
             /\ answer'[r].kind # "failed"
  BY <1>2 DEF TakeOver
<1>3. ASSUME NEW r \in Requests, RecordSuccess(r) \/ DropClaim(r)
      PROVE  /\ answer[r].kind = "none"
             /\ \A q \in Requests \ {r} : answer'[q] = answer[q]
             /\ answer'[r].kind # "failed"
  BY <1>3 DEF RecordSuccess, DropClaim
<1>4. ASSUME NEW r \in Requests, RecordFailure(r)
      PROVE  /\ answer[r].kind = "none"
             /\ \A q \in Requests \ {r} : answer'[q] = answer[q]
             /\ answer'[r].kind = "failed" => row'.status = "failed_final"
  <2>1. FailureRecorded(r)
    BY <1>4, FailureRow
  <2> QED
    BY <2>1 DEF FailureRecorded
<1>5. CASE \/ MinutePasses \/ UNCHANGED vars
           \/ \E r \in Requests : \/ Claim(r) \/ Execute(r) \/ Resume(r) \/ Refuse(r)
                                  \/ Break(r) \/ Crash(r)
  BY <1>5 DEF MinutePasses, vars, Claim, Execute, Resume, Refuse, Break, Crash
<1> QED
  BY <1>1, <1>2, <1>3, <1>4, <1>5 DEF Next

\* Every step of the requests and of the row keeps the promise.
LEMMA PromiseStep ==
  ASSUME IInv, IInv', [Next]_vars
  PROVE  [Outcome!KeyNext]_(Outcome!promise)
<1>1. payload' = payload
  BY DEF Next, Claim, LookUp, TakeOver, Execute, Resume, Refuse, Break, RecordSuccess,
         RecordFailure, DropClaim, Crash, MinutePasses, vars
<1>2. \/ \E v \in Requests \cup {NoRequest} : Outcome!Choose(v)
      \/ Outcome!Lose \/ Outcome!ChooseAgain \/ Outcome!Keep
  <2>1. CASE Lost
    <3>1. Lost' = Lost
      BY <2>1, LossStays DEF Lost
    <3> QED
      BY <2>1, <3>1 DEF Outcome!ChooseAgain
  <2>2. CASE ~Lost /\ Chosen' = Chosen
    <3>1. Lost' = TRUE \/ Lost' = Lost
      BY <2>2 DEF Lost
    <3> QED
      BY <2>2, <3>1 DEF Outcome!Lose, Outcome!Keep
  <2>3. CASE ~Lost /\ Chosen' # Chosen
    <3>1. /\ Chosen = {} /\ ~Lost'
          /\ \E v \in Requests \cup {NoRequest} : Chosen' = {v}
      BY <2>3, ChosenOnce
    <3>2. Lost' = Lost
      BY <2>3, <3>1 DEF Lost
    <3> QED
      BY <3>1, <3>2 DEF Outcome!Choose
  <2> QED
    BY <2>1, <2>2, <2>3
<1>3. ASSUME NEW r \in Requests,
             answer'[r].kind = "failed" => row'.status = "failed_final"
      PROVE  Outcome!Tells(r, answer'[r])
  <2>1. /\ answer'[r].kind = "ok" =>
             answer'[r].of \in effects' /\ payload[answer'[r].of] = payload[r]
        /\ effects' \subseteq Requests
    BY <1>1 DEF IInv, ReplayIsTrue, TypeOK
  <2> QED
    BY <1>3, <2>1 DEF Outcome!Tells, Chosen
<1>4. UNCHANGED answer \/ \E r \in Requests : Outcome!Reply(r)
  BY <1>3, AnsweredOnce DEF Outcome!Reply
<1> QED
  BY <1>1, <1>2, <1>4 DEF Outcome!KeyNext, Outcome!promise

\* A key keeps its promise: what IdempotencyService.execute does with the row is one
\* choice of an outcome, told to every repetition, until something is lost.
THEOREM KeyKeepsItsPromise == Spec => OutcomeImplemented
<1>1. Init => Outcome!KeyInit
  BY DEF Init, NoRow, Outcome!KeyInit, Chosen, Lost, Forgotten
<1>2. IInv /\ IInv' /\ [Next]_vars => [Outcome!KeyNext]_(Outcome!promise)
  BY PromiseStep
<1> QED
  BY <1>1, <1>2, Invariance, PTL DEF Spec, OutcomeImplemented, Outcome!KeySpec

=============================================================================
