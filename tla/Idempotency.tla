----------------------------- MODULE Idempotency -----------------------------
(***************************************************************************)
(* The requests that carry one Idempotency-Key: a client's request and its *)
(* repetitions, which may run at once, and the idempotency_keys row that   *)
(* decides which of them executes the operation.                           *)
(*                                                                         *)
(* Every statement on the row is a step of its own; the operation commits  *)
(* its effect in one transaction in between.  A row is known by its id,    *)
(* which is fresh each time the key is claimed anew: the model names a row *)
(* by the request that created it.                                         *)
(***************************************************************************)
EXTENDS Integers, FiniteSets

CONSTANTS
  Requests,   \* the requests with this scope, action and key
  NoRequest,
  Payloads    \* the payloads they may carry

ASSUME IdempotencyAssumption == NoRequest \notin Requests

VARIABLES
  operation,  \* what the requests ask for
  payload,    \* what each request carries, as its fingerprint
  row,        \* the idempotency_keys row
  pc, claim, made,  \* each request: its step, the id of the row it works under,
              \* and the request whose effect it is to report
  effects,    \* the requests whose operation committed
  displaced,  \* the requests another one took the row over from
  answer      \* what each request returned

inputs == <<operation, payload>>
vars == <<inputs, row, pc, claim, made, effects, displaced, answer>>

-----------------------------------------------------------------------------
(* The operation, the row, and the answers.                                *)

\* A walk-in may be created any number of times.  A booking is refused by the
\* reservation of the first one, which is taken to last, and one to be paid
\* online takes up what an earlier request has left.  Payloads that differ in
\* the customer's notes alone are one payload.
Operations == {"walk_in", "pay_at_location", "online"}

\* The effects of the operation r asks for.
Same(r) == {q \in effects : payload[q] = payload[r]}

NoRow == [id |-> NoRequest, status |-> "none", fingerprint |-> "none",
          result |-> NoRequest, stale |-> FALSE]

At(r, step) == pc[r] = step

Goto(r, step) == pc' = [pc EXCEPT ![r] = step]

Return(r, kind, of) ==
  /\ Goto(r, "done")
  /\ answer' = [answer EXCEPT ![r] = [kind |-> kind, of |-> of]]

\* The steps in which a request may change the row by its id.
Working == {"run", "record", "refuse", "drop"}

\* The row a request works under is still there.
Holds(r) == row.id = claim[r]

-----------------------------------------------------------------------------
(* Claiming the key.                                                       *)

\* Deviation: the row is written whether or not there is one.
ClaimByUpsert(r) ==
  /\ At(r, "new")
  /\ row' = [NoRow EXCEPT !.id = r, !.status = "processing",
                          !.fingerprint = payload[r]]
  /\ claim' = [claim EXCEPT ![r] = r]
  /\ Goto(r, "run")
  /\ UNCHANGED <<inputs, made, effects, displaced, answer>>

\* The insert decides: the unique index admits one row.
Claim(r) ==
  /\ At(r, "new")
  /\ IF row = NoRow
     THEN /\ row' = [NoRow EXCEPT !.id = r, !.status = "processing",
                                  !.fingerprint = payload[r]]
          /\ claim' = [claim EXCEPT ![r] = r]
          /\ Goto(r, "run")
     ELSE Goto(r, "lookup") /\ UNCHANGED <<row, claim>>
  /\ UNCHANGED <<inputs, made, effects, displaced, answer>>

\* Deviation: the fingerprint is not compared.
MatchesAny(r) == TRUE

Matches(r) == row.fingerprint = payload[r]

\* The row is read, a statement after the insert: it may be gone by then.
LookUp(r) ==
  /\ At(r, "lookup")
  /\ \/ row = NoRow /\ Return(r, "in_progress", NoRequest) /\ UNCHANGED claim
     \/ row # NoRow /\ ~Matches(r) /\ Return(r, "reused", NoRequest) /\ UNCHANGED claim
     \/ row # NoRow /\ Matches(r) /\ UNCHANGED claim
        /\ \/ row.status = "succeeded" /\ Return(r, "ok", row.result)
           \/ row.status = "failed_final" /\ Return(r, "failed", NoRequest)
     \/ row.status = "processing" /\ Matches(r)
        /\ claim' = [claim EXCEPT ![r] = row.id]
        /\ Goto(r, "takeover") /\ UNCHANGED answer
  /\ UNCHANGED <<inputs, row, made, effects, displaced>>

\* Only a row that has not been written for PROCESSING_TAKEOVER_MS: its request
\* looks dead.  The update writes the row, so it is not stale any more.
TakeOver(r) ==
  /\ At(r, "takeover")
  /\ IF Holds(r) /\ row.status = "processing" /\ row.stale
     THEN /\ row' = [row EXCEPT !.fingerprint = payload[r], !.stale = FALSE]
          /\ displaced' = displaced \cup {q \in Requests : pc[q] \in Working /\ Holds(q)}
          /\ Goto(r, "run")
          /\ UNCHANGED answer
     ELSE Return(r, "in_progress", NoRequest) /\ UNCHANGED <<row, displaced>>
  /\ UNCHANGED <<inputs, claim, made, effects>>

-----------------------------------------------------------------------------
(* The operation.                                                          *)

\* The transaction of the operation commits, unless a constraint refuses it.
Execute(r) ==
  /\ At(r, "run")
  /\ operation = "walk_in" \/ Same(r) = {}
  /\ effects' = effects \cup {r}
  /\ made' = [made EXCEPT ![r] = r]
  /\ Goto(r, "record")
  /\ UNCHANGED <<inputs, row, claim, displaced, answer>>

\* resumeRecoverableOnlineBooking: the booking still waits for its payment.
Resume(r) ==
  /\ At(r, "run")
  /\ operation = "online"
  /\ \E q \in Same(r) : made' = [made EXCEPT ![r] = q]
  /\ Goto(r, "record")
  /\ UNCHANGED <<inputs, row, claim, effects, displaced, answer>>

\* An ApiError: the constraint, or any rule of the operation.
Refuse(r) ==
  /\ At(r, "run")
  /\ Goto(r, "refuse")
  /\ UNCHANGED <<inputs, row, claim, made, effects, displaced, answer>>

\* Any other error, before the commit or after it (reading the result back, or
\* recording it, fails), and the errors that are not to be replayed.
Break(r) ==
  /\ pc[r] \in {"run", "record"}
  /\ Goto(r, "drop")
  /\ UNCHANGED <<inputs, row, claim, made, effects, displaced, answer>>

-----------------------------------------------------------------------------
(* Recording the outcome, by the row's id alone.                           *)

Succeeded(r) == [row EXCEPT !.status = "succeeded", !.result = made[r]]

\* An update that finds no row throws, and is caught as an unknown error.
RecordSuccess(r) ==
  /\ At(r, "record")
  /\ IF Holds(r)
     THEN row' = Succeeded(r) /\ Return(r, "ok", made[r])
     ELSE Goto(r, "drop") /\ UNCHANGED <<row, answer>>
  /\ UNCHANGED <<inputs, claim, made, effects, displaced>>

\* The same update of the catch is caught by none, and then writes nothing.
RecordFailure(r) ==
  /\ At(r, "refuse")
  /\ \/ Holds(r) /\ row' = [row EXCEPT !.status = "failed_final"]
        /\ Return(r, "failed", NoRequest)
     \/ UNCHANGED row /\ Return(r, "error", NoRequest)
  /\ UNCHANGED <<inputs, claim, made, effects, displaced>>

\* The claim is dropped, so that the same key may be used again; the delete may
\* fail too, and its error is ignored.
DropClaim(r) ==
  /\ At(r, "drop")
  /\ \/ row' = IF Holds(r) THEN NoRow ELSE row
     \/ UNCHANGED row
  /\ Return(r, "error", NoRequest)
  /\ UNCHANGED <<inputs, claim, made, effects, displaced>>

-----------------------------------------------------------------------------

\* The process stops.
Crash(r) ==
  /\ pc[r] \in Working
  /\ Goto(r, "dead")
  /\ UNCHANGED <<inputs, row, claim, made, effects, displaced, answer>>

\* A minute passes, whether the request that holds the row is dead or slow.
MinutePasses ==
  /\ row.status = "processing" /\ ~row.stale
  /\ row' = [row EXCEPT !.stale = TRUE]
  /\ UNCHANGED <<inputs, pc, claim, made, effects, displaced, answer>>

Init ==
  /\ operation \in Operations
  /\ payload \in [Requests -> Payloads]
  /\ row = NoRow
  /\ pc = [r \in Requests |-> "new"]
  /\ claim = [r \in Requests |-> NoRequest]
  /\ made = [r \in Requests |-> NoRequest]
  /\ effects = {} /\ displaced = {}
  /\ answer = [r \in Requests |-> [kind |-> "none", of |-> NoRequest]]

Next ==
  \/ \E r \in Requests :
       \/ Claim(r) \/ LookUp(r) \/ TakeOver(r)
       \/ Execute(r) \/ Resume(r) \/ Refuse(r) \/ Break(r)
       \/ RecordSuccess(r) \/ RecordFailure(r) \/ DropClaim(r)
       \/ Crash(r)
  \/ MinutePasses

Spec == Init /\ [][Next]_vars

-----------------------------------------------------------------------------
(* Properties.                                                             *)

\* The variables have their types, and a recorded success has a result.
TypeOK ==
  /\ operation \in Operations /\ payload \in [Requests -> Payloads]
  /\ row \in [id: Requests \cup {NoRequest},
              status: {"none", "processing", "succeeded", "failed_final"},
              fingerprint: Payloads \cup {"none"},
              result: Requests \cup {NoRequest}, stale: BOOLEAN]
  /\ row.status = "succeeded" => row.result # NoRequest
  /\ pc \in [Requests -> Working \cup {"new", "lookup", "takeover", "done", "dead"}]
  /\ claim \in [Requests -> Requests \cup {NoRequest}]
  /\ made \in [Requests -> Requests \cup {NoRequest}]
  /\ effects \subseteq Requests /\ displaced \subseteq Requests
  /\ answer \in [Requests -> [kind: {"none", "ok", "failed", "reused", "in_progress", "error"},
                              of: Requests \cup {NoRequest}]]

\* A request that is answered with a result gets the result of an operation that
\* was committed, and for the payload it carried itself.
ReplayIsTrue ==
  \A r \in Requests :
    answer[r].kind = "ok" =>
      /\ answer[r].of \in effects
      /\ payload[answer[r].of] = payload[r]

\* The operation committed and its request did not get to say so.
Forgotten(r) ==
  r \in effects /\ (pc[r] \in {"dead", "drop"} \/ answer[r].kind = "error")

\* The operation is executed twice only after a slow request was taken over, or
\* one that had committed failed before its success was recorded.
OnceUnlessLost ==
  \A q, r \in effects :
    q = r \/ displaced # {} \/ Forgotten(q) \/ Forgotten(r)

\* A recorded outcome stays, unless a request still at work was taken over: such
\* a one writes the row by its id whatever has been recorded since.
OutcomeStays ==
  [][row.status \in {"succeeded", "failed_final"} /\ displaced = {} => row' = row]_vars

\* A live request was taken over, or one that had committed was forgotten.
Lost == displaced # {} \/ \E r \in Requests : Forgotten(r)

\* The operations that were done, and that nothing is to be done.
Chosen == effects \cup {f \in {NoRequest} : row.status = "failed_final"}

\* The key keeps its promise: one outcome, told to everybody who repeats the
\* request, unless one of the two losses happens (IdempotencyService.execute).
Outcome == INSTANCE KeyedOutcome WITH
  Failure <- NoRequest, chosen <- Chosen, lost <- Lost

OutcomeImplemented == Outcome!KeySpec

=============================================================================
