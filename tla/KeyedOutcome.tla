----------------------------- MODULE KeyedOutcome -----------------------------
(***************************************************************************)
(* What a client may rely on when it repeats a request under one key,      *)
(* without rows, claims or takeovers: one outcome is chosen for the key,   *)
(* and every answer that tells an outcome tells the chosen one.  Once work *)
(* that had begun is lost, outcomes may be chosen again, but the answers   *)
(* still tell what was done.                                               *)
(***************************************************************************)
CONSTANTS
  Requests,
  Failure    \* the outcome that nothing was done, for good

VARIABLES
  payload,   \* what each request carries
  chosen,    \* the outcomes: the requests whose operation was done, or Failure
  lost,      \* whether work was lost
  answer     \* what each request was told

promise == <<payload, chosen, lost, answer>>

KeyInit ==
  /\ chosen = {} /\ lost = FALSE
  /\ \A r \in Requests : answer[r].kind = "none"

-----------------------------------------------------------------------------

\* The first outcome, and the only one unless something is lost.
Choose(v) == chosen = {} /\ chosen' = {v} /\ UNCHANGED lost

Lose == lost' = TRUE /\ UNCHANGED chosen

ChooseAgain == lost /\ UNCHANGED lost

Keep == UNCHANGED <<chosen, lost>>

\* An answer is given once.  A result was done for the payload it is told to; a
\* failure was chosen.  What is neither tells nothing.
Tells(r, a) ==
  /\ a.kind = "ok" => a.of \in Requests \cap chosen' /\ payload[a.of] = payload[r]
  /\ a.kind = "failed" => Failure \in chosen'

Reply(r) ==
  /\ answer[r].kind = "none"
  /\ \A q \in Requests \ {r} : answer'[q] = answer[q]
  /\ Tells(r, answer'[r])

KeyNext ==
  /\ (\E v \in Requests \cup {Failure} : Choose(v)) \/ Lose \/ ChooseAgain \/ Keep
  /\ UNCHANGED answer \/ \E r \in Requests : Reply(r)
  /\ UNCHANGED payload

KeySpec == KeyInit /\ [][KeyNext]_promise

=============================================================================
