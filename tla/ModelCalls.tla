----------------------------- MODULE ModelCalls -----------------------------
(***************************************************************************)
(* A bounded number of posts to a model provider: _post_with_retries of    *)
(* agents/quality_oracle/app.py and _post_gemini of                        *)
(* agents/test_generation/app.py, which are the same loop.  An endpoint    *)
(* that is hosted by the user is posted to once (MaxAttempts = 1) by the   *)
(* generation agent.                                                       *)
(*                                                                         *)
(* Each caller has one call at a time.  There is no clock: the timeouts of *)
(* the clients bound each operation of a connection and not a post, so a   *)
(* post may take any time, or never end.                                   *)
(***************************************************************************)
EXTENDS Integers

CONSTANTS
  Callers,
  MaxAttempts    \* MAX_ATTEMPTS, GEMINI_MAX_ATTEMPTS

ASSUME CallsAssumption == MaxAttempts \in Nat

VARIABLES
  call,      \* [Callers -> CallStates]
  attempt,   \* [Callers -> 0..MaxAttempts]: attempts that were made before
  status     \* [Callers -> Statuses]: of the last response

callVars == <<call, attempt, status>>

CallStates == {"idle", "posting", "pausing", "answered", "raised"}

\* 2xx; 429, 500, 502, 503, 504; any other.
Statuses == {"none", "ok", "transient", "refused"}

CallInit ==
  /\ call = [c \in Callers |-> "idle"]
  /\ attempt = [c \in Callers |-> 0]
  /\ status = [c \in Callers |-> "none"]

CallGoto(c, state) == call' = [call EXCEPT ![c] = state]

\* Without attempts, the loop falls through to its RuntimeError.
StartCall(c) ==
  /\ call[c] \in {"idle", "answered", "raised"}
  /\ CallGoto(c, IF MaxAttempts = 0 THEN "raised" ELSE "posting")
  /\ attempt' = [attempt EXCEPT ![c] = 0]
  /\ status' = [status EXCEPT ![c] = "none"]

Post(c) ==
  /\ call[c] = "posting"
  /\ \E s \in Statuses \ {"none"} :
       /\ status' = [status EXCEPT ![c] = s]
       /\ CallGoto(c, IF s = "transient" /\ attempt[c] + 1 < MaxAttempts
                      THEN "pausing" ELSE "answered")
  /\ UNCHANGED attempt

\* No connection, or an operation that timed out: not an answer that is retried.
PostRaises(c) ==
  /\ call[c] = "posting"
  /\ CallGoto(c, "raised")
  /\ UNCHANGED <<attempt, status>>

\* Mutant: a provider that asks to wait is not counted as an attempt.
BugWaitsForever(c) ==
  /\ call[c] = "pausing"
  /\ CallGoto(c, "posting")
  /\ UNCHANGED <<attempt, status>>

\* The pause: Retry-After, or 2^attempt, at most ten seconds.
Pause(c) ==
  /\ call[c] = "pausing"
  /\ attempt' = [attempt EXCEPT ![c] = @ + 1]
  /\ CallGoto(c, "posting")
  /\ UNCHANGED status

CallStep(c) == Post(c) \/ PostRaises(c) \/ Pause(c)

-----------------------------------------------------------------------------

CallsTypeOK ==
  /\ call \in [Callers -> CallStates]
  /\ attempt \in [Callers -> 0..MaxAttempts]
  /\ status \in [Callers -> Statuses]

\* The posts and pauses that a call may still make.
CallLeft(c) ==
  CASE call[c] = "posting" -> 2 * (MaxAttempts - attempt[c])
    [] call[c] = "pausing" -> 2 * (MaxAttempts - attempt[c]) - 1
    [] OTHER -> 0

\* A step of a call uses up one of them.
CallForward(c) == CallLeft(c)' >= 0 /\ CallLeft(c)' < CallLeft(c)

=============================================================================
