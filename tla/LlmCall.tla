------------------------------ MODULE LlmCall -------------------------------
(***************************************************************************)
(* LLMClient.generate_json: a request to the LLM server is repeated a few  *)
(* times if the server says it is busy, after the pause the server asks    *)
(* for or a growing one.  A request that times out is not repeated.        *)
(***************************************************************************)
EXTENDS Jobs

CONSTANTS
  MaxRetries,   \* _MAX_RETRIES
  RetryAfters   \* pauses that a server may ask for, in ticks

ASSUME RetryAssumption == MaxRetries \in Nat /\ RetryAfters \subseteq Nat
ASSUME BackoffAssumption == \A n \in 0 .. MaxRetries : 2 ^ n \in Nat

VARIABLES
  call,       \* call[j]: where the call stands
  attempt     \* attempt[j]: the loop variable of _post_with_retry

callVars == <<call, attempt>>

(* "json" and "error": generate_json returns, or raises. *)
CallStep == {"idle", "request", "pause", "json", "error"}

CallInit == /\ call = [j \in Job |-> "idle"]
            /\ attempt = [j \in Job |-> 0]

CallTo(j, s) == call' = [call EXCEPT ![j] = s]

(* _retry_delay: 2**attempt and a random fraction, rounded up to ticks.    *)
RetryDelays(j) == RetryAfters \cup {2 ^ attempt[j], 2 ^ attempt[j] + 1}

Post(j) == /\ call[j] = "idle"
           /\ CallTo(j, "request") /\ attempt' = [attempt EXCEPT ![j] = 0]

Answered(j) == call[j] = "request" /\ CallTo(j, "json") /\ UNCHANGED attempt

(* A status that is not retried, an answer that is not the JSON asked for, *)
(* or a timeout.                                                           *)
Raised(j) == call[j] = "request" /\ CallTo(j, "error") /\ UNCHANGED attempt

(* fault: the last attempt is retried as well *)
BusyOnceMore(j) == /\ call[j] = "request"
                   /\ CallTo(j, IF attempt[j] <= MaxRetries THEN "pause" ELSE "error")
                   /\ UNCHANGED attempt

Busy(j) == /\ call[j] = "request"
           /\ CallTo(j, IF attempt[j] < MaxRetries THEN "pause" ELSE "error")
           /\ UNCHANGED attempt

Repost(j) == /\ call[j] = "pause"
             /\ CallTo(j, "request") /\ attempt' = [attempt EXCEPT ![j] = @ + 1]

HangUp(j) == /\ call' = [call EXCEPT ![j] = "idle"]
             /\ attempt' = [attempt EXCEPT ![j] = 0]
=============================================================================
