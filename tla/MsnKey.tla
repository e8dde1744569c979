------------------------------- MODULE MsnKey -------------------------------
(***************************************************************************)
(* The MSN extractor and the API key it shares with every other job of the *)
(* worker process.  A fetch that the API does not answer with 200 tries    *)
(* one refresh: under a lock, and at most one per cooldown, a browser      *)
(* opens an MSN page and takes the key the page sends.  The key can change *)
(* at any moment.                                                          *)
(*                                                                         *)
(* A job is one extract() here; how long its steps take, and what ends it  *)
(* early, is in CandidateJobs.                                             *)
(***************************************************************************)
EXTENDS Jobs

CONSTANTS
  Key,        \* API keys
  Seed,       \* _KEY_SEED
  Cooldown    \* _REFRESH_COOLDOWN_SECONDS, in ticks

ASSUME KeyAssumption == Seed \in Key
ASSUME CooldownAssumption == Cooldown \in Nat

VARIABLES
  site,       \* the key that MSN accepts, and its pages send
  cached,     \* _cached_key
  lock,       \* the job that holds _key_lock, or NoJob
  cooling,    \* what is left of the cooldown; 0 also when never refreshed
  quiet,      \* ticks since a sniff began, up to Cooldown (not in the code)
  step,       \* step[j]: where extract() stands
  used        \* used[j]: the key of its last request; while it sniffs, the
              \* key that was valid when the page was opened

keyVars == <<site, cached, lock, cooling, quiet, step, used>>

(* "text" and "none": extract() is over, with an article or without.       *)
KeyStep == {"idle", "fetch", "wait", "sniff", "refetch", "text", "none"}

KeyInit == /\ site \in Key
           /\ cached = Seed /\ lock = NoJob /\ cooling = 0 /\ quiet = Cooldown
           /\ step = [j \in Job |-> "idle"]
           /\ used = [j \in Job |-> Seed]

StepTo(j, s) == step' = [step EXCEPT ![j] = s]

Fetch(j) ==
  /\ step[j] = "idle"
  /\ StepTo(j, "fetch") /\ used' = [used EXCEPT ![j] = cached]
  /\ UNCHANGED <<site, cached, lock, cooling, quiet>>

(* A 200 answer with a body, to either request. *)
Fetched(j) ==
  /\ step[j] \in {"fetch", "refetch"} /\ used[j] = site
  /\ StepTo(j, "text")
  /\ UNCHANGED <<site, cached, lock, cooling, quiet, used>>

(* No answer, or a 200 without a body; or the second request is refused.   *)
Missed(j) ==
  /\ step[j] \in {"fetch", "refetch"}
  /\ StepTo(j, "none")
  /\ UNCHANGED <<site, cached, lock, cooling, quiet, used>>

(* Any other status, be it because of the key or not. *)
Refused(j) ==
  /\ step[j] = "fetch"
  /\ StepTo(j, "wait")
  /\ UNCHANGED <<site, cached, lock, cooling, quiet, used>>

(* fault: every caller starts the cooldown anew *)
DeclinedAnew(j) ==
  /\ step[j] = "wait" /\ lock = NoJob /\ cooling > 0
  /\ StepTo(j, "none") /\ cooling' = Cooldown
  /\ UNCHANGED <<site, cached, lock, quiet, used>>

(* The caller has the lock, and gives it back at once.  It gets no key,    *)
(* also if another caller has just found one.                              *)
Declined(j) ==
  /\ step[j] = "wait" /\ lock = NoJob /\ cooling > 0
  /\ StepTo(j, "none")
  /\ UNCHANGED <<site, cached, lock, cooling, quiet, used>>

(* fault: the cooldown begins with a key that was found, not with a try *)
SniffUnarmed(j) ==
  /\ step[j] = "wait" /\ lock = NoJob /\ cooling = 0
  /\ lock' = j /\ quiet' = 0
  /\ StepTo(j, "sniff") /\ used' = [used EXCEPT ![j] = site]
  /\ UNCHANGED <<site, cached, cooling>>

Sniff(j) ==
  /\ step[j] = "wait" /\ lock = NoJob /\ cooling = 0
  /\ lock' = j /\ cooling' = Cooldown /\ quiet' = 0
  /\ StepTo(j, "sniff") /\ used' = [used EXCEPT ![j] = site]
  /\ UNCHANGED <<site, cached>>

Sniffed(j) ==
  /\ step[j] = "sniff"
  /\ \E key \in {used[j], site} : cached' = key /\ used' = [used EXCEPT ![j] = key]
  /\ lock' = NoJob /\ StepTo(j, "refetch")
  /\ UNCHANGED <<site, cooling, quiet>>

(* The page does not load, or sends no key. *)
SniffFailed(j) ==
  /\ step[j] = "sniff"
  /\ lock' = NoJob /\ StepTo(j, "none")
  /\ UNCHANGED <<site, cached, cooling, quiet, used>>

(* The job is cancelled: the lock is released, the cooldown goes on.       *)
Leave(j) ==
  /\ step' = [step EXCEPT ![j] = "idle"]
  /\ lock' = IF lock = j THEN NoJob ELSE lock
  /\ used' = [used EXCEPT ![j] = Seed]
  /\ UNCHANGED <<site, cached, cooling, quiet>>

(* The worker process starts again: its memory is as it was at the start. *)
Restart ==
  /\ cached' = Seed /\ lock' = NoJob /\ cooling' = 0 /\ quiet' = Cooldown
  /\ step' = [j \in Job |-> "idle"] /\ used' = [j \in Job |-> Seed]
  /\ UNCHANGED site

Rotate == /\ \E key \in Key \ {site} : site' = key
          /\ UNCHANGED <<cached, lock, cooling, quiet, step, used>>

Passes == /\ cooling' = IF cooling > 0 THEN cooling - 1 ELSE 0
          /\ quiet' = IF quiet < Cooldown THEN quiet + 1 ELSE quiet
          /\ UNCHANGED <<site, cached, lock, step, used>>
=============================================================================
