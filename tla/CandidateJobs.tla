---------------------------- MODULE CandidateJobs ---------------------------
(***************************************************************************)
(* process_candidate jobs of one worker process against the clock.  Those  *)
(* with an MSN article share its key (MsnKey); each makes one LLM call     *)
(* (LlmCall); and arq ends a job that runs longer than job_timeout.  What  *)
(* a job stores is the subject of Batching, and its way into the queue and *)
(* out of it of Abort.  A member of Job is one of the max_jobs slots here, *)
(* which takes one job after the other.                                    *)
(*                                                                         *)
(* Time is counted in ticks.  What has a timeout ends within it; nothing   *)
(* that can happen at once waits for a tick.                               *)
(*                                                                         *)
(* An operator marked "fault:" is the code with one plausible mistake in   *)
(* it.  No specification uses one; PROJECT.json pairs it with the operator *)
(* after it and the property that catches the mistake.                     *)
(***************************************************************************)
EXTENDS MsnKey, LlmCall

CONSTANTS
  FetchTime,        \* longest request to the MSN API
  SniffTime,        \* longest refresh of its key
  BrowserTime,      \* longest scrape of a page with the browser
  RequestTimeout,   \* Settings.llm_request_timeout_seconds
  Headroom,         \* what job_timeout adds to it
  MaxInterrupts     \* bound on crashes and cancelled jobs

Times == {FetchTime, SniffTime, BrowserTime, RequestTimeout, Headroom}

ASSUME TimesAssumption == Times \subseteq Nat
(* settings.py: the headroom is for scrape and embed. *)
ASSUME HeadroomAssumption == 2 * FetchTime + SniffTime + BrowserTime <= Headroom
(* 24 seconds of sniffing against 300 of cooldown. *)
ASSUME SniffAssumption == SniffTime < Cooldown
ASSUME BoundAssumption == MaxInterrupts \in Nat

VARIABLES
  job,         \* job[j]: where the job in slot j stands
  clock,       \* clock[j]: ticks since it started
  left,        \* left[j]: ticks in which its present request is over
  interrupts   \* crashes and cancelled jobs so far

vars == <<keyVars, callVars, job, clock, left, interrupts>>

BareTimeout == RequestTimeout  \* fault: no headroom
JobTimeout == RequestTimeout + Headroom

Running == {j \in Job : job[j] # "absent"}

Init == /\ KeyInit /\ CallInit
        /\ job = [j \in Job |-> "absent"] /\ interrupts = 0
        /\ clock = [j \in Job |-> 0] /\ left = [j \in Job |-> 0]

Goto(j, state) == job' = [job EXCEPT ![j] = state]
Within(j, time) == left' = [left EXCEPT ![j] = time]

-----------------------------------------------------------------------------
(* app/worker/tasks.py: process_candidate, up to its transaction *)

(* The URL is that of an MSN article, or not. *)
BeginMsn(j) ==
  /\ job[j] = "absent"
  /\ Goto(j, "msn") /\ Fetch(j) /\ Within(j, FetchTime)
  /\ UNCHANGED <<callVars, clock, interrupts>>

BeginBrowser(j) ==
  /\ job[j] = "absent"
  /\ Goto(j, "browser") /\ Within(j, BrowserTime)
  /\ UNCHANGED <<keyVars, callVars, clock, interrupts>>

Begin(j) == BeginMsn(j) \/ BeginBrowser(j)

(* A step of extract(), with the time that what it starts may take.        *)
Extract(j) ==
  /\ job[j] = "msn"
  /\ \/ (Fetched(j) \/ Missed(j) \/ Refused(j) \/ Declined(j) \/ SniffFailed(j)) /\ Within(j, 0)
     \/ Sniff(j) /\ Within(j, SniffTime)
     \/ Sniffed(j) /\ Within(j, FetchTime)
  /\ UNCHANGED <<callVars, job, clock, interrupts>>

(* scrape_urls falls through to the browser when the extractor has nothing. *)
FallThrough(j) ==
  /\ job[j] = "msn" /\ step[j] = "none"
  /\ Goto(j, "browser") /\ StepTo(j, "idle") /\ Within(j, BrowserTime)
  /\ UNCHANGED <<site, cached, lock, cooling, quiet, used>>
  /\ UNCHANGED <<callVars, clock, interrupts>>

(* The page has a text: the first request to the LLM. *)
Scraped(j) ==
  /\ job[j] = "browser" \/ (job[j] = "msn" /\ step[j] = "text")
  /\ Goto(j, "llm") /\ StepTo(j, "idle") /\ Post(j) /\ Within(j, RequestTimeout)
  /\ UNCHANGED <<site, cached, lock, cooling, quiet, used, clock, interrupts>>

ScrapeFailed(j) ==
  /\ job[j] = "browser" /\ Goto(j, "ending") /\ Within(j, 0)
  /\ UNCHANGED <<keyVars, callVars, clock, interrupts>>

(* A step of generate_json.  It may wait as long as the server asks. *)
Generate(j) ==
  /\ job[j] = "llm"
  /\ \/ (Answered(j) \/ Raised(j)) /\ Within(j, 0)
     \/ Busy(j) /\ \E d \in RetryDelays(j) : Within(j, IF attempt[j] < MaxRetries THEN d ELSE 0)
     \/ Repost(j) /\ left[j] = 0 /\ Within(j, RequestTimeout)
  /\ UNCHANGED <<keyVars, job, clock, interrupts>>

(* What follows the call, whatever it gave: embedding and transaction, or  *)
(* the resolution as an error.                                             *)
Extracted(j) ==
  /\ job[j] = "llm" /\ call[j] \in {"json", "error"}
  /\ Goto(j, "ending")
  /\ UNCHANGED <<keyVars, callVars, clock, left, interrupts>>

(* The job is over, or was ended.  It leaves no trace in the process but   *)
(* the key and its cooldown.                                               *)
End(j) == /\ Goto(j, "absent") /\ Leave(j) /\ HangUp(j)
          /\ clock' = [clock EXCEPT ![j] = 0] /\ Within(j, 0)

(* No job is done in no time. *)
Finish(j) == /\ job[j] = "ending" /\ clock[j] > 0 /\ End(j)
             /\ UNCHANGED interrupts

TimeOut(j) == j \in Running /\ clock[j] = JobTimeout /\ End(j) /\ UNCHANGED interrupts

-----------------------------------------------------------------------------
(* Time, the site, and failures *)

(* What a job in this state does next, it does at once. *)
Urgent(j) == \/ job[j] = "msn" /\ step[j] \in {"text", "none"}
             \/ job[j] = "msn" /\ step[j] = "wait" /\ lock = NoJob
             \/ job[j] = "llm" /\ call[j] \in {"json", "error"}

(* It waits for an answer, or for the end of a pause. *)
Timed(j) == \/ job[j] = "msn" /\ step[j] # "wait"
            \/ job[j] = "browser" \/ job[j] = "llm"

Tick ==
  /\ \A j \in Running : /\ clock[j] < JobTimeout /\ ~Urgent(j)
                        /\ Timed(j) => left[j] > 0
  /\ clock' = [j \in Job |-> IF j \in Running THEN clock[j] + 1 ELSE 0]
  /\ left' = [j \in Job |-> IF left[j] > 0 THEN left[j] - 1 ELSE 0]
  /\ Passes
  /\ UNCHANGED <<callVars, job, interrupts>>

RotateKey == Rotate /\ UNCHANGED <<callVars, job, clock, left, interrupts>>

Interrupt == interrupts < MaxInterrupts /\ interrupts' = interrupts + 1

(* The market is paused, and arq cancels the job. *)
Cancel(j) == Interrupt /\ j \in Running /\ End(j)

(* The worker process dies with all it remembers. *)
WorkerCrash ==
  /\ Interrupt
  /\ Restart
  /\ call' = [j \in Job |-> "idle"] /\ attempt' = [j \in Job |-> 0]
  /\ job' = [j \in Job |-> "absent"]
  /\ clock' = [j \in Job |-> 0] /\ left' = [j \in Job |-> 0]

-----------------------------------------------------------------------------
Work(j) == \/ Extract(j) \/ FallThrough(j) \/ Scraped(j) \/ ScrapeFailed(j)
           \/ Generate(j) \/ Extracted(j) \/ Finish(j)

Next == \/ \E j \in Job : Begin(j) \/ Work(j) \/ TimeOut(j) \/ Cancel(j)
        \/ Tick \/ RotateKey \/ WorkerCrash

Spec == Init /\ [][Next]_vars

(* Time passes, and a coroutine that can go on does: what it waits for has *)
(* a timeout.                                                              *)
Fairness == WF_vars(Tick) /\ \A j \in Job : WF_vars(Work(j)) /\ WF_vars(TimeOut(j))

FairSpec == Spec /\ Fairness

-----------------------------------------------------------------------------
(* Properties *)

(* The process and its jobs have the shape they should; an LLM call makes  *)
(* no more than MaxRetries + 1 requests, however often the server is busy. *)
TypeOK ==
  /\ site \in Key /\ cached \in Key /\ lock \in Job \cup {NoJob}
  /\ cooling \in 0 .. Cooldown /\ quiet \in 0 .. Cooldown
  /\ step \in [Job -> KeyStep] /\ used \in [Job -> Key]
  /\ call \in [Job -> CallStep] /\ attempt \in [Job -> 0 .. MaxRetries]
  /\ job \in [Job -> {"absent", "msn", "browser", "llm", "ending"}]
  /\ clock \in [Job -> 0 .. JobTimeout] /\ left \in [Job -> Nat]
  /\ interrupts \in Nat

(* settings.py:79-82 "so the arq job doesn't get killed *before* the LLM   *)
(* client's own timeout has a chance to fire": whatever the job waited for *)
(* before, the lock of the key included, its first request to the LLM has  *)
(* all of its timeout.  Only retries can be cut off.                       *)
FirstRequestInTime == \A j \in Job :
  job[j] = "llm" /\ call[j] = "request" /\ attempt[j] = 0
    => clock[j] + left[j] <= JobTimeout

(* msn.py:69 "Don't re-sniff more than this often": two sniffs of a worker *)
(* process begin a cooldown apart, however many jobs are refused at once   *)
(* and whatever became of the first.                                       *)
SniffsSpaced ==
  [][\A j \in Job : step[j] # "sniff" /\ step'[j] = "sniff" => quiet = Cooldown]_vars

(* msn.py:28-29 "a rotation self-heals": if the key is changed no more,    *)
(* sniffs do not fail and nothing ends a job in its middle, the cache      *)
(* comes to hold the right key, as long as there are refusals.             *)
SelfHeals ==
  /\ <>[][~RotateKey /\ ~WorkerCrash /\ \A j \in Job : ~SniffFailed(j) /\ ~Cancel(j)]_vars
  /\ []<><<\E j \in Job : Refused(j)>>_vars
  => <>[](cached = site)
=============================================================================
