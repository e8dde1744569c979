------------------------- MODULE CandidateJobsProofs ------------------------
(***************************************************************************)
(* Proofs about CandidateJobs, for every number of slots and for all times *)
(* that the assumptions allow.                                             *)
(***************************************************************************)
EXTENDS CandidateJobs, TLAPS

(* When the part of extract() that j is in is over, at the latest.  A job  *)
(* that has waited for the lock finds the cooldown running, and does not   *)
(* sniff itself.                                                           *)
ExtractInTime(j) ==
  /\ step[j] = "fetch" => clock[j] + left[j] <= FetchTime
  /\ step[j] = "wait" => /\ clock[j] <= FetchTime + SniffTime
                         /\ clock[j] <= FetchTime \/ cooling > 0
                         /\ lock # NoJob => clock[j] + left[lock] <= FetchTime + SniffTime
  /\ step[j] = "sniff" => clock[j] + left[j] <= FetchTime + SniffTime
  /\ step[j] \in {"refetch", "text", "none"} =>
       clock[j] + left[j] <= 2 * FetchTime + SniffTime

ScrapeInTime(j) == job[j] = "browser" => clock[j] + left[j] <= Headroom

RequestInTime(j) == job[j] = "llm" /\ call[j] = "request" /\ attempt[j] = 0
                      => clock[j] + left[j] <= JobTimeout

Started(j) == /\ step[j] # "idle" <=> job[j] = "msn"
              /\ job[j] = "absent" => clock[j] = 0
              /\ call[j] = "pause" => attempt[j] < MaxRetries

InTime == \A j \in Job : /\ Started(j) /\ ExtractInTime(j)
                         /\ ScrapeInTime(j) /\ RequestInTime(j)

(* The lock is held by a job that sniffs, and the cooldown outlasts it. *)
Held == lock # NoJob => /\ lock \in Job /\ step[lock] = "sniff"
                        /\ left[lock] <= SniffTime /\ left[lock] < cooling

IInv == TypeOK /\ InTime /\ Held

(* Two facts about the constants. *)
LEMMA Constants ==
  /\ FetchTime \in Nat /\ SniffTime \in Nat /\ BrowserTime \in Nat
  /\ RequestTimeout \in Nat /\ Headroom \in Nat /\ JobTimeout \in Nat
  /\ JobTimeout = RequestTimeout + Headroom
  /\ 2 * FetchTime + SniffTime + BrowserTime <= Headroom
  /\ SniffTime < Cooldown /\ Cooldown \in Nat
BY TimesAssumption, HeadroomAssumption, SniffAssumption, CooldownAssumption
   DEF Times, JobTimeout

(* What the server's busy answer may make the client wait is a time. *)
LEMMA DelaysAreTimes ==
  ASSUME TypeOK, NEW j \in Job, NEW d \in RetryDelays(j) PROVE d \in Nat
<1> DEFINE power == 2 ^ attempt[j]
<1>1. power \in Nat
  BY BackoffAssumption DEF TypeOK
<1>2. d \in RetryAfters \cup {power, power + 1}
  BY DEF RetryDelays
<1> HIDE DEF power
<1> QED
  BY <1>1, <1>2, RetryAssumption

(* What a step of one job leaves in time: the others, as long as it does   *)
(* not take the lock and the cooldown does not end.                        *)
LEMMA OthersInTime ==
  ASSUME IInv, NEW j \in Job, NEW i \in Job, i # j,
         job'[i] = job[i], step'[i] = step[i], clock'[i] = clock[i], left'[i] = left[i],
         call'[i] = call[i], attempt'[i] = attempt[i], cooling' = cooling,
         lock' = NoJob \/ (lock' = lock /\ left'[lock] = left[lock])
  PROVE  (Started(i) /\ ExtractInTime(i) /\ ScrapeInTime(i) /\ RequestInTime(i))'
BY DEF IInv, InTime, Started, ExtractInTime, ScrapeInTime, RequestInTime

-----------------------------------------------------------------------------
(* No job has started. *)
LEMMA InitIInv == Init => IInv
<1> SUFFICES ASSUME Init PROVE IInv
  OBVIOUS
<1>1. TypeOK
  BY Constants, KeyAssumption, RetryAssumption, BoundAssumption
     DEF Init, KeyInit, CallInit, TypeOK, KeyStep, CallStep
<1>2. InTime
  BY DEF Init, KeyInit, CallInit, InTime, Started, ExtractInTime, ScrapeInTime, RequestInTime
<1>3. Held
  BY DEF Init, KeyInit, Held
<1> QED
  BY <1>1, <1>2, <1>3 DEF IInv

(* A job that begins is in time: its clock stands at 0. *)
LEMMA BeginStep ==
  ASSUME IInv, NEW j \in Job, Begin(j) PROVE IInv'
<1> USE Constants DEF IInv
<1>1. CASE BeginMsn(j)
  <2>1. /\ job[j] = "absent" /\ clock[j] = 0 /\ step[j] = "idle"
        /\ job' = [job EXCEPT ![j] = "msn"]
        /\ step' = [step EXCEPT ![j] = "fetch"]
        /\ left' = [left EXCEPT ![j] = FetchTime]
        /\ used' = [used EXCEPT ![j] = cached]
        /\ UNCHANGED <<site, cached, lock, cooling, quiet, call, attempt, clock, interrupts>>
    BY <1>1 DEF BeginMsn, Fetch, InTime, Started, Goto, StepTo, CallTo, Within, keyVars, callVars
  <2>2. TypeOK'
    BY <2>1 DEF TypeOK, KeyStep, CallStep
  <2>3. (Started(j) /\ ExtractInTime(j) /\ ScrapeInTime(j) /\ RequestInTime(j))'
    BY <2>1 DEF TypeOK, InTime, Held, Started, ExtractInTime, ScrapeInTime, RequestInTime
  <2>4. ASSUME NEW i \in Job, i # j
        PROVE  (Started(i) /\ ExtractInTime(i) /\ ScrapeInTime(i) /\ RequestInTime(i))'
    BY <2>1, <2>4, OthersInTime, JobAssumption DEF TypeOK, Held
  <2>5. Held'
    BY <2>1, JobAssumption DEF Held, TypeOK
  <2> QED
    BY <2>2, <2>3, <2>4, <2>5 DEF InTime
<1>2. CASE BeginBrowser(j)
  <2>1. /\ job[j] = "absent" /\ clock[j] = 0 /\ step[j] = "idle"
        /\ job' = [job EXCEPT ![j] = "browser"]
        /\ left' = [left EXCEPT ![j] = BrowserTime]
        /\ UNCHANGED <<site, cached, lock, cooling, quiet, step, used, call, attempt, clock, interrupts>>
    BY <1>2 DEF BeginBrowser, InTime, Started, Goto, StepTo, CallTo, Within, keyVars, callVars
  <2>2. TypeOK'
    BY <2>1 DEF TypeOK, KeyStep, CallStep
  <2>3. (Started(j) /\ ExtractInTime(j) /\ ScrapeInTime(j) /\ RequestInTime(j))'
    BY <2>1 DEF TypeOK, InTime, Held, Started, ExtractInTime, ScrapeInTime, RequestInTime
  <2>4. ASSUME NEW i \in Job, i # j
        PROVE  (Started(i) /\ ExtractInTime(i) /\ ScrapeInTime(i) /\ RequestInTime(i))'
    BY <2>1, <2>4, OthersInTime, JobAssumption DEF TypeOK, Held
  <2>5. Held'
    BY <2>1, JobAssumption DEF Held, TypeOK
  <2> QED
    BY <2>2, <2>3, <2>4, <2>5 DEF InTime
<1> QED
  BY <1>1, <1>2 DEF Begin

(* So is each step of extract(), the wait for the lock included. *)
LEMMA ExtractStep ==
  ASSUME IInv, NEW j \in Job, Extract(j) PROVE IInv'
<1> USE Constants DEF IInv
<1>0. /\ job[j] = "msn" /\ step[j] # "idle"
      /\ UNCHANGED <<call, attempt, job, clock, interrupts>>
  BY DEF Extract, callVars, InTime, Started
<1>1. CASE Fetched(j) /\ Within(j, 0)
  <2>1. /\ job[j] = "msn" /\ step[j] \in {"fetch", "refetch"}
        /\ step' = [step EXCEPT ![j] = "text"]
        /\ left' = [left EXCEPT ![j] = 0]
        /\ UNCHANGED <<site, cached, lock, cooling, quiet, used, call, attempt, job, clock, interrupts>>
    BY <1>1, <1>0 DEF Fetched, StepTo, Within
  <2>2. TypeOK'
    BY <2>1 DEF TypeOK, KeyStep, CallStep
  <2>3. (Started(j) /\ ExtractInTime(j) /\ ScrapeInTime(j) /\ RequestInTime(j))'
    BY <2>1 DEF TypeOK, InTime, Held, Started, ExtractInTime, ScrapeInTime, RequestInTime
  <2>4. ASSUME NEW i \in Job, i # j
        PROVE  (Started(i) /\ ExtractInTime(i) /\ ScrapeInTime(i) /\ RequestInTime(i))'
    BY <2>1, <2>4, OthersInTime, JobAssumption DEF TypeOK, Held
  <2>5. Held'
    BY <2>1, JobAssumption DEF Held, TypeOK
  <2> QED
    BY <2>2, <2>3, <2>4, <2>5 DEF InTime
<1>2. CASE Missed(j) /\ Within(j, 0)
  <2>1. /\ job[j] = "msn" /\ step[j] \in {"fetch", "refetch"}
        /\ step' = [step EXCEPT ![j] = "none"]
        /\ left' = [left EXCEPT ![j] = 0]
        /\ UNCHANGED <<site, cached, lock, cooling, quiet, used, call, attempt, job, clock, interrupts>>
    BY <1>2, <1>0 DEF Missed, StepTo, Within
  <2>2. TypeOK'
    BY <2>1 DEF TypeOK, KeyStep, CallStep
  <2>3. (Started(j) /\ ExtractInTime(j) /\ ScrapeInTime(j) /\ RequestInTime(j))'
    BY <2>1 DEF TypeOK, InTime, Held, Started, ExtractInTime, ScrapeInTime, RequestInTime
  <2>4. ASSUME NEW i \in Job, i # j
        PROVE  (Started(i) /\ ExtractInTime(i) /\ ScrapeInTime(i) /\ RequestInTime(i))'
    BY <2>1, <2>4, OthersInTime, JobAssumption DEF TypeOK, Held
  <2>5. Held'
    BY <2>1, JobAssumption DEF Held, TypeOK
  <2> QED
    BY <2>2, <2>3, <2>4, <2>5 DEF InTime
<1>3. CASE (Refused(j) \/ Declined(j)) /\ Within(j, 0)
  <2>1. /\ job[j] = "msn"
        /\ \/ step[j] = "fetch" /\ step' = [step EXCEPT ![j] = "wait"]
           \/ step[j] = "wait" /\ step' = [step EXCEPT ![j] = "none"]
        /\ left' = [left EXCEPT ![j] = 0]
        /\ UNCHANGED <<site, cached, lock, cooling, quiet, used, call, attempt, job, clock, interrupts>>
    BY <1>3, <1>0 DEF Refused, Declined, StepTo, Within
  <2>2. TypeOK'
    BY <2>1 DEF TypeOK, KeyStep, CallStep
  <2>3. (Started(j) /\ ExtractInTime(j) /\ ScrapeInTime(j) /\ RequestInTime(j))'
    BY <2>1 DEF TypeOK, InTime, Held, Started, ExtractInTime, ScrapeInTime, RequestInTime
  <2>4. ASSUME NEW i \in Job, i # j
        PROVE  (Started(i) /\ ExtractInTime(i) /\ ScrapeInTime(i) /\ RequestInTime(i))'
    BY <2>1, <2>4, OthersInTime, JobAssumption DEF TypeOK, Held
  <2>5. Held'
    BY <2>1, JobAssumption DEF Held, TypeOK
  <2> QED
    BY <2>2, <2>3, <2>4, <2>5 DEF InTime
<1>4. CASE Sniff(j) /\ Within(j, SniffTime)
  <2>1. /\ job[j] = "msn" /\ step[j] = "wait" /\ lock = NoJob /\ cooling = 0
        /\ lock' = j /\ cooling' = Cooldown /\ quiet' = 0
        /\ step' = [step EXCEPT ![j] = "sniff"] /\ used' = [used EXCEPT ![j] = site]
        /\ left' = [left EXCEPT ![j] = SniffTime]
        /\ UNCHANGED <<site, cached, call, attempt, job, clock, interrupts>>
    BY <1>4, <1>0 DEF Sniff, StepTo, Within
  <2>2. TypeOK'
    BY <2>1 DEF TypeOK, KeyStep, CallStep
  <2>3. (Started(j) /\ ExtractInTime(j) /\ ScrapeInTime(j) /\ RequestInTime(j))'
    BY <2>1 DEF TypeOK, InTime, Started, ExtractInTime, ScrapeInTime, RequestInTime
  <2>4. ASSUME NEW i \in Job, i # j
        PROVE  (Started(i) /\ ExtractInTime(i) /\ ScrapeInTime(i) /\ RequestInTime(i))'
    <3>1. step[i] = "wait" => clock[i] <= FetchTime
      BY <2>1 DEF InTime, ExtractInTime, TypeOK
    <3>2. step[i] = "wait" => clock[i] + SniffTime <= FetchTime + SniffTime /\ Cooldown > 0
      BY <3>1 DEF TypeOK
    <3>3. (Started(i) /\ ScrapeInTime(i) /\ RequestInTime(i))'
      BY <2>1, <2>4 DEF TypeOK, InTime, Started, ScrapeInTime, RequestInTime
    <3>4. left'[lock'] = SniffTime /\ clock'[i] = clock[i] /\ step'[i] = step[i] /\ left'[i] = left[i]
      BY <2>1, <2>4 DEF TypeOK
    <3>5. ExtractInTime(i)'
      BY <2>1, <3>1, <3>2, <3>4 DEF InTime, ExtractInTime, TypeOK
    <3> QED
      BY <3>3, <3>5
  <2>5. Held'
    BY <2>1 DEF Held, TypeOK
  <2> QED
    BY <2>2, <2>3, <2>4, <2>5 DEF InTime
<1>5. CASE Sniffed(j) /\ Within(j, FetchTime)
  <2>1. /\ job[j] = "msn" /\ step[j] = "sniff"
        /\ \E key \in {used[j], site} : cached' = key /\ used' = [used EXCEPT ![j] = key]
        /\ lock' = NoJob
        /\ step' = [step EXCEPT ![j] = "refetch"]
        /\ left' = [left EXCEPT ![j] = FetchTime]
        /\ UNCHANGED <<site, cooling, quiet, call, attempt, job, clock, interrupts>>
    BY <1>5, <1>0 DEF Sniffed, StepTo, Within
  <2>2. TypeOK'
    BY <2>1 DEF TypeOK, KeyStep, CallStep
  <2>3. (Started(j) /\ ExtractInTime(j) /\ ScrapeInTime(j) /\ RequestInTime(j))'
    BY <2>1 DEF TypeOK, InTime, Held, Started, ExtractInTime, ScrapeInTime, RequestInTime
  <2>4. ASSUME NEW i \in Job, i # j
        PROVE  (Started(i) /\ ExtractInTime(i) /\ ScrapeInTime(i) /\ RequestInTime(i))'
    BY <2>1, <2>4, OthersInTime, JobAssumption DEF TypeOK, Held
  <2>5. Held'
    BY <2>1, JobAssumption DEF Held, TypeOK
  <2> QED
    BY <2>2, <2>3, <2>4, <2>5 DEF InTime
<1>6. CASE SniffFailed(j) /\ Within(j, 0)
  <2>1. /\ job[j] = "msn" /\ step[j] = "sniff"
        /\ lock' = NoJob
        /\ step' = [step EXCEPT ![j] = "none"]
        /\ left' = [left EXCEPT ![j] = 0]
        /\ UNCHANGED <<site, cached, cooling, quiet, used, call, attempt, job, clock, interrupts>>
    BY <1>6, <1>0 DEF SniffFailed, StepTo, Within
  <2>2. TypeOK'
    BY <2>1 DEF TypeOK, KeyStep, CallStep
  <2>3. (Started(j) /\ ExtractInTime(j) /\ ScrapeInTime(j) /\ RequestInTime(j))'
    BY <2>1 DEF TypeOK, InTime, Held, Started, ExtractInTime, ScrapeInTime, RequestInTime
  <2>4. ASSUME NEW i \in Job, i # j
        PROVE  (Started(i) /\ ExtractInTime(i) /\ ScrapeInTime(i) /\ RequestInTime(i))'
    BY <2>1, <2>4, OthersInTime, JobAssumption DEF TypeOK, Held
  <2>5. Held'
    BY <2>1, JobAssumption DEF Held, TypeOK
  <2> QED
    BY <2>2, <2>3, <2>4, <2>5 DEF InTime
<1> QED
  BY <1>1, <1>2, <1>3, <1>4, <1>5, <1>6 DEF Extract

(* So is the scrape that follows, and what follows the scrape. *)
LEMMA ScrapeStep ==
  ASSUME IInv, NEW j \in Job, FallThrough(j) \/ Scraped(j) \/ ScrapeFailed(j) PROVE IInv'
<1> USE Constants DEF IInv
<1>1. CASE FallThrough(j)
  <2>1. /\ job[j] = "msn" /\ step[j] = "none"
        /\ job' = [job EXCEPT ![j] = "browser"]
        /\ step' = [step EXCEPT ![j] = "idle"]
        /\ left' = [left EXCEPT ![j] = BrowserTime]
        /\ UNCHANGED <<site, cached, lock, cooling, quiet, used, call, attempt, clock, interrupts>>
    BY <1>1 DEF FallThrough, Goto, StepTo, CallTo, Within, keyVars, callVars
  <2>2. TypeOK'
    BY <2>1 DEF TypeOK, KeyStep, CallStep
  <2>3. (Started(j) /\ ExtractInTime(j) /\ ScrapeInTime(j) /\ RequestInTime(j))'
    BY <2>1 DEF TypeOK, InTime, Held, Started, ExtractInTime, ScrapeInTime, RequestInTime
  <2>4. ASSUME NEW i \in Job, i # j
        PROVE  (Started(i) /\ ExtractInTime(i) /\ ScrapeInTime(i) /\ RequestInTime(i))'
    BY <2>1, <2>4, OthersInTime, JobAssumption DEF TypeOK, Held
  <2>5. Held'
    BY <2>1, JobAssumption DEF Held, TypeOK
  <2> QED
    BY <2>2, <2>3, <2>4, <2>5 DEF InTime
<1>2. CASE Scraped(j)
  <2>1. /\ (job[j] = "browser" \/ (job[j] = "msn" /\ step[j] = "text")) /\ step[j] # "sniff"
        /\ job' = [job EXCEPT ![j] = "llm"]
        /\ step' = [step EXCEPT ![j] = "idle"]
        /\ call' = [call EXCEPT ![j] = "request"]
        /\ attempt' = [attempt EXCEPT ![j] = 0]
        /\ left' = [left EXCEPT ![j] = RequestTimeout]
        /\ UNCHANGED <<site, cached, lock, cooling, quiet, used, clock, interrupts>>
    BY <1>2 DEF Scraped, Post, InTime, Started, Goto, StepTo, CallTo, Within, keyVars, callVars
  <2>2. TypeOK'
    BY <2>1, RetryAssumption DEF TypeOK, KeyStep, CallStep
  <2>3. (Started(j) /\ ExtractInTime(j) /\ ScrapeInTime(j) /\ RequestInTime(j))'
    BY <2>1 DEF TypeOK, InTime, Held, Started, ExtractInTime, ScrapeInTime, RequestInTime
  <2>4. ASSUME NEW i \in Job, i # j
        PROVE  (Started(i) /\ ExtractInTime(i) /\ ScrapeInTime(i) /\ RequestInTime(i))'
    BY <2>1, <2>4, OthersInTime, JobAssumption DEF TypeOK, Held
  <2>5. Held'
    BY <2>1, JobAssumption DEF Held, TypeOK
  <2> QED
    BY <2>2, <2>3, <2>4, <2>5 DEF InTime
<1>3. CASE ScrapeFailed(j)
  <2>1. /\ job[j] = "browser" /\ step[j] # "sniff"
        /\ job' = [job EXCEPT ![j] = "ending"]
        /\ left' = [left EXCEPT ![j] = 0]
        /\ UNCHANGED <<site, cached, lock, cooling, quiet, step, used, call, attempt, clock, interrupts>>
    BY <1>3 DEF ScrapeFailed, InTime, Started, Goto, StepTo, CallTo, Within, keyVars, callVars
  <2>2. TypeOK'
    BY <2>1 DEF TypeOK, KeyStep, CallStep
  <2>3. (Started(j) /\ ExtractInTime(j) /\ ScrapeInTime(j) /\ RequestInTime(j))'
    BY <2>1 DEF TypeOK, InTime, Held, Started, ExtractInTime, ScrapeInTime, RequestInTime
  <2>4. ASSUME NEW i \in Job, i # j
        PROVE  (Started(i) /\ ExtractInTime(i) /\ ScrapeInTime(i) /\ RequestInTime(i))'
    BY <2>1, <2>4, OthersInTime, JobAssumption DEF TypeOK, Held
  <2>5. Held'
    BY <2>1, JobAssumption DEF Held, TypeOK
  <2> QED
    BY <2>2, <2>3, <2>4, <2>5 DEF InTime
<1> QED
  BY <1>1, <1>2, <1>3

(* So is the first request of generate_json, and no attempt is made after  *)
(* the last.                                                               *)
LEMMA GenerateStep ==
  ASSUME IInv, NEW j \in Job, Generate(j) PROVE IInv'
<1> USE Constants DEF IInv
<1>0. /\ job[j] = "llm" /\ step[j] = "idle"
      /\ UNCHANGED <<site, cached, lock, cooling, quiet, step, used, job, clock, interrupts>>
  BY DEF Generate, keyVars, TypeOK, InTime, Started, KeyStep
<1>1. CASE (Answered(j) \/ Raised(j)) /\ Within(j, 0)
  <2>1. /\ job[j] = "llm" /\ step[j] = "idle"
        /\ \E s \in {"json", "error"} : call' = [call EXCEPT ![j] = s]
        /\ left' = [left EXCEPT ![j] = 0]
        /\ UNCHANGED <<site, cached, lock, cooling, quiet, step, used, attempt, job, clock, interrupts>>
    BY <1>1, <1>0 DEF Answered, Raised, CallTo, Within
  <2>2. TypeOK'
    BY <2>1 DEF TypeOK, KeyStep, CallStep
  <2>3. (Started(j) /\ ExtractInTime(j) /\ ScrapeInTime(j) /\ RequestInTime(j))'
    BY <2>1 DEF TypeOK, InTime, Held, Started, ExtractInTime, ScrapeInTime, RequestInTime
  <2>4. ASSUME NEW i \in Job, i # j
        PROVE  (Started(i) /\ ExtractInTime(i) /\ ScrapeInTime(i) /\ RequestInTime(i))'
    BY <2>1, <2>4, OthersInTime, JobAssumption DEF TypeOK, Held
  <2>5. Held'
    BY <2>1, JobAssumption DEF Held, TypeOK
  <2> QED
    BY <2>2, <2>3, <2>4, <2>5 DEF InTime
<1>2. CASE Busy(j) /\ \E d \in RetryDelays(j) : Within(j, IF attempt[j] < MaxRetries THEN d ELSE 0)
  <2>1. /\ job[j] = "llm" /\ step[j] = "idle"
        /\ \/ attempt[j] < MaxRetries /\ call' = [call EXCEPT ![j] = "pause"]
           \/ call' = [call EXCEPT ![j] = "error"]
        /\ \E d \in Nat : left' = [left EXCEPT ![j] = d]
        /\ UNCHANGED <<site, cached, lock, cooling, quiet, step, used, attempt, job, clock, interrupts>>
    BY <1>2, <1>0, DelaysAreTimes DEF Busy, CallTo, Within
  <2>2. TypeOK'
    BY <2>1 DEF TypeOK, KeyStep, CallStep
  <2>3. (Started(j) /\ ExtractInTime(j) /\ ScrapeInTime(j) /\ RequestInTime(j))'
    BY <2>1 DEF TypeOK, InTime, Held, Started, ExtractInTime, ScrapeInTime, RequestInTime
  <2>4. ASSUME NEW i \in Job, i # j
        PROVE  (Started(i) /\ ExtractInTime(i) /\ ScrapeInTime(i) /\ RequestInTime(i))'
    BY <2>1, <2>4, OthersInTime, JobAssumption DEF TypeOK, Held
  <2>5. Held'
    BY <2>1, JobAssumption DEF Held, TypeOK
  <2> QED
    BY <2>2, <2>3, <2>4, <2>5 DEF InTime
<1>3. CASE Repost(j) /\ left[j] = 0 /\ Within(j, RequestTimeout)
  <2>1. /\ job[j] = "llm" /\ step[j] = "idle" /\ call[j] = "pause"
        /\ call' = [call EXCEPT ![j] = "request"]
        /\ attempt' = [attempt EXCEPT ![j] = attempt[j] + 1]
        /\ left' = [left EXCEPT ![j] = RequestTimeout]
        /\ UNCHANGED <<site, cached, lock, cooling, quiet, step, used, job, clock, interrupts>>
    BY <1>3, <1>0 DEF Repost, CallTo, Within
  <2>2. TypeOK'
    BY <2>1, RetryAssumption DEF TypeOK, InTime, Started, KeyStep, CallStep
  <2>3. (Started(j) /\ ExtractInTime(j) /\ ScrapeInTime(j) /\ RequestInTime(j))'
    BY <2>1, RetryAssumption DEF TypeOK, InTime, Held, Started, ExtractInTime, ScrapeInTime, RequestInTime
  <2>4. ASSUME NEW i \in Job, i # j
        PROVE  (Started(i) /\ ExtractInTime(i) /\ ScrapeInTime(i) /\ RequestInTime(i))'
    BY <2>1, <2>4, OthersInTime, JobAssumption DEF TypeOK, Held
  <2>5. Held'
    BY <2>1, JobAssumption DEF Held, TypeOK
  <2> QED
    BY <2>2, <2>3, <2>4, <2>5 DEF InTime
<1> QED
  BY <1>1, <1>2, <1>3 DEF Generate

(* After the call, no request is under way. *)
LEMMA ExtractedStep ==
  ASSUME IInv, NEW j \in Job, Extracted(j) PROVE IInv'
<1> USE Constants DEF IInv
<1>1. CASE Extracted(j)
  <2>1. /\ job[j] = "llm" /\ step[j] # "sniff"
        /\ job' = [job EXCEPT ![j] = "ending"]
        /\ UNCHANGED <<site, cached, lock, cooling, quiet, step, used, call, attempt, clock, left, interrupts>>
    BY <1>1 DEF Extracted, InTime, Started, Goto, StepTo, CallTo, Within, keyVars, callVars
  <2>2. TypeOK'
    BY <2>1 DEF TypeOK, KeyStep, CallStep
  <2>3. (Started(j) /\ ExtractInTime(j) /\ ScrapeInTime(j) /\ RequestInTime(j))'
    BY <2>1 DEF TypeOK, InTime, Held, Started, ExtractInTime, ScrapeInTime, RequestInTime
  <2>4. ASSUME NEW i \in Job, i # j
        PROVE  (Started(i) /\ ExtractInTime(i) /\ ScrapeInTime(i) /\ RequestInTime(i))'
    BY <2>1, <2>4, OthersInTime, JobAssumption DEF TypeOK, Held
  <2>5. Held'
    BY <2>1, JobAssumption DEF Held, TypeOK
  <2> QED
    BY <2>2, <2>3, <2>4, <2>5 DEF InTime
<1> QED
  BY <1>1

(* A job that ends gives back the lock. *)
LEMMA EndStep ==
  ASSUME IInv, NEW j \in Job, End(j) /\ interrupts' \in Nat PROVE IInv'
<1> USE Constants DEF IInv
<1>1. CASE End(j) /\ interrupts' \in Nat
  <2>1. /\ step[j] \in KeyStep
        /\ job' = [job EXCEPT ![j] = "absent"]
        /\ step' = [step EXCEPT ![j] = "idle"]
        /\ lock' = IF lock = j THEN NoJob ELSE lock
        /\ used' = [used EXCEPT ![j] = Seed]
        /\ call' = [call EXCEPT ![j] = "idle"]
        /\ attempt' = [attempt EXCEPT ![j] = 0]
        /\ clock' = [clock EXCEPT ![j] = 0]
        /\ left' = [left EXCEPT ![j] = 0]
        /\ interrupts' \in Nat
        /\ UNCHANGED <<site, cached, cooling, quiet>>
    BY <1>1 DEF End, Leave, HangUp, Goto, Within, TypeOK
  <2>2. TypeOK'
    BY <2>1, RetryAssumption, KeyAssumption DEF TypeOK, KeyStep, CallStep
  <2>3. (Started(j) /\ ExtractInTime(j) /\ ScrapeInTime(j) /\ RequestInTime(j))'
    BY <2>1 DEF TypeOK, InTime, Held, Started, ExtractInTime, ScrapeInTime, RequestInTime
  <2>4. ASSUME NEW i \in Job, i # j
        PROVE  (Started(i) /\ ExtractInTime(i) /\ ScrapeInTime(i) /\ RequestInTime(i))'
    BY <2>1, <2>4, OthersInTime, JobAssumption DEF TypeOK, Held
  <2>5. Held'
    BY <2>1, JobAssumption DEF Held, TypeOK
  <2> QED
    BY <2>2, <2>3, <2>4, <2>5 DEF InTime
<1> QED
  BY <1>1

(* Time goes by only as long as all that waits for an answer may wait for  *)
(* it longer, and nothing can be done at once.                             *)
LEMMA TickStep ==
  ASSUME IInv, Tick PROVE IInv'
<1> USE Constants DEF IInv
<1>1. /\ cooling' = (IF cooling > 0 THEN cooling - 1 ELSE 0)
      /\ quiet' = (IF quiet < Cooldown THEN quiet + 1 ELSE quiet)
      /\ left' = [i \in Job |-> IF left[i] > 0 THEN left[i] - 1 ELSE 0]
      /\ clock' = [i \in Job |-> IF i \in Running THEN clock[i] + 1 ELSE 0]
      /\ UNCHANGED <<site, cached, lock, step, used, call, attempt, job, interrupts>>
  BY DEF Tick, Passes, callVars
<1>2. ASSUME NEW i \in Job, job[i] # "absent"
      PROVE  clock[i] < JobTimeout /\ ~Urgent(i) /\ (Timed(i) => left[i] > 0)
  BY <1>2 DEF Tick, Running
<1>3. TypeOK'
  BY <1>1, <1>2 DEF TypeOK, Running
<1>4. ASSUME lock # NoJob
      PROVE  /\ lock \in Job /\ step[lock] = "sniff" /\ job[lock] = "msn"
             /\ left[lock] \in Nat /\ left[lock] > 0 /\ left'[lock] = left[lock] - 1
             /\ cooling \in Nat /\ cooling' = cooling - 1 /\ left[lock] < cooling
  <2>1. lock \in Job /\ step[lock] = "sniff" /\ job[lock] = "msn" /\ left[lock] < cooling
    BY <1>4 DEF Held, InTime, Started
  <2>2. left[lock] > 0
    BY <1>2, <2>1 DEF Timed
  <2> QED
    BY <1>1, <2>1, <2>2 DEF TypeOK
<1>5. Held'
  BY <1>1, <1>4 DEF Held, TypeOK
<1>6. ASSUME NEW i \in Job
      PROVE  (Started(i) /\ ExtractInTime(i) /\ ScrapeInTime(i) /\ RequestInTime(i))'
  <2>1. Started(i)'
    BY <1>1 DEF Started, InTime, Running
  <2>2. CASE job[i] = "absent"
    BY <1>1, <2>1, <2>2 DEF InTime, Started, ExtractInTime, ScrapeInTime, RequestInTime
  <2>3. CASE job[i] # "absent" /\ ~Timed(i)
    <3>1. clock'[i] = clock[i] + 1 /\ ~Urgent(i)
      BY <1>1, <1>2, <2>3 DEF Running
    <3>2. step[i] = "wait" => lock # NoJob
      BY <3>1 DEF Urgent, InTime, Started
    <3>3. ExtractInTime(i)'
      BY <1>1, <1>4, <2>3, <3>1, <3>2
         DEF InTime, Started, ExtractInTime, Timed, TypeOK, KeyStep
    <3> QED
      BY <1>1, <2>1, <2>3, <3>3 DEF InTime, Started, ScrapeInTime, RequestInTime, Timed
  <2>4. CASE job[i] # "absent" /\ Timed(i)
    <3>1. clock'[i] = clock[i] + 1 /\ left[i] > 0 /\ left'[i] = left[i] - 1
      BY <1>1, <1>2, <2>4 DEF Running
    <3>2. step[i] # "wait"
      BY <2>4 DEF Timed, InTime, Started
    <3> QED
      BY <1>1, <2>1, <3>1, <3>2 DEF InTime, ExtractInTime, ScrapeInTime, RequestInTime, TypeOK
  <2> QED
    BY <2>2, <2>3, <2>4
<1> QED
  BY <1>3, <1>5, <1>6 DEF InTime

(* A change of the key is not a matter of time, and a crash ends all jobs. *)
LEMMA SiteAndCrashStep ==
  ASSUME IInv, RotateKey \/ WorkerCrash PROVE IInv'
<1> USE Constants DEF IInv
<1>1. CASE RotateKey
  <2>1. /\ site' \in Key
        /\ UNCHANGED <<cached, lock, cooling, quiet, step, used, call, attempt>>
        /\ UNCHANGED <<job, clock, left, interrupts>>
    BY <1>1 DEF RotateKey, Rotate, callVars
  <2> QED
    BY <2>1 DEF TypeOK, InTime, Held, Started, ExtractInTime, ScrapeInTime, RequestInTime
<1>2. CASE WorkerCrash
  <2>1. TypeOK'
    BY <1>2, KeyAssumption, RetryAssumption
       DEF WorkerCrash, Interrupt, Restart, TypeOK, KeyStep, CallStep
  <2>2. Held'
    BY <1>2 DEF WorkerCrash, Restart, Held
  <2>3. ASSUME NEW i \in Job
        PROVE  /\ step'[i] = "idle" /\ job'[i] = "absent"
               /\ clock'[i] = 0 /\ call'[i] = "idle"
    BY <1>2 DEF WorkerCrash, Restart
  <2> QED
    BY <2>1, <2>2, <2>3 DEF InTime, Started, ExtractInTime, ScrapeInTime, RequestInTime
<1> QED
  BY <1>1, <1>2

(* The invariant is inductive. *)
LEMMA StepIInv == IInv /\ [Next]_vars => IInv'
<1> SUFFICES ASSUME IInv, [Next]_vars PROVE IInv'
  OBVIOUS
<1>1. CASE \E j \in Job : Begin(j) \/ Work(j)
  BY <1>1, BeginStep, ExtractStep, ScrapeStep, GenerateStep, ExtractedStep, EndStep
     DEF Work, Finish, IInv, TypeOK
<1>2. CASE \E j \in Job : TimeOut(j) \/ Cancel(j)
  <2>1. PICK j \in Job : End(j) /\ interrupts' \in {interrupts, interrupts + 1}
    BY <1>2 DEF TimeOut, Cancel, Interrupt
  <2> QED
    BY <2>1, EndStep DEF IInv, TypeOK
<1>3. CASE Tick \/ RotateKey \/ WorkerCrash
  BY <1>3, TickStep, SiteAndCrashStep
<1>4. CASE UNCHANGED vars
  BY <1>4 DEF vars, keyVars, callVars, IInv, TypeOK, InTime, Held, Started,
              ExtractInTime, ScrapeInTime, RequestInTime
<1> QED
  BY <1>1, <1>2, <1>3, <1>4 DEF Next

(* In every behaviour the process and its jobs have the shape they should, *)
(* and no LLM call makes more than MaxRetries + 1 requests.                *)
THEOREM TypeCorrect == Spec => []TypeOK
<1>1. IInv => TypeOK
  BY DEF IInv
<1> QED
  BY <1>1, InitIInv, StepIInv, PTL DEF Spec

(* In every behaviour, however long jobs have waited for each other, the   *)
(* first request to the LLM can time out before its job does.              *)
THEOREM TimeForTheRequest == Spec => []FirstRequestInTime
<1>1. IInv => FirstRequestInTime
  BY DEF IInv, InTime, RequestInTime, FirstRequestInTime
<1> QED
  BY <1>1, InitIInv, StepIInv, PTL DEF Spec

-----------------------------------------------------------------------------
(* What is left of the cooldown, and what is over of it. *)
Cooled == cooling + quiet = Cooldown

(* The two add up, whatever happens between two sniffs. *)
LEMMA StepCooled ==
  ASSUME TypeOK, Cooled, [Next]_vars PROVE Cooled'
<1> USE CooldownAssumption DEF Cooled
<1>1. ASSUME NEW j \in Job, Begin(j) \/ FallThrough(j) \/ Scraped(j) \/ ScrapeFailed(j)
                            \/ Generate(j) \/ Extracted(j) PROVE Cooled'
  BY <1>1 DEF Begin, BeginMsn, BeginBrowser, Fetch, FallThrough, Scraped, ScrapeFailed,
              Generate, Extracted, keyVars
<1>2. ASSUME NEW j \in Job, Extract(j) PROVE Cooled'
  BY <1>2 DEF Extract, Fetched, Missed, Refused, Declined, Sniff, Sniffed, SniffFailed
<1>3. ASSUME NEW j \in Job, Finish(j) \/ TimeOut(j) \/ Cancel(j) PROVE Cooled'
  BY <1>3 DEF Finish, TimeOut, Cancel, End, Leave
<1>4. CASE Tick
  BY <1>4 DEF Tick, Passes, TypeOK
<1>5. CASE RotateKey \/ WorkerCrash
  BY <1>5 DEF RotateKey, Rotate, WorkerCrash, Restart
<1>6. CASE UNCHANGED vars
  BY <1>6 DEF vars, keyVars
<1> QED
  BY <1>1, <1>2, <1>3, <1>4, <1>5, <1>6 DEF Next, Work

(* A sniff begins with the cooldown over. *)
LEMMA SniffWhenCool ==
  ASSUME TypeOK, Cooled, [Next]_vars,
         NEW j \in Job, step[j] # "sniff", step'[j] = "sniff"
  PROVE  quiet = Cooldown
<1>1. ASSUME NEW i \in Job, Extract(i) PROVE cooling = 0
  BY <1>1 DEF Extract, StepTo, Fetched, Missed, Refused, Declined, Sniff, Sniffed,
              SniffFailed, TypeOK
<1>2. ASSUME NEW i \in Job, Begin(i) \/ FallThrough(i) \/ Scraped(i) \/ ScrapeFailed(i)
                            \/ Generate(i) \/ Extracted(i) PROVE FALSE
  BY <1>2 DEF Begin, BeginMsn, BeginBrowser, Fetch, StepTo, FallThrough, Scraped,
              ScrapeFailed, Generate, Extracted, keyVars, TypeOK
<1>3. ASSUME NEW i \in Job, Finish(i) \/ TimeOut(i) \/ Cancel(i) PROVE FALSE
  BY <1>3 DEF Finish, TimeOut, Cancel, End, Leave, TypeOK
<1>4. ~(Tick \/ RotateKey \/ WorkerCrash \/ UNCHANGED vars)
  BY DEF Tick, Passes, RotateKey, Rotate, WorkerCrash, Restart, vars, keyVars
<1>5. cooling = 0
  BY <1>1, <1>2, <1>3, <1>4 DEF Next, Work
<1> QED
  BY <1>5, CooldownAssumption DEF Cooled, TypeOK

(* In every behaviour the sniffs of a worker process begin a cooldown      *)
(* apart.                                                                  *)
THEOREM SniffsApart == Spec => SniffsSpaced
<1>1. Init => Cooled
  BY CooldownAssumption DEF Init, KeyInit, Cooled
<1>2. TypeOK /\ Cooled /\ [Next]_vars => Cooled'
  BY StepCooled
<1>3. TypeOK /\ Cooled /\ [Next]_vars
        => [\A j \in Job : step[j] # "sniff" /\ step'[j] = "sniff" => quiet = Cooldown]_vars
  BY SniffWhenCool
<1> QED
  BY <1>1, <1>2, <1>3, TypeCorrect, PTL DEF Spec, SniffsSpaced
=============================================================================
