------------------------ MODULE ProviderCallsProofs ------------------------
(***************************************************************************)
(* Proofs about ProviderCalls, for any number of coroutines, every interval*)
(* and every number of retries.                                            *)
(*                                                                         *)
(* Slots are spaced because _next_schedule is an interval past all of them.*)
(* That the requests are spaced as well needs more: a coroutine sleeps     *)
(* until its slot, so that as long as none is late the requests are made in*)
(* the order of the slots, each at its own.                                *)
(***************************************************************************)
EXTENDS ProviderCalls, TLAPS

Queued == {c \in Callers : pc[c] = "queued"}

Shape == /\ now \in Nat /\ next \in Nat /\ keyed \in BOOLEAN /\ late \in BOOLEAN
         /\ slots \in Seq(Nat) /\ sends \in Seq(Nat)
         /\ pc \in [Callers -> {"idle", "queued", "sent", "backoff", "answered", "limited",
                                "raised"}]
         /\ DOMAIN due = Callers
         /\ attempt \in [Callers -> 0 .. MaxRetries]
         /\ tried \in [Callers -> Nat]
         /\ blame \in [Callers -> Answers]

Schedule == Spaced(slots) /\ \A i \in DOMAIN slots : slots[i] + Interval <= next

(* Those who are queued wait for slots of their own, all still to come.    *)
OnTime == /\ \A c \in Queued : due[c] \in Nat /\ now <= due[c] /\ due[c] + Interval <= next
          /\ \A c, d \in Queued : c # d => \/ due[c] + Interval <= due[d]
                                           \/ due[d] + Interval <= due[c]
          /\ \A i \in DOMAIN sends : sends[i] <= now /\ sends[i] + Interval <= next
          /\ \A i \in DOMAIN sends, c \in Queued : sends[i] + Interval <= due[c]
          /\ Spaced(sends)
Requests == ~late => OnTime

(* How the requests of a call stand to its attempts, wherever it is.       *)
Counted ==
    \A c \in Callers :
        /\ pc[c] \in {"idle", "queued"} => attempt[c] = 0 /\ tried[c] = 0
        /\ pc[c] = "backoff" => tried[c] = attempt[c] /\ blame[c] = "limited"
        /\ pc[c] = "sent" => tried[c] = attempt[c] + 1
        /\ pc[c] = "limited" => tried[c] = MaxRetries + 1 /\ blame[c] = "limited"
        /\ pc[c] = "raised" => blame[c] # "limited"

IInv == Shape /\ Schedule /\ Requests /\ Counted

-----------------------------------------------------------------------------
(* What appending to a spaced sequence takes. *)

LEMMA AppendSpaced ==
    ASSUME NEW s \in Seq(Nat), NEW t \in Nat, Spaced(s),
           \A i \in DOMAIN s : s[i] + Interval <= t
    PROVE  /\ Append(s, t) \in Seq(Nat) /\ Spaced(Append(s, t))
           /\ \A i \in DOMAIN Append(s, t) :
                 \/ i \in DOMAIN s /\ Append(s, t)[i] = s[i]
                 \/ Append(s, t)[i] = t
  <1>1. /\ Len(s) \in Nat /\ DOMAIN s = 1 .. Len(s)
        /\ Append(s, t) \in Seq(Nat) /\ DOMAIN Append(s, t) = 1 .. Len(s) + 1
        /\ \A i \in 1 .. Len(s) : Append(s, t)[i] = s[i] /\ s[i] \in Nat
        /\ Append(s, t)[Len(s) + 1] = t
    OBVIOUS
  <1>2. \A i \in DOMAIN Append(s, t) :
           \/ i \in DOMAIN s /\ Append(s, t)[i] = s[i]
           \/ Append(s, t)[i] = t
    BY <1>1
  <1>3. ASSUME NEW i \in DOMAIN Append(s, t), NEW j \in DOMAIN Append(s, t), i < j
        PROVE  Append(s, t)[j] >= Append(s, t)[i] + Interval
    <2>1. CASE j = Len(s) + 1
      <3>1. i \in 1 .. Len(s)
        BY <1>1, <1>3, <2>1
      <3> QED
        BY <1>1, <2>1, <3>1, IntervalAssumption
    <2>2. CASE j # Len(s) + 1
      <3>1. i \in 1 .. Len(s) /\ j \in 1 .. Len(s)
        BY <1>1, <1>3, <2>2
      <3>2. s[j] >= s[i] + Interval
        BY <1>1, <1>3, <3>1 DEF Spaced
      <3> QED
        BY <1>1, <3>1, <3>2
    <2> QED
      BY <2>1, <2>2
  <1> QED
    BY <1>1, <1>2, <1>3 DEF Spaced

-----------------------------------------------------------------------------
(* The invariant. *)

LEMMA InitInv == Init => IInv
  <1> SUFFICES ASSUME Init PROVE IInv
    OBVIOUS
  <1>1. Shape
    <2>1. 0 \in 0 .. MaxRetries /\ 0 \in Nat /\ <<>> \in Seq(Nat)
      BY RetriesAssumption
    <2>2. /\ attempt \in [Callers -> 0 .. MaxRetries] /\ tried \in [Callers -> Nat]
          /\ blame \in [Callers -> Answers] /\ DOMAIN due = Callers
          /\ pc \in [Callers -> {"idle", "queued", "sent", "backoff", "answered", "limited",
                                 "raised"}]
      BY <2>1 DEF Init, Answers
    <2> QED
      BY <2>1, <2>2 DEF Init, Shape
  <1>2. Schedule /\ Requests
    BY DEF Init, Schedule, Requests, OnTime, Queued, Spaced
  <1>3. Counted
    BY DEF Init, Counted
  <1> QED
    BY <1>1, <1>2, <1>3 DEF IInv

(* The slot that acquire() gives is an interval past all the others.       *)
LEMMA AcquireStep == ASSUME IInv, NEW c \in Callers, Acquire(c) PROVE IInv'
  <1> DEFINE t == Slot(now, next)
  <1> USE DEF IInv
  <1>1. /\ t \in Nat /\ now <= t /\ next <= t /\ next' = t + Interval /\ next' \in Nat
        /\ next <= next'
    BY IntervalAssumption DEF Acquire, Shape, Slot, Later
  <1>2. slots' = Append(slots, t) /\ due' = [due EXCEPT ![c] = t]
        /\ pc' = [pc EXCEPT ![c] = "queued"] /\ pc[c] = "idle"
        /\ UNCHANGED <<now, keyed, attempt, tried, blame, sends, late>>
    BY DEF Acquire, Goto
  <1>3. \A i \in DOMAIN slots : slots[i] \in Nat /\ slots[i] + Interval <= t
    BY <1>1, IntervalAssumption DEF Schedule, Shape
  <1>4. slots' \in Seq(Nat) /\ Spaced(slots')
        /\ \A i \in DOMAIN slots' :
              (i \in DOMAIN slots /\ slots'[i] = slots[i]) \/ slots'[i] = t
    BY <1>1, <1>2, <1>3, AppendSpaced DEF Schedule, Shape
  <1>5. Schedule'
    BY <1>1, <1>3, <1>4, IntervalAssumption DEF Schedule, Spaced
  <1>6. Shape'
    BY <1>1, <1>2, <1>4 DEF Shape
  <1>7. Queued' = Queued \union {c} /\ c \notin Queued
    BY <1>2 DEF Queued, Shape
  <1>8. ASSUME ~late' PROVE OnTime'
    <2>1. OnTime /\ due'[c] = t /\ \A d \in Queued : due'[d] = due[d] /\ d # c
      BY <1>2, <1>7, <1>8 DEF Requests, Shape, Queued
    <2>2. \A d \in Queued' : due'[d] \in Nat /\ now' <= due'[d] /\ due'[d] + Interval <= next'
      BY <1>1, <1>2, <1>7, <2>1, IntervalAssumption DEF OnTime, Shape
    <2>3. \A d \in Queued : due'[d] + Interval <= due'[c]
      <3> TAKE d \in Queued
      <3>1. due[d] \in Nat /\ due[d] + Interval <= next /\ next \in Nat /\ Interval \in Nat
        BY <2>1, IntervalAssumption DEF OnTime, Shape
      <3>2. due[d] + Interval <= t
        BY <1>1, <3>1
      <3> QED
        BY <2>1, <3>2
    <2>4. \A d, e \in Queued' : d # e => \/ due'[d] + Interval <= due'[e]
                                         \/ due'[e] + Interval <= due'[d]
      BY <1>7, <2>1, <2>3 DEF OnTime
    <2>5. \A i \in DOMAIN sends : sends[i] \in Nat
      BY DEF Shape
    <2>6. \A i \in DOMAIN sends' : sends'[i] <= now' /\ sends'[i] + Interval <= next'
      BY <1>1, <1>2, <2>1, <2>5, IntervalAssumption DEF OnTime, Shape
    <2>7. \A i \in DOMAIN sends', d \in Queued' : sends'[i] + Interval <= due'[d]
      BY <1>1, <1>2, <1>7, <2>1, <2>5, IntervalAssumption DEF OnTime, Shape
    <2> QED
      BY <1>2, <2>1, <2>2, <2>4, <2>6, <2>7 DEF OnTime, Spaced
  <1>9. Counted'
    BY <1>2 DEF Counted, Shape
  <1> QED
    BY <1>5, <1>6, <1>8, <1>9 DEF Requests

(* A step of a coroutine that neither queues nor sends for the first time. *)
LEMMA AsideStep ==
    ASSUME IInv, NEW c \in Callers, Shape', Queued' \subseteq Queued, c \notin Queued',
           \A d \in Callers \ {c} : due'[d] = due[d],
           UNCHANGED <<now, next, slots, sends, late>>
    PROVE  Schedule' /\ Requests'
  <1>1. Schedule'
    BY DEF IInv, Schedule, Spaced
  <1>2. ASSUME ~late' PROVE OnTime'
    <2>1. OnTime /\ \A d \in Queued' : d \in Queued /\ due'[d] = due[d]
      BY <1>2 DEF IInv, Requests, Queued
    <2> QED
      BY <2>1 DEF OnTime, Spaced
  <1> QED
    BY <1>1, <1>2 DEF Requests

(* The first request of a call is made at its slot, when nobody is late,   *)
(* and those still queued have theirs an interval later.                   *)
LEMMA FirstSend ==
    ASSUME IInv, NEW c \in Queued, ~late, due[c] <= now,
           sends' = Append(sends, now), pc' = [pc EXCEPT ![c] = "sent"],
           UNCHANGED <<now, next, due, late>>
    PROVE  OnTime'
  <1> USE DEF IInv
  <1>1. OnTime /\ c \in Callers /\ now \in Nat /\ sends \in Seq(Nat)
        /\ \A i \in DOMAIN sends : sends[i] \in Nat
    BY DEF Requests, Queued, Shape
  <1>2. due[c] = now /\ now + Interval <= next
    <2>1. due[c] \in Nat /\ now <= due[c] /\ due[c] + Interval <= next
      BY <1>1 DEF OnTime
    <2>2. due[c] = now
      BY <1>1, <2>1
    <2> QED
      BY <2>1, <2>2
  <1>3. \A i \in DOMAIN sends : sends[i] + Interval <= now
    BY <1>1, <1>2 DEF OnTime
  <1>4. Spaced(sends') /\ \A i \in DOMAIN sends' :
             (i \in DOMAIN sends /\ sends'[i] = sends[i]) \/ sends'[i] = now
    BY <1>1, <1>3, AppendSpaced DEF OnTime
  <1>5. \A d \in Queued' : d \in Queued /\ d # c
    BY DEF Queued, Shape
  <1>6. \A d \in Queued' : now + Interval <= due[d]
    <2> TAKE d \in Queued'
    <2>1. d \in Queued /\ d # c /\ due[d] \in Nat /\ now <= due[d]
      BY <1>1, <1>5 DEF OnTime
    <2>2. due[c] + Interval <= due[d] \/ due[d] + Interval <= due[c]
      BY <1>1, <2>1 DEF OnTime
    <2> QED
      BY <1>1, <1>2, <2>1, <2>2, IntervalAssumption
  <1>7. \A i \in DOMAIN sends' : sends'[i] <= now /\ sends'[i] + Interval <= next
    BY <1>1, <1>2, <1>4 DEF OnTime
  <1>8. \A i \in DOMAIN sends', d \in Queued' : sends'[i] + Interval <= due[d]
    BY <1>1, <1>4, <1>5, <1>6 DEF OnTime
  <1> QED
    BY <1>1, <1>4, <1>5, <1>7, <1>8 DEF OnTime

LEMMA SendStep == ASSUME IInv, NEW c \in Callers, Send(c) PROVE IInv'
  <1> USE DEF IInv
  <1>1. pc[c] \in {"queued", "backoff"} /\ due[c] <= now
        /\ UNCHANGED <<now, next, keyed, due, attempt, slots, late>>
    BY DEF Send, Waiting, Sleepers, Asleep
  <1>2. CASE ~keyed
    <2>1. pc' = [pc EXCEPT ![c] = "raised"] /\ blame' = [blame EXCEPT ![c] = "error"]
          /\ UNCHANGED <<tried, sends>>
      BY <1>2 DEF Send, Goto
    <2>2. Shape'
      BY <1>1, <2>1 DEF Shape, Answers
    <2>3. Queued' \subseteq Queued /\ c \notin Queued'
      BY <2>1 DEF Queued, Shape
    <2>4. Schedule' /\ Requests'
      BY <1>1, <2>1, <2>2, <2>3, AsideStep
    <2>5. Counted'
      BY <1>1, <2>1 DEF Counted, Shape
    <2> QED
      BY <2>2, <2>4, <2>5
  <1>3. CASE keyed
    <2>1. pc' = [pc EXCEPT ![c] = "sent"] /\ tried' = [tried EXCEPT ![c] = @ + 1]
          /\ sends' = (IF pc[c] = "queued" THEN Append(sends, now) ELSE sends)
          /\ UNCHANGED blame
      BY <1>3 DEF Send, Goto
    <2>2. Shape'
      BY <1>1, <2>1 DEF Shape
    <2>3. Queued' \subseteq Queued /\ c \notin Queued'
      BY <2>1 DEF Queued, Shape
    <2>4. Schedule' /\ Requests'
      <3>1. CASE pc[c] = "backoff"
        BY <1>1, <2>1, <2>2, <2>3, <3>1, AsideStep
      <3>2. CASE pc[c] = "queued"
        <4>1. Schedule'
          BY <1>1 DEF Schedule, Spaced
        <4>2. ~late' => OnTime'
          BY <1>1, <2>1, <3>2, FirstSend DEF Queued
        <4> QED
          BY <4>1, <4>2 DEF Requests
      <3> QED
        BY <1>1, <3>1, <3>2
    <2>5. Counted'
      BY <1>1, <2>1 DEF Counted, Shape
    <2> QED
      BY <2>2, <2>4, <2>5
  <1> QED
    BY <1>2, <1>3

LEMMA AnswerStep == ASSUME IInv, NEW c \in Callers, NEW a \in Answers, Answer(c, a) PROVE IInv'
  <1> USE DEF IInv
  <1>1. /\ pc[c] = "sent" /\ blame' = [blame EXCEPT ![c] = a]
        /\ UNCHANGED <<now, next, keyed, tried, slots, sends, late>>
    BY DEF Answer
  <1>2. CASE Retries(a, attempt[c])
    <2>1. /\ attempt' = [attempt EXCEPT ![c] = @ + 1] /\ pc' = [pc EXCEPT ![c] = "backoff"]
          /\ \E j \in Jitters : due' = [due EXCEPT ![c] = now + Backoff(attempt[c]) + j]
      BY <1>2 DEF Answer, Goto
    <2>2. a = "limited" /\ attempt[c] < MaxRetries
      BY <1>2 DEF Retries, is_rate_limit_error
    <2>3. DOMAIN due' = Callers /\ \A d \in Callers \ {c} : due'[d] = due[d]
      BY <2>1 DEF Shape
    <2>4. attempt' \in [Callers -> 0 .. MaxRetries]
      BY <2>1, <2>2, RetriesAssumption DEF Shape
    <2>5. Shape'
      BY <1>1, <2>1, <2>3, <2>4 DEF Shape
    <2>6. Queued' \subseteq Queued /\ c \notin Queued'
      BY <2>1 DEF Queued, Shape
    <2>7. Schedule' /\ Requests'
      BY <1>1, <2>3, <2>5, <2>6, AsideStep
    <2>8. Counted'
      BY <1>1, <2>1, <2>2 DEF Counted, Shape
    <2> QED
      BY <2>5, <2>7, <2>8
  <1>3. CASE ~Retries(a, attempt[c])
    <2>1. /\ pc' = [pc EXCEPT ![c] = CASE a = "text" -> "answered"
                                       [] is_rate_limit_error(a) -> "limited"
                                       [] OTHER -> "raised"]
          /\ UNCHANGED <<due, attempt>>
      BY <1>3 DEF Answer, Goto
    <2>2. /\ a = "text" => pc'[c] = "answered"
          /\ a = "limited" => pc'[c] = "limited"
          /\ a \notin {"text", "limited"} => pc'[c] = "raised"
          /\ \A d \in Callers \ {c} : pc'[d] = pc[d]
          /\ DOMAIN pc' = Callers
      BY <2>1 DEF is_rate_limit_error, Shape
    <2>3. pc' \in [Callers -> {"idle", "queued", "sent", "backoff", "answered", "limited",
                               "raised"}]
      BY <2>1, <2>2 DEF is_rate_limit_error, Shape
    <2>4. Shape'
      BY <1>1, <2>1, <2>3 DEF Shape
    <2>5. Queued' \subseteq Queued /\ c \notin Queued'
      BY <2>2 DEF Queued, Shape
    <2>6. Schedule' /\ Requests'
      BY <1>1, <2>1, <2>4, <2>5, AsideStep
    <2>7. a = "limited" => attempt[c] = MaxRetries
      BY <1>3, RetriesAssumption DEF Retries, is_rate_limit_error, Shape
    <2>8. Counted'
      BY <1>1, <2>1, <2>2, <2>7 DEF Counted, Shape
    <2> QED
      BY <2>4, <2>6, <2>8
  <1> QED
    BY <1>2, <1>3

LEMMA ForgetStep == ASSUME IInv, NEW c \in Callers, Forget(c) PROVE IInv'
  <1> USE DEF IInv
  <1>1. /\ pc' = [pc EXCEPT ![c] = "idle"] /\ due' = [due EXCEPT ![c] = 0]
        /\ attempt' = [attempt EXCEPT ![c] = 0] /\ tried' = [tried EXCEPT ![c] = 0]
        /\ blame' = [blame EXCEPT ![c] = "text"]
        /\ UNCHANGED <<now, next, keyed, slots, sends, late>>
    BY DEF Forget, Goto
  <1>2. Shape'
    <2>1. 0 \in 0 .. MaxRetries
      BY RetriesAssumption
    <2>2. attempt' \in [Callers -> 0 .. MaxRetries] /\ tried' \in [Callers -> Nat]
      BY <1>1, <2>1 DEF Shape
    <2> QED
      BY <1>1, <2>2 DEF Shape, Answers
  <1>3. Queued' \subseteq Queued /\ c \notin Queued' /\ \A d \in Callers \ {c} : due'[d] = due[d]
    BY <1>1 DEF Queued, Shape
  <1>4. Schedule' /\ Requests'
    BY <1>1, <1>2, <1>3, AsideStep
  <1>5. Counted'
    BY <1>1 DEF Counted, Shape
  <1> QED
    BY <1>2, <1>4, <1>5

(* Time that passes while somebody waits for the loop makes it late.       *)
LEMMA TickStep == ASSUME IInv, Tick PROVE IInv'
  <1> USE DEF IInv
  <1>1. /\ now' = now + 1 /\ late' = (late \/ Waiting # {})
        /\ UNCHANGED <<next, keyed, pc, due, attempt, tried, blame, slots, sends>>
    BY DEF Tick, chats
  <1>2. Shape'
    BY <1>1 DEF Shape
  <1>3. Schedule' /\ Counted'
    BY <1>1 DEF Schedule, Spaced, Counted
  <1>4. ASSUME ~late' PROVE OnTime'
    <2>1. /\ OnTime /\ Waiting = {} /\ Queued' = Queued /\ now \in Nat
          /\ \A i \in DOMAIN sends : sends[i] \in Nat
      <3>1. ~late /\ Waiting = {}
        BY <1>1, <1>4
      <3> QED
        BY <1>1, <3>1 DEF Requests, Queued, Shape
    <2>2. \A c \in Queued : ~(due[c] <= now)
      BY <2>1 DEF Waiting, Sleepers, Asleep, Queued
    <2>3. \A c \in Queued : due[c] \in Nat /\ now + 1 <= due[c] /\ due[c] + Interval <= next
      BY <2>1, <2>2 DEF OnTime
    <2>4. \A i \in DOMAIN sends : sends[i] <= now + 1 /\ sends[i] + Interval <= next
      BY <2>1 DEF OnTime
    <2> QED
      BY <1>1, <2>1, <2>3, <2>4 DEF OnTime, Spaced
  <1> QED
    BY <1>2, <1>3, <1>4 DEF Requests

LEMMA NextInv == IInv /\ [Next]_vars => IInv'
  <1> SUFFICES ASSUME IInv, [Next]_vars PROVE IInv'
    OBVIOUS
  <1>1. CASE Tick
    BY <1>1, TickStep
  <1>2. ASSUME NEW c \in Callers, Acquire(c) PROVE IInv'
    BY <1>2, AcquireStep
  <1>3. ASSUME NEW c \in Callers, Chat(c) PROVE IInv'
    <2>1. CASE Send(c)
      BY <2>1, SendStep
    <2>2. ASSUME NEW a \in Answers, Answer(c, a) PROVE IInv'
      BY <2>2, AnswerStep
    <2>3. CASE Return(c)
      BY <2>3, ForgetStep DEF Return
    <2> QED
      BY <1>3, <2>1, <2>2, <2>3 DEF Chat
  <1>4. ASSUME NEW c \in Callers, Cancel(c) PROVE IInv'
    BY <1>4, ForgetStep DEF Cancel
  <1>5. CASE UNCHANGED vars
    <2>1. UNCHANGED <<now, next, keyed, pc, due, attempt, tried, blame, slots, sends, late>>
      BY <1>5 DEF vars, chats
    <2> QED
      BY <2>1 DEF IInv, Shape, Schedule, Requests, OnTime, Counted, Queued, Spaced
  <1> QED
    BY <1>1, <1>2, <1>3, <1>4, <1>5 DEF Next

(* The inductive invariant, on which the others rest.                      *)
THEOREM Invariance == Spec => []IInv
  BY InitInv, NextInv, PTL DEF Spec

(* The slots of RateLimiter.acquire() are an interval apart, and so are the*)
(* first requests of the calls unless a coroutine was late.                *)
THEOREM CallsStaySpaced == Spec => []CallsAreSpaced
  <1>1. IInv => CallsAreSpaced
    BY DEF IInv, Schedule, Requests, OnTime, CallsAreSpaced, SlotsAreSpaced
  <1> QED
    BY <1>1, Invariance, PTL

(* chat() gives up on a rate limit after all its retries and not before,   *)
(* and on any other error at once.                                         *)
THEOREM RetriesAreRight == Spec => []GivesUpRightly
  <1>1. IInv => GivesUpRightly
    BY RetriesAssumption DEF IInv, Shape, Counted, GivesUpRightly, is_rate_limit_error
  <1> QED
    BY <1>1, Invariance, PTL

(* The variables have their types, given that powers of two are numbers,   *)
(* which the provers do not know: a back-off is BaseDelay times one.       *)
THEOREM TypeCorrect ==
    ASSUME \A n \in 0 .. MaxRetries : 2^n \in Nat
    PROVE  Spec => []TypeOK
  <1> DEFINE Counts == due \in [Callers -> Nat] /\ calls \in 0 .. MaxCalls
  <1>1. \A n \in 0 .. MaxRetries : Backoff(n) \in Nat
    <2> TAKE n \in 0 .. MaxRetries
    <2> DEFINE power == 2^n
    <2>1. power \in Nat
      OBVIOUS
    <2> HIDE DEF power
    <2>2. BaseDelay * power \in Nat
      BY <2>1, DelayAssumption
    <2>3. Sooner(BaseDelay * power, MaxDelay) \in Nat
      BY <2>2, DelayAssumption DEF Sooner
    <2> QED
      BY <2>3 DEF Backoff, power
  <1>2. Init => Counts
    BY BoundsAssumption DEF Init
  <1>3. ASSUME IInv, Counts, Next PROVE Counts'
    <2>1. ASSUME NEW c \in Callers, Acquire(c) PROVE Counts'
      BY <1>3, <2>1, BoundsAssumption DEF Acquire, Slot, Later, IInv, Shape
    <2>2. ASSUME NEW c \in Callers, NEW a \in Answers, Answer(c, a) PROVE Counts'
      <3>1. attempt[c] \in 0 .. MaxRetries /\ now \in Nat
        BY <1>3, <2>2 DEF IInv, Shape
      <3>2. \A j \in Jitters : now + Backoff(attempt[c]) + j \in Nat
        BY <1>1, <3>1, DelayAssumption
      <3>3. CASE Retries(a, attempt[c])
        <4>1. PICK j \in Jitters : due' = [due EXCEPT ![c] = now + Backoff(attempt[c]) + j]
          BY <2>2, <3>3 DEF Answer
        <4> QED
          BY <1>3, <2>2, <3>2, <4>1 DEF Answer
      <3>4. CASE ~Retries(a, attempt[c])
        BY <1>3, <2>2, <3>4 DEF Answer
      <3> QED
        BY <3>3, <3>4
    <2>3. ASSUME NEW c \in Callers, Send(c) \/ Return(c) \/ Cancel(c) PROVE Counts'
      BY <1>3, <2>3 DEF Send, Return, Cancel, Forget
    <2>4. ASSUME Tick PROVE Counts'
      BY <1>3, <2>4 DEF Tick, chats
    <2> QED
      BY <1>3, <2>1, <2>2, <2>3, <2>4 DEF Next, Chat
  <1>4. Counts /\ UNCHANGED vars => Counts'
    BY DEF vars, chats
  <1>5. IInv /\ Counts => TypeOK
    BY DEF IInv, Shape, TypeOK
  <1> HIDE DEF Counts
  <1> QED
    BY <1>2, <1>3, <1>4, <1>5, Invariance, PTL DEF Spec
=============================================================================
