---------------------------- MODULE ProviderCalls ----------------------------
(***************************************************************************)
(* BaseProvider.chat() of providers.py behind its RateLimiter              *)
(* (rate_limiter.py): coroutines of one event loop that take their slots,  *)
(* sleep until them, call the provider, back off and call again.  Time is  *)
(* counted in units; a coroutine whose sleep is over may still have to     *)
(* wait for the loop.                                                      *)
(***************************************************************************)
EXTENDS Integers, Sequences, FiniteSets

CONSTANTS Callers,     \* coroutines that call chat()
          Interval,    \* 60 / rate_limit_rpm
          MaxRetries,  \* max_retries
          BaseDelay, MaxDelay,   \* of calculate_backoff_delay()
          Jitters,     \* what random.uniform(0.1, 1.0) may add
          MaxTime,     \* bound on the time that passes while nobody has to sleep
          MaxCalls     \* bound on the calls of chat()

ASSUME IntervalAssumption == Interval \in Nat \ {0}
ASSUME RetriesAssumption == MaxRetries \in Nat
ASSUME DelayAssumption == BaseDelay \in Nat /\ MaxDelay \in Nat /\ Jitters \subseteq Nat
ASSUME BoundsAssumption == MaxTime \in Nat /\ MaxCalls \in Nat

VARIABLES now,        \* loop.time()
          next,       \* _next_schedule
          keyed,      \* the provider has an API key, or needs none
          pc,         \* where chat() is
          due,        \* when its sleep is over
          attempt,    \* attempt
          calls,      \* calls of chat() so far
          slots,      \* history: the slots acquire() has given, in order
          sends,      \* history: times of the first request of each call, in order
          tried,      \* history: requests of the call
          blame,      \* history: the last answer it got
          late        \* history: somebody has had to wait for the loop

chats == <<pc, due, attempt, tried, blame>>
vars == <<now, next, keyed, chats, calls, slots, sends, late>>

(* What the provider can answer: a text (or none, which becomes the empty  *)
(* text), a rate limit, that it has no such model, or another error.       *)
Answers == {"text", "limited", "no model", "error"}
is_rate_limit_error(a) == a = "limited"

Later(t, u) == IF t >= u THEN t ELSE u
Sooner(t, u) == IF t <= u THEN t ELSE u

Asleep == {"queued", "backoff"}
Sleepers == {c \in Callers : pc[c] \in Asleep}
Waiting == {c \in Sleepers : due[c] <= now}

Init == /\ now = 0 /\ next = 0
        /\ keyed \in BOOLEAN
        /\ pc = [c \in Callers |-> "idle"]
        /\ due = [c \in Callers |-> 0]
        /\ attempt = [c \in Callers |-> 0]
        /\ calls = 0
        /\ slots = <<>> /\ sends = <<>>
        /\ tried = [c \in Callers |-> 0]
        /\ blame = [c \in Callers |-> "text"]
        /\ late = FALSE

Goto(c, l) == pc' = [pc EXCEPT ![c] = l]

-----------------------------------------------------------------------------
(* acquire(): nothing in it waits while the asyncio lock is held, so it is *)
(* one step up to the sleep.                                               *)
(* faulty variant: the schedule is written and not read *)
SlotNow(t, n) == t
Slot(t, n) == Later(t, n)

Acquire(c) ==
    LET scheduled == Slot(now, next)
    IN  /\ pc[c] = "idle" /\ calls < MaxCalls
        /\ calls' = calls + 1
        /\ next' = scheduled + Interval
        /\ slots' = Append(slots, scheduled)
        /\ due' = [due EXCEPT ![c] = scheduled]
        /\ Goto(c, "queued")
        /\ UNCHANGED <<now, keyed, attempt, tried, blame, sends, late>>

(* _call_api() up to its await.  _get_client() raises when there is no key.*)
(* faulty variant: a missing key is tried again, at once and for ever *)
SendAgain(c) == /\ c \in Waiting
                /\ Goto(c, IF keyed THEN "sent" ELSE "backoff")
                /\ tried' = [tried EXCEPT ![c] = IF keyed THEN @ + 1 ELSE @]
                /\ sends' = IF keyed /\ pc[c] = "queued" THEN Append(sends, now) ELSE sends
                /\ UNCHANGED <<now, next, keyed, due, attempt, calls, slots, blame, late>>
Send(c) == /\ c \in Waiting
           /\ \/ /\ ~keyed
                 /\ Goto(c, "raised")
                 /\ blame' = [blame EXCEPT ![c] = "error"]
                 /\ UNCHANGED <<tried, sends>>
              \/ /\ keyed
                 /\ Goto(c, "sent")
                 /\ tried' = [tried EXCEPT ![c] = @ + 1]
                 /\ sends' = IF pc[c] = "queued" THEN Append(sends, now) ELSE sends
                 /\ UNCHANGED blame
           /\ UNCHANGED <<now, next, keyed, due, attempt, calls, slots, late>>

(* calculate_backoff_delay(), before the jitter.                           *)
Backoff(n) == Sooner(BaseDelay * 2^n, MaxDelay)

(* The answer of _call_api(), and what chat() makes of it.                 *)
(* faulty variant: one retry more *)
RetriesOnceMore(a, n) == is_rate_limit_error(a) /\ n <= MaxRetries
(* faulty variant: any error is retried *)
RetriesAll(a, n) == a # "text" /\ n < MaxRetries
Retries(a, n) == is_rate_limit_error(a) /\ n < MaxRetries

Answer(c, a) ==
    /\ pc[c] = "sent"
    /\ blame' = [blame EXCEPT ![c] = a]
    /\ \/ /\ Retries(a, attempt[c])
          /\ \E j \in Jitters :
                due' = [due EXCEPT ![c] = now + Backoff(attempt[c]) + j]
          /\ attempt' = [attempt EXCEPT ![c] = @ + 1]
          /\ Goto(c, "backoff")
       \/ /\ ~Retries(a, attempt[c])
          /\ Goto(c, CASE a = "text" -> "answered"
                       [] is_rate_limit_error(a) -> "limited"
                       [] OTHER -> "raised")
          /\ UNCHANGED <<due, attempt>>
    /\ UNCHANGED <<now, next, keyed, calls, tried, slots, sends, late>>

Forget(c) == /\ due' = [due EXCEPT ![c] = 0]
             /\ attempt' = [attempt EXCEPT ![c] = 0]
             /\ tried' = [tried EXCEPT ![c] = 0]
             /\ blame' = [blame EXCEPT ![c] = "text"]
             /\ Goto(c, "idle")
             /\ UNCHANGED <<now, next, keyed, calls, slots, sends, late>>

(* The pipeline that called goes on, and may call again.                   *)
Return(c) == pc[c] \in {"answered", "limited", "raised"} /\ Forget(c)

(* The task is cancelled while it sleeps or waits; its slot stays taken.   *)
Cancel(c) == pc[c] \in Asleep \union {"sent"} /\ Forget(c)

Tick == /\ now < MaxTime \/ Sleepers # Waiting
        /\ now' = now + 1
        /\ late' = (late \/ Waiting # {})
        /\ UNCHANGED <<next, keyed, chats, calls, slots, sends>>

Chat(c) == Send(c) \/ (\E a \in Answers : Answer(c, a)) \/ Return(c)
Next == Tick \/ \E c \in Callers : Acquire(c) \/ Chat(c) \/ Cancel(c)

Spec == Init /\ [][Next]_vars

(* Time passes, the loop runs what is due, and the provider answers or its *)
(* client library gives up.                                                *)
FairSpec == Spec /\ WF_vars(Tick) /\ \A c \in Callers : WF_vars(Chat(c))

-----------------------------------------------------------------------------
(* Properties. *)

TypeOK == /\ now \in Nat /\ next \in Nat /\ keyed \in BOOLEAN
          /\ pc \in [Callers -> {"idle", "queued", "sent", "backoff", "answered", "limited",
                                 "raised"}]
          /\ due \in [Callers -> Nat]
          /\ attempt \in [Callers -> 0 .. MaxRetries]
          /\ calls \in 0 .. MaxCalls
          /\ slots \in Seq(Nat) /\ sends \in Seq(Nat)
          /\ tried \in [Callers -> Nat]
          /\ blame \in [Callers -> Answers]
          /\ late \in BOOLEAN

Spaced(times) == \A i, j \in DOMAIN times : i < j => times[j] >= times[i] + Interval

(* "Competing concurrent coroutines receive strictly spaced time slots":   *)
(* whoever is cancelled, retries or calls again meanwhile.                 *)
SlotsAreSpaced == Spaced(slots)

(* So the provider sees the first requests of the calls spaced as well, as *)
(* long as no coroutine was kept from running when its sleep was over.     *)
CallsAreSpaced == SlotsAreSpaced /\ (~late => Spaced(sends))

(* "Non-rate-limit exceptions fail immediately without retrying", and a    *)
(* call that reports a rate limit has tried as often as it may.            *)
GivesUpRightly ==
    \A c \in Callers :
        /\ pc[c] = "limited" => tried[c] = MaxRetries + 1 /\ blame[c] = "limited"
        /\ pc[c] = "raised" => ~is_rate_limit_error(blame[c])
        /\ pc[c] = "backoff" => is_rate_limit_error(blame[c]) /\ tried[c] <= MaxRetries
        /\ pc[c] = "sent" => tried[c] = attempt[c] + 1

(* Every call of chat() comes to an end, whatever the provider answers.    *)
CallsEnd == \A c \in Callers : pc[c] # "idle" ~> pc[c] = "idle"
=============================================================================
