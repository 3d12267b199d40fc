--------------------------- MODULE JobQueueProofs ---------------------------
(***************************************************************************)
(* Theorems about JobQueue, for every set of paths, every finite set of    *)
(* workers and any number of submissions.                                  *)
(***************************************************************************)
EXTENDS JobQueue, SequenceTheorems, FiniteSetTheorems, TLAPS

(* The pieces of Fire and Finish that are helpers in JobQueue.             *)
USE DEF FileRerun, FileNew, AlreadyFiled, AfterTaskDone, Reruns, Settled

-----------------------------------------------------------------------------
(* Sequences without repetition. *)

(* put_nowait adds exactly its path, and keeps a queue free of repetitions *)
(* if the path was not in it.                                              *)
LEMMA AppendFresh ==
    ASSUME NEW S, NEW s \in Seq(S), NEW e \in S
    PROVE  /\ Append(s, e) \in Seq(S)
           /\ Append(s, e) # <<>>
           /\ Len(Append(s, e)) = Len(s) + 1
           /\ Range(Append(s, e)) = Range(s) \union {e}
           /\ (IsInjective(s) /\ e \notin Range(s)) => IsInjective(Append(s, e))
<1> DEFINE t == Append(s, e)
<1>1. /\ t \in Seq(S) /\ t # <<>> /\ Len(t) = Len(s) + 1
      /\ \A i \in 1 .. Len(s) : t[i] = s[i]
      /\ t[Len(s) + 1] = e
  BY AppendProperties
<1>2. Range(s) = {s[i] : i \in 1 .. Len(s)} /\ Range(t) = {t[i] : i \in 1 .. Len(t)}
  BY <1>1, RangeEquality
<1>3. Len(s) \in Nat /\ DOMAIN s = 1 .. Len(s) /\ DOMAIN t = 1 .. Len(s) + 1
  BY <1>1
<1>4. Range(t) = Range(s) \union {e}
  <2>1. ASSUME NEW i \in 1 .. Len(s) + 1 PROVE t[i] \in Range(s) \union {e}
    BY <1>1, <1>2, <1>3
  <2>2. \A i \in 1 .. Len(s) : s[i] \in Range(t)
    BY <1>1, <1>2, <1>3
  <2>3. e \in Range(t)
    BY <1>1, <1>2, <1>3
  <2> QED BY <1>1, <1>2, <2>1, <2>2, <2>3
<1>5. ASSUME IsInjective(s), e \notin Range(s) PROVE IsInjective(t)
  <2> SUFFICES ASSUME NEW i \in 1 .. Len(s) + 1, NEW j \in 1 .. Len(s) + 1, t[i] = t[j]
               PROVE  i = j
    BY <1>3 DEF IsInjective
  <2>1. \A k \in 1 .. Len(s) : s[k] # e
    BY <1>2, <1>5
  <2> QED BY <1>1, <1>3, <1>5, <2>1 DEF IsInjective
<1> QED BY <1>1, <1>4, <1>5

(* get_nowait removes exactly the head from a queue free of repetitions.   *)
LEMMA TailFresh ==
    ASSUME NEW S, NEW s \in Seq(S), s # <<>>
    PROVE  /\ Head(s) \in S
           /\ Head(s) \in Range(s)
           /\ Tail(s) \in Seq(S)
           /\ Len(Tail(s)) = Len(s) - 1
           /\ IsInjective(s) => /\ Range(Tail(s)) = Range(s) \ {Head(s)}
                                /\ IsInjective(Tail(s))
<1> DEFINE t == Tail(s)
<1>1. /\ Head(s) \in S /\ t \in Seq(S) /\ Len(t) = Len(s) - 1
      /\ \A i \in 1 .. Len(t) : t[i] = s[i + 1]
  BY HeadTailProperties
<1>2. Range(s) = {s[i] : i \in 1 .. Len(s)} /\ Range(t) = {t[i] : i \in 1 .. Len(t)}
  BY <1>1, RangeEquality
<1>3. Len(s) \in Nat \ {0} /\ DOMAIN s = 1 .. Len(s) /\ DOMAIN t = 1 .. Len(s) - 1
  BY <1>1
<1>4. Head(s) = s[1]
  OBVIOUS
<1>5. ASSUME IsInjective(s) PROVE Range(t) = Range(s) \ {Head(s)} /\ IsInjective(t)
  <2>1. ASSUME NEW i \in 1 .. Len(s) - 1 PROVE t[i] \in Range(s) /\ t[i] # Head(s)
    BY <1>1, <1>2, <1>3, <1>4, <1>5 DEF IsInjective
  <2>2. ASSUME NEW i \in 1 .. Len(s), s[i] # Head(s) PROVE s[i] \in Range(t)
    <3>1. i - 1 \in 1 .. Len(t) /\ t[i - 1] = s[i]
      BY <1>1, <1>3, <1>4, <2>2
    <3> QED BY <1>2, <3>1
  <2>3. IsInjective(t)
    BY <1>1, <1>3, <1>5 DEF IsInjective
  <2> QED BY <1>1, <1>2, <1>3, <2>1, <2>2, <2>3
<1> QED BY <1>1, <1>2, <1>3, <1>4, <1>5
-----------------------------------------------------------------------------
(* The handlers and the paths in flight. *)

(* The workers in a handler are finitely many, and each handles a path in  *)
(* flight.                                                                 *)
LEMMA HandlersFinite ==
    ASSUME IInv
    PROVE  /\ IsFiniteSet(Handlers)
           /\ Cardinality(Handlers) \in Nat
           /\ \A w \in Handlers : wpath[w] \in inFlight /\ wpath[w] \in Paths
<1>1. IsFiniteSet(Handlers) /\ Cardinality(Handlers) \in Nat
  BY FS_Subset, FS_CardinalityType, WorkersAssumption DEF Handlers
<1> QED BY <1>1 DEF IInv, GuardsAgree, TypeOK

(* A worker that leaves its handler takes its path out of flight, and no   *)
(* other worker was handling that path.                                    *)
LEMMA HandlerLeaves ==
    ASSUME IInv, NEW w \in Handlers
    PROVE  /\ {wpath[v] : v \in Handlers \ {w}} = inFlight \ {wpath[w]}
           /\ Cardinality(Handlers \ {w}) = Cardinality(Handlers) - 1
           /\ Cardinality(Handlers \ {w}) \in Nat
           /\ unfinished >= 1
           /\ unfinished - 1 = Len(queue) + Cardinality(Handlers \ {w})
<1>1. \A v \in Handlers \ {w} : wpath[v] # wpath[w]
  BY DEF IInv, MutualExclusion, Handlers
<1>2. {wpath[v] : v \in Handlers \ {w}} = inFlight \ {wpath[w]}
  BY <1>1 DEF IInv, GuardsAgree
<1>3. /\ Cardinality(Handlers \ {w}) = Cardinality(Handlers) - 1
      /\ Cardinality(Handlers \ {w}) \in Nat
  BY HandlersFinite, FS_RemoveElement, FS_CardinalityType
<1>4. Len(queue) \in Nat
  BY DEF IInv, TypeOK
<1> QED BY <1>2, <1>3, <1>4, HandlersFinite DEF IInv, UnfinishedExact

(* A step only wakes drainers: nobody changes stage, returns or spins.     *)
WokenOnly ==
    /\ dpc' \in [Drainers -> DrainStates]
    /\ \A d \in Drainers :
          /\ dpc'[d] = "done" => dpc[d] = "done"
          /\ dpc'[d] = "spin" => dpc[d] = "spin"
          /\ dpc'[d] \in {"debounce", "debounceWoken"}
                 <=> dpc[d] \in {"debounce", "debounceWoken"}

LEMMA WokenType ==
    ASSUME dpc \in [Drainers -> DrainStates], NEW a, NEW b, NEW c,
           dpc' = Woken(a, b, c)
    PROVE  WokenOnly
BY DEF WokenOnly, Woken, DrainStates, DrainWaits, DrainWoken

(* drain() returns only when nothing is left, and never spins.             *)
LEMMA DrainStages ==
    ASSUME IInv
    PROVE  /\ {FromCheck, FromJoin, FromDebounce} \subseteq DrainStates \ {"off", "spin"}
           /\ "done" \in {FromCheck, FromJoin, FromDebounce} => Quiescent
           /\ FromCheck \notin {"debounce", "debounceWoken"}
           /\ FromJoin \notin {"debounce", "debounceWoken"}
           /\ FromDebounce \notin {"debounce", "debounceWoken"} => debouncing = {}
<1>1. ~Quiescent => unfinished > 0
  <2>1. CASE queue # <<>>
    BY <2>1, HandlersFinite DEF IInv, TypeOK, UnfinishedExact
  <2>2. CASE inFlight # {}
    <3>1. inFlight = {wpath[w] : w \in Handlers}
      BY DEF IInv, GuardsAgree
    <3>2. PICK w \in Handlers : TRUE
      BY <2>2, <3>1
    <3>3. unfinished >= 1
      BY <3>2, HandlerLeaves
    <3>4. unfinished \in Nat
      BY DEF IInv, TypeOK
    <3> QED BY <3>3, <3>4
  <2>3. CASE rerun # {}
    BY <2>2, <2>3 DEF IInv, GuardsAgree
  <2> QED BY <2>1, <2>2, <2>3 DEF Quiescent
<1> QED BY <1>1 DEF FromCheck, FromJoin, FromDebounce, DrainStates, DrainWaits, DrainWoken
-----------------------------------------------------------------------------
(* Initially. *)
LEMMA InitInv == Init => IInv
<1> SUFFICES ASSUME Init PROVE IInv
  OBVIOUS
<1>1. Handlers = {}
  BY DEF Init, Handlers, Handling
<1>2. TypeOK
  <2>1. owed \in [Drainers -> [Paths -> {"nothing", "aRun", "itsEnd"}]]
    BY DEF Init
  <2>2. dpc \in [Drainers -> DrainStates]
    BY DEF Init, DrainStates
  <2>3. submits \in 0 .. MaxSubmits /\ unfinished \in Nat
    BY MaxSubmitsAssumption DEF Init
  <2>4. queue \in Seq(Paths)
    BY DEF Init
  <2>5. wpc \in [Workers -> {"none", "waiting", "handling", "exited"}]
    BY DEF Init
  <2>6. wpath \in [Workers -> Paths \union {NoPath}]
    BY DEF Init
  <2> QED BY <2>1, <2>2, <2>3, <2>4, <2>5, <2>6 DEF Init, TypeOK
<1>3. MutualExclusion
  BY <1>1 DEF MutualExclusion, Handlers
<1>4. GuardsAgree
  <2>1. Range(queue) = {} /\ IsInjective(queue)
    BY DEF Init, Range, IsInjective
  <2>2. inFlight = {wpath[w] : w \in Handlers}
    BY <1>1 DEF Init
  <2> QED BY <2>1, <2>2 DEF Init, GuardsAgree
<1>5. UnfinishedExact
  BY <1>1, FS_EmptySet DEF Init, UnfinishedExact
<1>6. Lifecycle /\ IdleEventExact /\ DrainDebts /\ DrainCovers /\ NoSpin
  BY DEF Init, Lifecycle, IdleEventExact, Quiescent, DrainDebts, DrainCovers, NoSpin
<1> QED BY <1>2, <1>3, <1>4, <1>5, <1>6 DEF IInv

-----------------------------------------------------------------------------
(* One lemma per action. *)

(* What a step keeps when it changes neither the pool nor the events.      *)
LEMMA PoolUntouched ==
    ASSUME IInv, UNCHANGED <<poolVars, idle, running, stopped>>
    PROVE  /\ MutualExclusion' /\ GuardsAgree' /\ UnfinishedExact' /\ IdleEventExact'
           /\ (~running /\ ~stopped)' => \A w \in Workers : wpc'[w] = "none"
<1>1. Handlers' = Handlers
  BY DEF poolVars, Handlers, Handling
<1>2. MutualExclusion'
  BY DEF IInv, MutualExclusion, poolVars, Handling
<1>3. GuardsAgree'
  BY <1>1, Zenon DEF IInv, GuardsAgree, poolVars, AllExited
<1>4. UnfinishedExact' /\ IdleEventExact'
  BY <1>1 DEF IInv, UnfinishedExact, IdleEventExact, Quiescent, poolVars
<1>5. (~running /\ ~stopped)' => \A w \in Workers : wpc'[w] = "none"
  BY DEF IInv, Lifecycle, poolVars
<1> QED BY <1>2, <1>3, <1>4, <1>5

LEMMA SubmitStep == ASSUME IInv, NEW p \in Paths, Submit(p) PROVE IInv'
<1>1. MutualExclusion' /\ GuardsAgree' /\ UnfinishedExact' /\ IdleEventExact' /\ Lifecycle'
  BY PoolUntouched DEF Submit, lifeVars, IInv, Lifecycle
<1>2. TypeOK'
  BY MaxSubmitsAssumption DEF Submit, poolVars, lifeVars, IInv, TypeOK
<1>3. DrainDebts'
  BY DEF Submit, poolVars, lifeVars, IInv, DrainDebts, Pending
<1>4. DrainCovers' /\ NoSpin'
  BY DEF Submit, poolVars, lifeVars, IInv, DrainCovers, NoSpin
<1> QED BY <1>1, <1>2, <1>3, <1>4 DEF IInv

LEMMA StartStep == ASSUME IInv, Start PROVE IInv'
<1>1. Handlers = {} /\ Handlers' = {}
  BY DEF Start, IInv, Lifecycle, Handlers, Handling
<1>2. TypeOK'
  BY DEF Start, IInv, TypeOK
<1>3. MutualExclusion'
  BY DEF Start, MutualExclusion, Handling
<1>4. GuardsAgree'
  <2>1. inFlight' = {wpath'[w] : w \in Handlers'}
    BY <1>1, Zenon DEF Start, IInv, GuardsAgree
  <2>2. rerun' \subseteq inFlight'
    BY DEF Start, IInv, GuardsAgree
  <2>3. queued = Range(queue) /\ IsInjective(queue) /\ queued \intersect inFlight = {}
    BY DEF Start, IInv, GuardsAgree
  <2> QED BY <2>1, <2>2, <2>3, Zenon DEF Start, GuardsAgree
<1>5. UnfinishedExact' /\ Lifecycle' /\ IdleEventExact'
  BY <1>1 DEF Start, IInv, UnfinishedExact, Lifecycle, IdleEventExact, Quiescent
<1>6. DrainDebts' /\ DrainCovers' /\ NoSpin'
  BY DEF Start, IInv, DrainDebts, DrainCovers, NoSpin, Pending
<1> QED BY <1>2, <1>3, <1>4, <1>5, <1>6 DEF IInv

(* A debt incurred now satisfies DrainDebts wherever drain() goes next.    *)
LEMMA OwingIsCovered ==
    ASSUME IInv, NEW p \in Paths
    PROVE  /\ Owing \in [Paths -> {"nothing", "aRun", "itsEnd"}]
           /\ Owing[p] = "aRun" => p \in Pending
           /\ (Owing[p] = "aRun" /\ FromDebounce # "debounce") => p \in queued \union rerun
           /\ Owing[p] = "itsEnd" => p \in inFlight
           /\ Quiescent /\ FromDebounce = "done" /\ ~stopped => Owing[p] = "nothing"
<1>1. Owing[p] = IF p \in debouncing \union queued \union rerun THEN "aRun"
                 ELSE IF p \in inFlight THEN "itsEnd" ELSE "nothing"
  BY DEF Owing
<1>2. Owing \in [Paths -> {"nothing", "aRun", "itsEnd"}]
  BY DEF Owing
<1>3. (Owing[p] = "aRun" /\ FromDebounce # "debounce") => p \in queued \union rerun
  BY <1>1, DrainStages DEF FromDebounce
<1>4. ASSUME Quiescent, FromDebounce = "done", ~stopped PROVE Owing[p] = "nothing"
  <2>1. queued = Range(<<>>)
    BY <1>4 DEF IInv, GuardsAgree, Quiescent
  <2>2. queued = {}
    BY <2>1 DEF Range
  <2>3. debouncing = {}
    BY <1>4, DrainStages DEF FromDebounce
  <2> QED BY <1>1, <1>4, <2>2, <2>3 DEF Quiescent
<1> QED BY <1>1, <1>2, <1>3, <1>4 DEF Pending
(* A caller that enters drain(), directly or from stop().                  *)
LEMMA DrainEntered ==
    ASSUME IInv, NEW d \in Drainers,
           dpc' = [dpc EXCEPT ![d] = FromDebounce],
           owed' = [owed EXCEPT ![d] = Owing],
           UNCHANGED <<debouncing, poolVars, stopped>>
    PROVE  /\ dpc' \in [Drainers -> DrainStates]
           /\ owed' \in [Drainers -> [Paths -> {"nothing", "aRun", "itsEnd"}]]
           /\ DrainDebts' /\ DrainCovers' /\ NoSpin'
<1>0. dpc \in [Drainers -> DrainStates]
      /\ owed \in [Drainers -> [Paths -> {"nothing", "aRun", "itsEnd"}]]
  BY DEF IInv, TypeOK
<1>1. dpc' \in [Drainers -> DrainStates] /\ NoSpin'
  BY <1>0, DrainStages DEF IInv, NoSpin
<1>2. owed' \in [Drainers -> [Paths -> {"nothing", "aRun", "itsEnd"}]]
  <2>1. Owing \in [Paths -> {"nothing", "aRun", "itsEnd"}]
    BY DEF Owing
  <2> QED BY <1>0, <2>1
<1>3. DrainDebts'
  <2> SUFFICES ASSUME ~stopped, NEW e \in Drainers, NEW p \in Paths
               PROVE  /\ owed'[e][p] = "aRun" =>
                            p \in IF dpc'[e] \in {"debounce", "debounceWoken"}
                                  THEN Pending ELSE queued \union rerun
                      /\ owed'[e][p] = "itsEnd" => p \in inFlight
    BY DEF DrainDebts, Pending, poolVars
  <2>1. CASE e = d
    <3>1. owed'[e] = Owing /\ dpc'[e] = FromDebounce
      BY <1>0, <2>1
    <3> QED BY <3>1, OwingIsCovered
  <2>2. CASE e # d
    <3>1. owed'[e] = owed[e] /\ dpc'[e] = dpc[e]
      BY <1>0, <2>2
    <3> QED BY <3>1 DEF IInv, DrainDebts
  <2> QED BY <2>1, <2>2
<1>4. DrainCovers'
  <2> SUFFICES ASSUME ~stopped, NEW e \in Drainers, NEW p \in Paths, dpc'[e] = "done"
               PROVE  owed'[e][p] = "nothing"
    BY DEF DrainCovers
  <2>1. CASE e = d
    <3>1. owed'[e] = Owing /\ dpc'[e] = FromDebounce
      BY <1>0, <2>1
    <3>2. Quiescent
      BY <3>1, DrainStages
    <3> QED BY <3>1, <3>2, OwingIsCovered
  <2>2. CASE e # d
    <3>1. owed'[e] = owed[e] /\ dpc'[e] = dpc[e]
      BY <1>0, <2>2
    <3> QED BY <3>1 DEF IInv, DrainCovers
  <2> QED BY <2>1, <2>2
<1> QED BY <1>1, <1>2, <1>3, <1>4

LEMMA DrainCallStep == ASSUME IInv, DrainCall PROVE IInv'
<1>1. "client" \in Drainers
  BY DEF Drainers
<1>2. /\ dpc' \in [Drainers -> DrainStates]
      /\ owed' \in [Drainers -> [Paths -> {"nothing", "aRun", "itsEnd"}]]
      /\ DrainDebts' /\ DrainCovers' /\ NoSpin'
  BY <1>1, DrainEntered DEF DrainCall, lifeVars
<1>3. MutualExclusion' /\ GuardsAgree' /\ UnfinishedExact' /\ IdleEventExact' /\ Lifecycle'
  BY PoolUntouched DEF DrainCall, lifeVars, IInv, Lifecycle
<1>4. TypeOK'
  BY <1>2 DEF DrainCall, poolVars, lifeVars, IInv, TypeOK
<1> QED BY <1>2, <1>3, <1>4 DEF IInv

LEMMA StopDrainingStep == ASSUME IInv, StopDraining PROVE IInv'
<1>1. "stopper" \in Drainers
  BY DEF Drainers
<1>2. /\ dpc' \in [Drainers -> DrainStates]
      /\ owed' \in [Drainers -> [Paths -> {"nothing", "aRun", "itsEnd"}]]
      /\ DrainDebts' /\ DrainCovers' /\ NoSpin'
  BY <1>1, DrainEntered DEF StopDraining
<1>3. MutualExclusion' /\ GuardsAgree' /\ UnfinishedExact' /\ IdleEventExact' /\ Lifecycle'
  BY PoolUntouched DEF StopDraining, IInv, Lifecycle
<1>4. TypeOK'
  BY <1>2 DEF StopDraining, poolVars, IInv, TypeOK
<1> QED BY <1>2, <1>3, <1>4 DEF IInv

LEMMA DrainResumeStep == ASSUME IInv, NEW d \in Drainers, DrainResume(d) PROVE IInv'
<1>0. dpc \in [Drainers -> DrainStates]
  BY DEF IInv, TypeOK
<1>1. PICK next :
          /\ dpc' = [dpc EXCEPT ![d] = next]
          /\ \/ dpc[d] = "debounceWoken" /\ next = FromDebounce
             \/ dpc[d] \in {"joinWoken", "idleWoken"} /\ next \in {FromCheck, FromJoin}
  BY DEF DrainResume
<1>2. dpc' \in [Drainers -> DrainStates] /\ NoSpin'
  BY <1>0, <1>1, DrainStages DEF IInv, NoSpin
<1>3. DrainDebts'
  <2> SUFFICES ASSUME ~stopped, NEW e \in Drainers, NEW p \in Paths
               PROVE  /\ owed[e][p] = "aRun" =>
                            p \in IF dpc'[e] \in {"debounce", "debounceWoken"}
                                  THEN Pending ELSE queued \union rerun
                      /\ owed[e][p] = "itsEnd" => p \in inFlight
    BY DEF DrainDebts, Pending, poolVars, lifeVars, DrainResume
  <2>1. CASE e # d \/ owed[e][p] # "aRun"
    BY <1>0, <1>1, <2>1 DEF IInv, DrainDebts
  <2>2. CASE e = d /\ owed[e][p] = "aRun"
    <3>1. dpc'[e] = next
      BY <1>0, <1>1, <2>2
    <3>2. p \in Pending /\ (dpc[d] # "debounceWoken" => p \in queued \union rerun)
      BY <1>1, <2>2 DEF IInv, DrainDebts, Pending
    <3>3. (dpc[d] = "debounceWoken" /\ next \notin {"debounce", "debounceWoken"})
              => debouncing = {}
      BY <1>1, DrainStages
    <3>4. dpc[d] # "debounceWoken" => next \notin {"debounce", "debounceWoken"}
      BY <1>1, DrainStages
    <3> QED BY <2>2, <3>1, <3>2, <3>3, <3>4 DEF Pending, IInv, DrainDebts
  <2> QED BY <2>1, <2>2
<1>4. DrainCovers'
  <2> SUFFICES ASSUME ~stopped, NEW e \in Drainers, NEW p \in Paths, dpc'[e] = "done"
               PROVE  owed[e][p] = "nothing"
    BY DEF DrainCovers, lifeVars, DrainResume
  <2>1. CASE e # d
    BY <1>0, <1>1, <2>1 DEF IInv, DrainCovers
  <2>2. CASE e = d
    <3>1. next = "done"
      BY <1>0, <1>1, <2>2
    <3>2. Quiescent
      BY <1>1, <3>1, DrainStages
    <3>3. queued = Range(<<>>) /\ Range(<<>>) = {}
      BY <3>2 DEF IInv, GuardsAgree, Quiescent, Range
    <3>4. p \notin queued \union rerun /\ p \notin inFlight
      BY <3>2, <3>3 DEF Quiescent
    <3>5. dpc'[e] = "done"
      BY <2>2
    <3>6. owed[e][p] \in {"nothing", "aRun", "itsEnd"}
      BY DEF IInv, TypeOK
    <3> QED BY <1>3, <3>4, <3>5, <3>6 DEF DrainDebts, DrainResume, poolVars, lifeVars
  <2> QED BY <2>1, <2>2
<1>5. MutualExclusion' /\ GuardsAgree' /\ UnfinishedExact' /\ IdleEventExact' /\ Lifecycle'
  BY PoolUntouched DEF DrainResume, lifeVars, IInv, Lifecycle
<1>6. TypeOK'
  BY <1>2 DEF DrainResume, poolVars, lifeVars, IInv, TypeOK
<1> QED BY <1>2, <1>3, <1>4, <1>5, <1>6 DEF IInv
LEMMA FireStep == ASSUME IInv, NEW p \in Paths, Fire(p) PROVE IInv'
<1> DEFINE Kept == UNCHANGED <<queue, unfinished, queued, rerun, idle>>
           Noted == /\ ~stopped /\ p \in inFlight
                    /\ rerun' = rerun \union {p} /\ idle' = FALSE
                    /\ UNCHANGED <<queue, unfinished, queued>>
           Filed == /\ ~stopped /\ p \notin inFlight /\ p \notin queued
                    /\ queued' = queued \union {p}
                    /\ queue' = Append(queue, p)
                    /\ unfinished' = unfinished + 1
                    /\ idle' = FALSE
                    /\ UNCHANGED rerun
<1>1. /\ p \in debouncing /\ debouncing' = debouncing \ {p}
      /\ dpc' = Woken(debouncing' = {}, FALSE, FALSE)
      /\ UNCHANGED <<inFlight, wpc, wpath, running, stopped, stopPc, submits, owed>>
      /\ Kept \/ Noted \/ Filed
      /\ (Kept /\ ~stopped) => p \in queued \union inFlight
      /\ (Kept /\ ~stopped /\ p \in inFlight) => p \in rerun
  BY Zenon DEF Fire, poolVars, lifeVars
<1>2. Handlers' = Handlers /\ AllExited' = AllExited /\ MutualExclusion' /\ Lifecycle'
  BY <1>1, Zenon DEF Handlers, Handling, AllExited, IInv, MutualExclusion, Lifecycle
<1>3. /\ queue \in Seq(Paths) /\ Len(queue) \in Nat /\ unfinished \in Nat
      /\ dpc \in [Drainers -> DrainStates]
  BY DEF IInv, TypeOK
<1>4w. WokenOnly
  BY <1>1, <1>3, WokenType DEF WokenOnly
<1>4. TypeOK' /\ GuardsAgree' /\ UnfinishedExact' /\ IdleEventExact'
  <2>1. dpc' \in [Drainers -> DrainStates]
    BY <1>4w DEF WokenOnly
  <2>2. CASE Kept
    <3>1. TypeOK'
      BY <1>1, <2>1, <2>2 DEF IInv, TypeOK
    <3>2. GuardsAgree'
      BY <1>1, <1>2, <2>2, Zenon DEF IInv, GuardsAgree
    <3>3. UnfinishedExact' /\ IdleEventExact'
      BY <1>1, <1>2, <2>2 DEF IInv, UnfinishedExact, IdleEventExact, Quiescent
    <3> QED BY <3>1, <3>2, <3>3
  <2>3. CASE Noted
    <3>1. TypeOK'
      BY <1>1, <2>1, <2>3 DEF IInv, TypeOK
    <3>2. GuardsAgree'
      <4>1. rerun' \subseteq inFlight'
        BY <1>1, <2>3 DEF IInv, GuardsAgree
      <4> QED BY <1>1, <1>2, <2>3, <4>1, Zenon DEF IInv, GuardsAgree
    <3>3. UnfinishedExact' /\ IdleEventExact'
      BY <1>1, <1>2, <2>3 DEF IInv, UnfinishedExact, IdleEventExact, Quiescent
    <3> QED BY <3>1, <3>2, <3>3
  <2>4. CASE Filed
    <3>1. /\ queue' \in Seq(Paths) /\ queue' # <<>> /\ Len(queue') = Len(queue) + 1
          /\ Range(queue') = Range(queue) \union {p}
          /\ (IsInjective(queue) /\ p \notin Range(queue)) => IsInjective(queue')
      BY <1>3, <2>4, AppendFresh
    <3>2. TypeOK'
      <4>0. /\ queued' = queued \union {p} /\ unfinished' = unfinished + 1
            /\ idle' = FALSE /\ rerun' = rerun
        BY <2>4
      <4>1. queued \subseteq Paths
        BY DEF IInv, TypeOK
      <4>2. queue' \in Seq(Paths)
        BY <3>1
      <4>3. queued' \subseteq Paths
        BY <4>0, <4>1
      <4>4. unfinished' \in Nat
        BY <1>3, <4>0
      <4> QED BY <1>1, <2>1, <4>0, <4>2, <4>3, <4>4 DEF IInv, TypeOK
    <3>3. queued = Range(queue) /\ IsInjective(queue) /\ queued \intersect inFlight = {}
      BY <2>4 DEF IInv, GuardsAgree
    <3>4. queued' = Range(queue') /\ IsInjective(queue') /\ queued' \intersect inFlight' = {}
      BY <1>1, <2>4, <3>1, <3>3
    <3>5. GuardsAgree'
      BY <1>1, <1>2, <2>4, <3>4, Zenon DEF IInv, GuardsAgree
    <3>6. UnfinishedExact' /\ IdleEventExact'
      BY <1>1, <1>2, <1>3, <2>4, <3>1, HandlersFinite
         DEF IInv, UnfinishedExact, IdleEventExact, Quiescent
    <3> QED BY <3>2, <3>5, <3>6
  <2> QED BY <1>1, <2>2, <2>3, <2>4
<1>5. DrainDebts'
  <2>1. ~stopped => Pending' = Pending /\ queued \union rerun \subseteq queued' \union rerun'
    BY <1>1 DEF Pending
  <2> QED BY <1>1, <1>4w, <2>1 DEF IInv, DrainDebts, WokenOnly
<1>6. DrainCovers' /\ NoSpin'
  BY <1>1, <1>4w DEF IInv, DrainCovers, NoSpin, WokenOnly
<1> QED BY <1>2, <1>4, <1>5, <1>6 DEF IInv
(* A run that begins, or ends, moves the debts of its path and no other.   *)
Debts == [Drainers -> [Paths -> {"nothing", "aRun", "itsEnd"}]]

LEMMA BeganDebts ==
    ASSUME NEW debts \in Debts, NEW p \in Paths
    PROVE  /\ Began(debts, p) \in Debts
           /\ \A d \in Drainers, q \in Paths :
                 Began(debts, p)[d][q] = IF q = p /\ debts[d][q] = "aRun"
                                         THEN "itsEnd" ELSE debts[d][q]
<1>1. \A d \in Drainers : debts[d] \in [Paths -> {"nothing", "aRun", "itsEnd"}]
  BY DEF Debts
<1> QED BY <1>1 DEF Began, Debts

LEMMA EndedDebts ==
    ASSUME NEW debts \in Debts, NEW p \in Paths
    PROVE  /\ Ended(debts, p) \in Debts
           /\ \A d \in Drainers, q \in Paths :
                 Ended(debts, p)[d][q] = IF q = p /\ debts[d][q] = "itsEnd"
                                         THEN "nothing" ELSE debts[d][q]
<1>1. \A d \in Drainers : debts[d] \in [Paths -> {"nothing", "aRun", "itsEnd"}]
  BY DEF Debts
<1> QED BY <1>1 DEF Ended, Debts

LEMMA TakeStep == ASSUME IInv, NEW w \in Workers, Take(w) PROVE IInv'
<1> DEFINE p == Head(queue)
<1>1. /\ wpc[w] = "waiting" /\ ~stopped /\ queue # <<>>
      /\ queue' = Tail(queue)
      /\ queued' = queued \ {p}
      /\ inFlight' = inFlight \union {p}
      /\ wpath' = [wpath EXCEPT ![w] = p]
      /\ owed' = Began(owed, p)
      /\ wpc' = [wpc EXCEPT ![w] = "handling"]
      /\ idle' = FALSE
      /\ UNCHANGED <<debouncing, unfinished, rerun, running, stopped, stopPc, dpc, submits>>
  BY DEF Take, lifeVars
<1>2. /\ queue \in Seq(Paths) /\ Len(queue) \in Nat /\ owed \in Debts
      /\ wpc \in [Workers -> {"none", "waiting", "handling", "exited"}]
      /\ wpath \in [Workers -> Paths \union {NoPath}]
      /\ queued \subseteq Paths /\ inFlight \subseteq Paths
  BY DEF IInv, TypeOK, Debts
<1>3. queued = Range(queue) /\ IsInjective(queue) /\ queued \intersect inFlight = {}
  BY <1>1 DEF IInv, GuardsAgree
<1>4. /\ p \in Paths /\ p \in Range(queue) /\ Tail(queue) \in Seq(Paths)
      /\ Len(Tail(queue)) = Len(queue) - 1
      /\ Range(Tail(queue)) = Range(queue) \ {p} /\ IsInjective(Tail(queue))
  BY <1>1, <1>2, <1>3, TailFresh
<1> HIDE DEF p
<1>5. p \in queued /\ p \notin inFlight
  BY <1>3, <1>4
<1>6. w \notin Handlers /\ Handlers' = Handlers \union {w}
  BY <1>1, <1>2 DEF Handlers, Handling
<1>7. /\ \A v \in Handlers : wpath'[v] = wpath[v] /\ wpath[v] # p
      /\ wpath'[w] = p
  BY <1>1, <1>2, <1>5, <1>6, HandlersFinite DEF Handlers
<1>8. TypeOK'
  <2>1. queue' \in Seq(Paths)
    BY <1>1, <1>4
  <2>2. queued' \subseteq Paths /\ inFlight' \subseteq Paths
    BY <1>1, <1>2, <1>4
  <2>3. /\ wpc' \in [Workers -> {"none", "waiting", "handling", "exited"}]
        /\ wpath' \in [Workers -> Paths \union {NoPath}]
    BY <1>1, <1>2, <1>4
  <2>4. owed' \in Debts
    BY <1>1, <1>2, <1>4, BeganDebts
  <2> QED BY <1>1, <2>1, <2>2, <2>3, <2>4 DEF IInv, TypeOK, Debts
<1>9. MutualExclusion'
  <2>1. \A u, v \in Handlers : wpath[u] = wpath[v] => u = v
    BY DEF IInv, MutualExclusion, Handlers
  <2>2. \A u, v \in Handlers' : wpath'[u] = wpath'[v] => u = v
    BY <1>6, <1>7, <2>1
  <2> QED BY <2>2 DEF MutualExclusion, Handlers
<1>10. GuardsAgree'
  <2>1. inFlight = {wpath[v] : v \in Handlers}
    BY DEF IInv, GuardsAgree
  <2>2. inFlight' = {wpath'[v] : v \in Handlers'}
    BY <1>1, <1>6, <1>7, <2>1
  <2>3. rerun' \subseteq inFlight'
    BY <1>1 DEF IInv, GuardsAgree
  <2>4. queued' = Range(queue') /\ IsInjective(queue') /\ queued' \intersect inFlight' = {}
    BY <1>1, <1>3, <1>4
  <2> QED BY <2>2, <2>3, <2>4, Zenon DEF GuardsAgree
<1>11. UnfinishedExact'
  <2>1. Cardinality(Handlers') = Cardinality(Handlers) + 1
    BY <1>6, HandlersFinite, FS_AddElement
  <2> QED BY <1>1, <1>2, <1>4, <2>1, HandlersFinite DEF IInv, UnfinishedExact
<1>12. Lifecycle'
  BY <1>1 DEF IInv, Lifecycle
<1>13. IdleEventExact'
  <2>1. inFlight' # {}
    BY <1>1
  <2> QED BY <1>1, <2>1 DEF IdleEventExact, Quiescent
<1>14. DrainDebts'
  <2> SUFFICES ASSUME NEW d \in Drainers, NEW q \in Paths
               PROVE  /\ owed'[d][q] = "aRun" =>
                            q \in IF dpc[d] \in {"debounce", "debounceWoken"}
                                  THEN Pending' ELSE queued' \union rerun
                      /\ owed'[d][q] = "itsEnd" => q \in inFlight'
    BY <1>1 DEF DrainDebts
  <2>1. owed'[d][q] = IF q = p /\ owed[d][q] = "aRun" THEN "itsEnd" ELSE owed[d][q]
    BY <1>1, <1>2, <1>4, BeganDebts
  <2>2. /\ owed[d][q] = "aRun" =>
              q \in IF dpc[d] \in {"debounce", "debounceWoken"}
                    THEN Pending ELSE queued \union rerun
        /\ owed[d][q] = "itsEnd" => q \in inFlight
    BY <1>1 DEF IInv, DrainDebts
  <2> QED BY <1>1, <2>1, <2>2 DEF Pending
<1>15. DrainCovers' /\ NoSpin'
  <2>1. ASSUME NEW d \in Drainers, NEW q \in Paths, owed[d][q] = "nothing"
        PROVE  owed'[d][q] = "nothing"
    <3>1. owed'[d][q] = IF q = p /\ owed[d][q] = "aRun" THEN "itsEnd" ELSE owed[d][q]
      BY <1>1, <1>2, <1>4, BeganDebts
    <3> QED BY <2>1, <3>1
  <2> QED BY <1>1, <2>1 DEF IInv, DrainCovers, NoSpin
<1> QED BY <1>8, <1>9, <1>10, <1>11, <1>12, <1>13, <1>14, <1>15 DEF IInv
LEMMA FinishStep == ASSUME IInv, NEW w \in Workers, Finish(w) PROVE IInv'
<1> DEFINE p == wpath[w]
           again == p \in rerun
           queueNow == IF again THEN Append(queue, p) ELSE queue
           queuedNow == IF again THEN queued \union {p} ELSE queued
           inFlightNow == inFlight \ {p}
           rerunNow == rerun \ {p}
           settled == inFlightNow = {} /\ rerunNow = {} /\ queueNow = <<>>
           others == Handlers \ {w}
           Rests == /\ queueNow = <<>>
                    /\ queue' = queueNow
                    /\ queued' = queuedNow
                    /\ inFlight' = inFlightNow
                    /\ idle' = (settled \/ idle)
                    /\ wpc' = [wpc EXCEPT ![w] = "waiting"]
                    /\ wpath' = [wpath EXCEPT ![w] = NoPath]
                    /\ owed' = Ended(owed, p)
           Goes == LET q == Head(queueNow)
                   IN  /\ queueNow # <<>>
                       /\ queue' = Tail(queueNow)
                       /\ queued' = queuedNow \ {q}
                       /\ inFlight' = inFlightNow \union {q}
                       /\ wpath' = [wpath EXCEPT ![w] = q]
                       /\ owed' = Began(Ended(owed, p), q)
                       /\ idle' = FALSE
                       /\ wpc' = wpc
<1>1. /\ wpc[w] = "handling" /\ ~stopped
      /\ unfinished' = IF again THEN unfinished ELSE unfinished - 1
      /\ rerun' = rerunNow
      /\ dpc' = Woken(FALSE, unfinished = 1, settled)
      /\ UNCHANGED <<debouncing, running, stopped, stopPc, submits>>
  BY DEF Finish, lifeVars
<1>2. Rests \/ Goes
  BY DEF Finish
<1>3. /\ queue \in Seq(Paths) /\ Len(queue) \in Nat /\ owed \in Debts /\ unfinished \in Nat
      /\ wpc \in [Workers -> {"none", "waiting", "handling", "exited"}]
      /\ wpath \in [Workers -> Paths \union {NoPath}]
      /\ queued \subseteq Paths /\ inFlight \subseteq Paths
      /\ dpc \in [Drainers -> DrainStates]
  BY DEF IInv, TypeOK, Debts
<1>4. WokenOnly
  BY <1>1, <1>3, WokenType
<1>5. w \in Handlers /\ p \in inFlight /\ p \in Paths
  BY <1>1, HandlersFinite DEF Handlers, Handling
<1>6. /\ queued = Range(queue) /\ IsInjective(queue) /\ queued \intersect inFlight = {}
      /\ rerun \subseteq inFlight
  BY <1>1 DEF IInv, GuardsAgree
<1>7. /\ {wpath[v] : v \in others} = inFlightNow
      /\ unfinished >= 1
      /\ Cardinality(others) \in Nat
      /\ unfinished - 1 = Len(queue) + Cardinality(others)
  BY <1>5, HandlerLeaves
<1>8. /\ queueNow \in Seq(Paths)
      /\ queuedNow = Range(queueNow) /\ IsInjective(queueNow)
      /\ queuedNow \intersect inFlightNow = {}
      /\ Len(queueNow) = IF again THEN Len(queue) + 1 ELSE Len(queue)
  <2>1. p \notin Range(queue)
    BY <1>5, <1>6
  <2>2. CASE again
    BY <1>3, <1>5, <1>6, <2>1, <2>2, AppendFresh
  <2>3. CASE ~again
    BY <1>3, <1>6, <2>3
  <2> QED BY <2>2, <2>3
<1>9. unfinished' \in Nat /\ unfinished' = Len(queueNow) + Cardinality(others)
  BY <1>1, <1>3, <1>7, <1>8
<1>10. rerunNow \subseteq inFlightNow /\ queuedNow \subseteq Paths
  BY <1>3, <1>5, <1>6
<1>11. \A v \in others : wpath[v] # p
  BY <1>5 DEF IInv, MutualExclusion, Handlers
<1>12. /\ Ended(owed, p) \in Debts
       /\ \A d \in Drainers, q \in Paths :
             /\ Ended(owed, p)[d][q] = "aRun" =>
                   q \in IF dpc[d] \in {"debounce", "debounceWoken"}
                         THEN debouncing \union queuedNow \union rerunNow
                         ELSE queuedNow \union rerunNow
             /\ Ended(owed, p)[d][q] = "itsEnd" => q \in inFlightNow
             /\ owed[d][q] = "nothing" => Ended(owed, p)[d][q] = "nothing"
  <2>1. Ended(owed, p) \in Debts
    BY <1>3, <1>5, EndedDebts
  <2>2. ASSUME NEW d \in Drainers, NEW q \in Paths
        PROVE  /\ Ended(owed, p)[d][q] = "aRun" =>
                     q \in IF dpc[d] \in {"debounce", "debounceWoken"}
                           THEN debouncing \union queuedNow \union rerunNow
                           ELSE queuedNow \union rerunNow
               /\ Ended(owed, p)[d][q] = "itsEnd" => q \in inFlightNow
               /\ owed[d][q] = "nothing" => Ended(owed, p)[d][q] = "nothing"
    <3>1. Ended(owed, p)[d][q] = IF q = p /\ owed[d][q] = "itsEnd" THEN "nothing" ELSE owed[d][q]
      BY <1>3, <1>5, EndedDebts
    <3>2. /\ owed[d][q] = "aRun" =>
                q \in IF dpc[d] \in {"debounce", "debounceWoken"}
                      THEN debouncing \union queued \union rerun ELSE queued \union rerun
          /\ owed[d][q] = "itsEnd" => q \in inFlight
      BY <1>1 DEF IInv, DrainDebts, Pending
    <3>3. queued \union rerun \subseteq queuedNow \union rerunNow
      OBVIOUS
    <3> QED BY <3>1, <3>2, <3>3
  <2> QED BY <2>1, <2>2
<1>13. ~idle
  BY <1>1, <1>5 DEF IInv, IdleEventExact, Quiescent
<1>14. NoSpin' /\ Lifecycle'
  BY <1>1, <1>4 DEF WokenOnly, IInv, NoSpin, Lifecycle
<1> HIDE DEF p, again, queueNow, queuedNow, inFlightNow, rerunNow, others
<1>15. \A u, v \in others : wpath[u] = wpath[v] => u = v
  BY DEF IInv, MutualExclusion, Handlers, others
<1>16. others \subseteq Workers /\ w \notin others
  BY DEF others, Handlers
<1>17. CASE Rests
  <2>1. Handlers' = others
    BY <1>3, <1>5, <1>17 DEF others, Handlers, Handling
  <2>2. \A v \in others : wpath'[v] = wpath[v]
    BY <1>3, <1>16, <1>17
  <2>3. TypeOK'
    <3>1. queue' \in Seq(Paths) /\ owed' \in Debts
      BY <1>8, <1>12, <1>17
    <3>2. queued' \subseteq Paths /\ inFlight' \subseteq Paths /\ rerun' \subseteq Paths
      BY <1>1, <1>3, <1>10, <1>17 DEF inFlightNow
    <3>3. /\ wpc' \in [Workers -> {"none", "waiting", "handling", "exited"}]
          /\ wpath' \in [Workers -> Paths \union {NoPath}]
          /\ idle' \in BOOLEAN
      BY <1>3, <1>13, <1>17
    <3> QED BY <1>1, <1>4, <1>9, <3>1, <3>2, <3>3 DEF IInv, TypeOK, WokenOnly, Debts
  <2>4. MutualExclusion'
    <3>1. \A u, v \in Handlers' : wpath'[u] = wpath'[v] => u = v
      BY <1>15, <2>1, <2>2
    <3> QED BY <3>1 DEF MutualExclusion, Handlers
  <2>5. GuardsAgree'
    <3>1. inFlight' = {wpath'[v] : v \in Handlers'}
      BY <1>7, <1>17, <2>1, <2>2
    <3>2. queued' = Range(queue') /\ IsInjective(queue') /\ queued' \intersect inFlight' = {}
      BY <1>8, <1>17
    <3>3. rerun' \subseteq inFlight'
      BY <1>1, <1>10, <1>17
    <3> QED BY <3>1, <3>2, <3>3, Zenon DEF GuardsAgree
  <2>6. UnfinishedExact'
    BY <1>9, <1>17, <2>1 DEF UnfinishedExact
  <2>7. IdleEventExact'
    BY <1>1, <1>13, <1>17 DEF IdleEventExact, Quiescent
  <2>8. DrainDebts'
    BY <1>1, <1>4, <1>12, <1>17 DEF DrainDebts, Pending, WokenOnly
  <2>9. DrainCovers'
    BY <1>1, <1>4, <1>12, <1>17 DEF IInv, DrainCovers, WokenOnly
  <2> QED BY <1>14, <2>3, <2>4, <2>5, <2>6, <2>7, <2>8, <2>9 DEF IInv
<1>18. CASE Goes
  <2> DEFINE q == Head(queueNow)
             ended == Ended(owed, p)
  <2>1. /\ q \in Paths /\ q \in Range(queueNow) /\ Tail(queueNow) \in Seq(Paths)
        /\ Len(Tail(queueNow)) = Len(queueNow) - 1
        /\ Range(Tail(queueNow)) = Range(queueNow) \ {q} /\ IsInjective(Tail(queueNow))
    BY <1>8, <1>18, TailFresh
  <2>2. /\ queue' = Tail(queueNow) /\ queued' = queuedNow \ {q}
        /\ inFlight' = inFlightNow \union {q}
        /\ wpath' = [wpath EXCEPT ![w] = q]
        /\ owed' = Began(ended, q)
        /\ idle' = FALSE /\ wpc' = wpc
    BY <1>18
  <2> HIDE DEF q, ended
  <2>3. Handlers' = others \union {w}
    BY <1>5, <2>2 DEF others, Handlers, Handling
  <2>4. (\A v \in others : wpath'[v] = wpath[v]) /\ wpath'[w] = q
    BY <1>3, <1>16, <2>2
  <2>5. q \in queuedNow /\ q \notin inFlightNow
    BY <1>8, <2>1
  <2>6. TypeOK'
    <3>1. queue' \in Seq(Paths)
      BY <2>1, <2>2
    <3>2. owed' \in Debts
      BY <1>12, <2>1, <2>2, BeganDebts DEF ended
    <3>3. queued' \subseteq Paths /\ inFlight' \subseteq Paths /\ rerun' \subseteq Paths
      BY <1>1, <1>3, <1>10, <2>1, <2>2 DEF inFlightNow
    <3>4. wpath' \in [Workers -> Paths \union {NoPath}]
      BY <1>3, <2>1, <2>2
    <3> QED BY <1>1, <1>3, <1>4, <1>9, <2>2, <3>1, <3>2, <3>3, <3>4
            DEF IInv, TypeOK, WokenOnly, Debts
  <2>7. MutualExclusion'
    <3>1. \A v \in others : wpath[v] # q
      BY <1>7, <2>5
    <3>2. \A u, v \in Handlers' : wpath'[u] = wpath'[v] => u = v
      BY <1>15, <2>3, <2>4, <3>1
    <3> QED BY <3>2 DEF MutualExclusion, Handlers
  <2>8. GuardsAgree'
    <3>1. inFlight' = {wpath'[v] : v \in Handlers'}
      BY <1>7, <2>2, <2>3, <2>4
    <3>2. queued' = Range(queue') /\ IsInjective(queue') /\ queued' \intersect inFlight' = {}
      BY <1>8, <2>1, <2>2
    <3>3. rerun' \subseteq inFlight'
      BY <1>1, <1>10, <2>2
    <3> QED BY <3>1, <3>2, <3>3, Zenon DEF GuardsAgree
  <2>9. UnfinishedExact'
    <3>1. IsFiniteSet(others)
      BY HandlersFinite, FS_RemoveElement DEF others
    <3>2. Cardinality(Handlers') = Cardinality(others) + 1
      BY <1>16, <2>3, <3>1, FS_AddElement
    <3>3. Len(queueNow) \in Nat
      BY <1>8
    <3> QED BY <1>7, <1>9, <2>1, <2>2, <3>2, <3>3 DEF UnfinishedExact
  <2>10. IdleEventExact'
    <3>1. inFlight' # {}
      BY <2>2
    <3> QED BY <2>2, <3>1 DEF IdleEventExact, Quiescent
  <2>11. ASSUME NEW d \in Drainers, NEW r \in Paths
         PROVE  /\ owed'[d][r] = "aRun" =>
                      r \in IF dpc'[d] \in {"debounce", "debounceWoken"}
                            THEN Pending' ELSE queued' \union rerun'
                /\ owed'[d][r] = "itsEnd" => r \in inFlight'
                /\ owed[d][r] = "nothing" => owed'[d][r] = "nothing"
    <3>1. owed'[d][r] = IF r = q /\ ended[d][r] = "aRun" THEN "itsEnd" ELSE ended[d][r]
      BY <1>12, <2>1, <2>2, BeganDebts DEF ended
    <3>2. /\ ended[d][r] = "aRun" =>
                r \in IF dpc[d] \in {"debounce", "debounceWoken"}
                      THEN debouncing \union queuedNow \union rerunNow
                      ELSE queuedNow \union rerunNow
          /\ ended[d][r] = "itsEnd" => r \in inFlightNow
          /\ owed[d][r] = "nothing" => ended[d][r] = "nothing"
      BY <1>12 DEF ended
    <3>3. dpc'[d] \in {"debounce", "debounceWoken"} <=> dpc[d] \in {"debounce", "debounceWoken"}
      BY <1>4 DEF WokenOnly
    <3> QED BY <1>1, <2>2, <3>1, <3>2, <3>3 DEF Pending
  <2>12. DrainDebts' /\ DrainCovers'
    BY <1>1, <1>4, <2>11 DEF IInv, DrainDebts, DrainCovers, WokenOnly
  <2> QED BY <1>14, <2>6, <2>7, <2>8, <2>9, <2>10, <2>12 DEF IInv
<1> QED BY <1>2, <1>17, <1>18
(* Once stop() has raised its flag, only the bookkeeping of the pool is    *)
(* left to preserve.                                                       *)
LEMMA StoppedSuffices ==
    ASSUME stopped'
    PROVE  IdleEventExact' /\ DrainDebts' /\ DrainCovers'
BY DEF IdleEventExact, DrainDebts, DrainCovers

LEMMA InterruptStep == ASSUME IInv, NEW w \in Workers, Interrupt(w) PROVE IInv'
<1> DEFINE p == wpath[w]
           others == Handlers \ {w}
           Idles == /\ wpc[w] = "waiting"
                    /\ UNCHANGED <<unfinished, inFlight, rerun, wpath, idle, dpc>>
           Works == LET settled == inFlight \ {p} = {} /\ rerun \ {p} = {} /\ queue = <<>>
                    IN  /\ wpc[w] = "handling"
                        /\ inFlight' = inFlight \ {p}
                        /\ unfinished' = unfinished - 1
                        /\ rerun' = rerun \ {p}
                        /\ idle' = (settled \/ idle)
                        /\ dpc' = Woken(FALSE, unfinished = 1, settled)
                        /\ wpath' = [wpath EXCEPT ![w] = NoPath]
<1>1. /\ stopPc = "gather"
      /\ Idles \/ Works
      /\ wpc' = [wpc EXCEPT ![w] = "exited"]
      /\ UNCHANGED <<debouncing, queue, queued, running, stopped, stopPc, submits, owed>>
  BY DEF Interrupt, lifeVars
<1>2. stopped /\ stopped' /\ ~AllExited
  <2>1. wpc[w] \in {"waiting", "handling"}
    BY <1>1
  <2>2. ~AllExited
    BY <2>1 DEF AllExited
  <2>3. stopped /\ stopped' = stopped
    BY <1>1 DEF IInv, Lifecycle
  <2> QED BY <2>2, <2>3
<1>3. /\ queued = Range(queue) /\ IsInjective(queue) /\ queued \intersect inFlight = {}
      /\ rerun \subseteq inFlight /\ inFlight = {wpath[v] : v \in Handlers}
  BY <1>2 DEF IInv, GuardsAgree
<1>4. /\ wpc \in [Workers -> {"none", "waiting", "handling", "exited"}]
      /\ wpath \in [Workers -> Paths \union {NoPath}]
      /\ inFlight \subseteq Paths /\ rerun \subseteq Paths
      /\ dpc \in [Drainers -> DrainStates]
      /\ idle \in BOOLEAN /\ unfinished \in Nat
  BY DEF IInv, TypeOK
<1>5. wpc' \in [Workers -> {"none", "waiting", "handling", "exited"}]
  BY <1>1, <1>4
<1>6. Lifecycle' /\ IdleEventExact' /\ DrainDebts' /\ DrainCovers'
  BY <1>1, <1>2, StoppedSuffices DEF IInv, Lifecycle
<1>7. \A u, v \in Handlers : wpath[u] = wpath[v] => u = v
  BY DEF IInv, MutualExclusion, Handlers
<1>8. Handlers' = others
  BY <1>1, <1>4 DEF Handlers, Handling
<1>9. CASE Idles
  <2>1. Handlers' = Handlers
    BY <1>8, <1>9 DEF Handlers, Handling
  <2>2. TypeOK' /\ NoSpin'
    BY <1>1, <1>5, <1>9 DEF IInv, TypeOK, NoSpin
  <2>3. MutualExclusion'
    <3>1. \A u, v \in Handlers' : wpath'[u] = wpath'[v] => u = v
      BY <1>7, <1>9, <2>1
    <3> QED BY <3>1 DEF MutualExclusion, Handlers
  <2>4. GuardsAgree'
    <3>1. inFlight' = {wpath'[v] : v \in Handlers'}
      BY <1>3, <1>9, <2>1
    <3>2. queued' = queued /\ queue' = queue /\ rerun' = rerun /\ inFlight' = inFlight
      BY <1>1, <1>9
    <3> QED BY <1>3, <3>1, <3>2, Zenon DEF GuardsAgree
  <2>5. UnfinishedExact'
    BY <1>1, <1>9, <2>1 DEF IInv, UnfinishedExact
  <2> QED BY <1>6, <2>2, <2>3, <2>4, <2>5 DEF IInv
<1>10. CASE Works
  <2>1. w \in Handlers
    BY <1>10 DEF Handlers, Handling
  <2>2. /\ {wpath[v] : v \in others} = inFlight \ {p}
        /\ unfinished >= 1
        /\ unfinished - 1 = Len(queue) + Cardinality(others)
    BY <2>1, HandlerLeaves
  <2>3. \A v \in others : wpath'[v] = wpath[v]
    BY <1>4, <1>10 DEF Handlers
  <2>4. WokenOnly
    BY <1>4, <1>10, WokenType
  <2>5. TypeOK'
    <3>1. unfinished' \in Nat /\ inFlight' \subseteq Paths /\ rerun' \subseteq Paths
      BY <1>4, <1>10, <2>2
    <3>2. wpath' \in [Workers -> Paths \union {NoPath}] /\ idle' \in BOOLEAN
      BY <1>4, <1>10
    <3> QED BY <1>1, <1>5, <2>4, <3>1, <3>2 DEF IInv, TypeOK, WokenOnly
  <2>6. NoSpin'
    BY <2>4 DEF WokenOnly, IInv, NoSpin
  <2>7. MutualExclusion'
    <3>1. \A u, v \in Handlers' : wpath'[u] = wpath'[v] => u = v
      BY <1>7, <1>8, <2>3
    <3> QED BY <3>1 DEF MutualExclusion, Handlers
  <2>8. GuardsAgree'
    <3>1. inFlight' = {wpath'[v] : v \in Handlers'}
      BY <1>8, <1>10, <2>2, <2>3
    <3>2. queued' = queued /\ queue' = queue
      BY <1>1
    <3>3. rerun' \subseteq inFlight' /\ queued' \intersect inFlight' = {}
      BY <1>3, <1>10, <3>2
    <3> QED BY <1>3, <3>1, <3>2, <3>3, Zenon DEF GuardsAgree
  <2>9. UnfinishedExact'
    BY <1>1, <1>8, <1>10, <2>2 DEF UnfinishedExact
  <2> QED BY <1>6, <2>5, <2>6, <2>7, <2>8, <2>9 DEF IInv
<1> QED BY <1>1, <1>9, <1>10

(* Clearing the sets is safe when every worker has exited.                 *)
LEMMA ClearedGuards ==
    ASSUME IInv, AllExited, stopped',
           inFlight' = {}, rerun' = {}, UNCHANGED <<queue, unfinished, wpc, wpath>>
    PROVE  MutualExclusion' /\ GuardsAgree' /\ UnfinishedExact'
<1>1. Handlers = {} /\ Handlers' = {} /\ AllExited'
  BY DEF AllExited, Handlers, Handling
<1>2. MutualExclusion'
  BY DEF IInv, MutualExclusion, Handling
<1>3. GuardsAgree'
  <2>1. inFlight' = {wpath'[v] : v \in Handlers'}
    BY <1>1
  <2> QED BY <1>1, <2>1, Zenon DEF GuardsAgree
<1>4. UnfinishedExact'
  BY <1>1 DEF IInv, UnfinishedExact
<1> QED BY <1>2, <1>3, <1>4

LEMMA ShutdownStep == ASSUME IInv, Shutdown PROVE IInv'
<1>1. /\ stopped' = TRUE /\ running' = FALSE /\ debouncing' = {}
      /\ dpc' = [Woken(TRUE, FALSE, AllExited) EXCEPT !["stopper"] = "off"]
      /\ UNCHANGED <<queue, unfinished, wpc, wpath, submits, owed>>
      /\ stopPc' \in {"gather", "done"}
  BY DEF Shutdown
<1>2. dpc' \in [Drainers -> DrainStates] /\ NoSpin'
  <2>1. /\ Woken(TRUE, FALSE, AllExited) \in [Drainers -> DrainStates]
        /\ \A d \in Drainers : Woken(TRUE, FALSE, AllExited)[d] # "spin"
    BY DEF IInv, TypeOK, NoSpin, Woken, DrainStates, DrainWaits, DrainWoken
  <2> QED BY <1>1, <2>1 DEF NoSpin, DrainStates
<1>3. Lifecycle' /\ IdleEventExact' /\ DrainDebts' /\ DrainCovers'
  BY <1>1, StoppedSuffices DEF Lifecycle
<1>4. CASE AllExited
  <2>1. inFlight' = {} /\ queued' = {} /\ rerun' = {} /\ idle' = TRUE
    BY <1>4 DEF Shutdown
  <2>2. TypeOK'
    BY <1>1, <1>2, <2>1 DEF IInv, TypeOK
  <2>3. MutualExclusion' /\ GuardsAgree' /\ UnfinishedExact'
    BY <1>1, <1>4, <2>1, ClearedGuards
  <2> QED BY <1>2, <1>3, <2>2, <2>3 DEF IInv
<1>5. CASE ~AllExited
  <2>1. UNCHANGED <<inFlight, queued, rerun, idle>>
    BY <1>5 DEF Shutdown
  <2>2. TypeOK'
    BY <1>1, <1>2, <2>1 DEF IInv, TypeOK
  <2>3. Handlers' = Handlers /\ MutualExclusion'
    BY <1>1 DEF IInv, MutualExclusion, Handlers, Handling
  <2>4. GuardsAgree'
    <3>1. /\ queued = Range(queue) /\ IsInjective(queue) /\ queued \intersect inFlight = {}
          /\ rerun \subseteq inFlight /\ inFlight = {wpath[v] : v \in Handlers}
      BY <1>5 DEF IInv, GuardsAgree
    <3> QED BY <1>1, <2>1, <2>3, <3>1, Zenon DEF GuardsAgree
  <2>5. UnfinishedExact'
    BY <1>1, <2>3 DEF IInv, UnfinishedExact
  <2> QED BY <1>2, <1>3, <2>2, <2>3, <2>4, <2>5 DEF IInv
<1> QED BY <1>4, <1>5

LEMMA StopFinishStep == ASSUME IInv, StopFinish PROVE IInv'
<1>1. stopped /\ stopped'
  BY DEF StopFinish, IInv, Lifecycle
<1>2. MutualExclusion' /\ GuardsAgree' /\ UnfinishedExact'
  BY <1>1, ClearedGuards DEF StopFinish
<1>3. Lifecycle' /\ IdleEventExact' /\ DrainDebts' /\ DrainCovers'
  BY <1>1, StoppedSuffices DEF StopFinish, IInv, Lifecycle
<1>4. WokenOnly
  BY WokenType DEF StopFinish, IInv, TypeOK
<1>5. TypeOK' /\ NoSpin'
  BY <1>4 DEF StopFinish, IInv, TypeOK, NoSpin, WokenOnly
<1> QED BY <1>2, <1>3, <1>5 DEF IInv

-----------------------------------------------------------------------------
(* Every step preserves the invariant. *)
LEMMA NextInv == IInv /\ [Next]_vars => IInv'
<1> SUFFICES ASSUME IInv, [Next]_vars PROVE IInv'
  OBVIOUS
<1>1. ASSUME NEW p \in Paths, Submit(p) PROVE IInv'
  BY <1>1, SubmitStep
<1>2. ASSUME NEW p \in Paths, Fire(p) PROVE IInv'
  BY <1>2, FireStep
<1>3. CASE Start
  BY <1>3, StartStep
<1>4. ASSUME NEW w \in Workers, Take(w) PROVE IInv'
  BY <1>4, TakeStep
<1>5. ASSUME NEW w \in Workers, Finish(w) PROVE IInv'
  BY <1>5, FinishStep
<1>6. ASSUME NEW w \in Workers, Interrupt(w) PROVE IInv'
  BY <1>6, InterruptStep
<1>7. CASE DrainCall
  BY <1>7, DrainCallStep
<1>8. ASSUME NEW d \in Drainers, DrainResume(d) PROVE IInv'
  BY <1>8, DrainResumeStep
<1>9. CASE StopNow \/ StopDrained \/ StopTimeout
  BY <1>9, ShutdownStep DEF StopNow, StopDrained, StopTimeout
<1>10. CASE StopDraining
  BY <1>10, StopDrainingStep
<1>11. CASE StopFinish
  BY <1>11, StopFinishStep
<1>12. CASE UNCHANGED vars
  <2>1. /\ UNCHANGED <<debouncing, queue, unfinished, queued, inFlight, rerun, wpc, wpath>>
        /\ UNCHANGED <<idle, running, stopped, stopPc, dpc, submits, owed>>
    BY <1>12 DEF vars, poolVars, lifeVars
  <2>2. MutualExclusion' /\ GuardsAgree' /\ UnfinishedExact' /\ IdleEventExact'
    BY <2>1, PoolUntouched DEF poolVars
  <2>3. TypeOK' /\ Lifecycle' /\ DrainDebts' /\ DrainCovers' /\ NoSpin'
    BY <2>1 DEF IInv, TypeOK, Lifecycle, DrainDebts, DrainCovers, NoSpin, Pending
  <2> QED BY <2>2, <2>3 DEF IInv
<1> QED BY <1>1, <1>2, <1>3, <1>4, <1>5, <1>6, <1>7, <1>8, <1>9, <1>10, <1>11, <1>12 DEF Next

(* The inductive invariant holds of every behaviour.                       *)
THEOREM Invariance == Spec => []IInv
BY InitInv, NextInv, PTL DEF Spec

(* No two workers ever handle the same path (job_queue.py, Guarantees).    *)
THEOREM PathsAreExclusive == Spec => []MutualExclusion
<1>1. IInv => MutualExclusion
  BY DEF IInv
<1> QED BY <1>1, Invariance, PTL

(* The types; in particular task_done() is never called too often.         *)
THEOREM TypeCorrect == Spec => []TypeOK
<1>1. IInv => TypeOK
  BY DEF IInv
<1> QED BY <1>1, Invariance, PTL

(* The queue, the guard sets, the count, the event and the workers agree.  *)
THEOREM BookkeepingIsExact == Spec => []BookkeepingExact
<1>1. IInv => BookkeepingExact
  BY DEF IInv, BookkeepingExact
<1> QED BY <1>1, Invariance, PTL

(* drain() never returns early, and never spins.                           *)
THEOREM DrainIsSound == Spec => [](DrainCovers /\ NoSpin)
<1>1. IInv => DrainCovers /\ NoSpin
  BY DEF IInv
<1> QED BY <1>1, Invariance, PTL

-----------------------------------------------------------------------------
(* The worker pool implements PathGuard.  Who is busy with which path: *)

LEMMA BusyFacts ==
    ASSUME IInv
    PROVE  /\ Busy \in [Paths -> SUBSET Workers]
           /\ \A v \in Workers, p \in Paths : v \in Busy[p] <=> Handling(v) /\ wpath[v] = p
           /\ \A p \in Paths : p \notin inFlight => Busy[p] = {}
           /\ \A v \in Workers, p \in Paths : (Handling(v) /\ wpath[v] = p) => Busy[p] = {v}
<1>1. Busy \in [Paths -> SUBSET Workers]
  BY DEF Busy
<1>2. \A v \in Workers, p \in Paths : v \in Busy[p] <=> Handling(v) /\ wpath[v] = p
  BY DEF Busy
<1>3. ASSUME NEW p \in Paths, p \notin inFlight PROVE Busy[p] = {}
  BY <1>1, <1>2, <1>3, HandlersFinite DEF Handlers
<1>4. ASSUME NEW v \in Workers, NEW p \in Paths, Handling(v), wpath[v] = p PROVE Busy[p] = {v}
  BY <1>1, <1>2, <1>4 DEF IInv, MutualExclusion
<1> QED BY <1>1, <1>2, <1>3, <1>4

(* Steps that change no worker leave Busy alone.                           *)
LEMMA BusyUntouched == UNCHANGED <<wpc, wpath>> => Busy' = Busy
BY DEF Busy, Handling

-----------------------------------------------------------------------------
(* Each step is a step of PathGuard or changes nothing it can see. *)

LEMMA SubmitMaps ==
    ASSUME IInv, NEW p \in Paths, Submit(p) PROVE [Guard!Next]_(Guard!vars)
<1>1. Busy' = Busy /\ stopped' = stopped
  BY BusyUntouched DEF Submit, poolVars, lifeVars
<1>2. CASE stopped
  BY <1>1, <1>2 DEF Submit, poolVars, Pending, Guard!vars
<1>3. CASE ~stopped
  <2>1. Pending' = Pending \union {p}
    BY <1>3 DEF Submit, poolVars, Pending
  <2> QED BY <1>1, <1>3, <2>1 DEF Guard!Next, Guard!Change
<1> QED BY <1>2, <1>3

LEMMA FireMaps ==
    ASSUME IInv, NEW p \in Paths, Fire(p) PROVE [Guard!Next]_(Guard!vars)
<1>1. Busy' = Busy /\ stopped' = stopped
  BY BusyUntouched DEF Fire, lifeVars
<1>2. CASE stopped
  <2>1. Pending' \subseteq Pending
    BY <1>2 DEF Fire, poolVars, Pending
  <2> QED BY <1>1, <1>2, <2>1 DEF Guard!Next, Guard!Close
<1>3. CASE ~stopped
  <2>1. Pending' = Pending
    <3>1. /\ p \in debouncing /\ debouncing' = debouncing \ {p}
          /\ \/ rerun' = rerun \union {p} /\ queued' = queued
             \/ rerun' = rerun /\ queued' = queued \union {p}
             \/ rerun' = rerun /\ queued' = queued /\ p \in queued
      BY <1>3 DEF Fire
    <3> QED BY <3>1 DEF Pending
  <2> QED BY <1>1, <2>1 DEF Guard!vars
<1> QED BY <1>2, <1>3

LEMMA TakeMaps ==
    ASSUME IInv, NEW w \in Workers, Take(w) PROVE [Guard!Next]_(Guard!vars)
<1> DEFINE p == Head(queue)
<1>1. /\ wpc[w] = "waiting" /\ ~stopped /\ queue # <<>>
      /\ queued' = queued \ {p}
      /\ wpath' = [wpath EXCEPT ![w] = p]
      /\ wpc' = [wpc EXCEPT ![w] = "handling"]
      /\ UNCHANGED <<debouncing, rerun, stopped>>
  BY DEF Take, lifeVars
<1>2. /\ queue \in Seq(Paths)
      /\ wpc \in [Workers -> {"none", "waiting", "handling", "exited"}]
      /\ wpath \in [Workers -> Paths \union {NoPath}]
  BY DEF IInv, TypeOK
<1>3. queued = Range(queue) /\ queued \intersect inFlight = {} /\ rerun \subseteq inFlight
  BY <1>1 DEF IInv, GuardsAgree
<1>4. p \in Paths /\ p \in queued /\ p \notin inFlight
  BY <1>1, <1>2, <1>3, TailFresh
<1> HIDE DEF p
<1>5. Guard!Resting(w)
  BY <1>1, BusyFacts DEF Guard!Resting, Handling
<1>6. Busy[p] = {}
  BY <1>4, BusyFacts
<1>7. Busy' = [Busy EXCEPT ![p] = {w}]
  <2>1. Busy' \in [Paths -> SUBSET Workers] /\ Busy \in [Paths -> SUBSET Workers]
    BY DEF Busy
  <2>2. ASSUME NEW r \in Paths, NEW v \in Workers
        PROVE  v \in Busy'[r] <=> v \in (IF r = p THEN {w} ELSE Busy[r])
    <3>1. v \in Busy'[r] <=> wpc'[v] = "handling" /\ wpath'[v] = r
      BY DEF Busy, Handling
    <3>2. v \in Busy[r] <=> wpc[v] = "handling" /\ wpath[v] = r
      BY DEF Busy, Handling
    <3>3. CASE v = w
      BY <1>1, <1>2, <3>1, <3>2, <3>3
    <3>4. CASE v # w
      BY <1>1, <1>2, <1>6, <3>1, <3>2, <3>4
    <3> QED BY <3>3, <3>4
  <2>3. \A r \in Paths : Busy'[r] = IF r = p THEN {w} ELSE Busy[r]
    BY <2>1, <2>2
  <2> QED BY <1>4, <2>1, <2>3
<1>8. Guard!Cover(p)
  BY <1>1, <1>3, <1>4 DEF Guard!Cover, Pending
<1>9. Guard!Begin(w, p)
  BY <1>1, <1>5, <1>6, <1>7, <1>8 DEF Guard!Begin
<1> QED BY <1>4, <1>9 DEF Guard!Next
LEMMA FinishMaps ==
    ASSUME IInv, NEW w \in Workers, Finish(w) PROVE [Guard!Next]_(Guard!vars)
<1> DEFINE p == wpath[w]
           again == p \in rerun
           queueNow == IF again THEN Append(queue, p) ELSE queue
           queuedNow == IF again THEN queued \union {p} ELSE queued
           rerunNow == rerun \ {p}
           q == Head(queueNow)
           Rests == /\ queued' = queuedNow
                    /\ wpc' = [wpc EXCEPT ![w] = "waiting"]
                    /\ wpath' = [wpath EXCEPT ![w] = NoPath]
           Goes == /\ queueNow # <<>>
                   /\ queued' = queuedNow \ {q}
                   /\ wpath' = [wpath EXCEPT ![w] = q]
                   /\ wpc' = wpc
<1>1. /\ wpc[w] = "handling" /\ ~stopped
      /\ rerun' = rerunNow
      /\ UNCHANGED <<debouncing, stopped>>
      /\ Rests \/ Goes
  BY DEF Finish, lifeVars
<1>2. /\ queue \in Seq(Paths)
      /\ wpc \in [Workers -> {"none", "waiting", "handling", "exited"}]
      /\ wpath \in [Workers -> Paths \union {NoPath}]
  BY DEF IInv, TypeOK
<1>3. p \in inFlight /\ p \in Paths
  BY <1>1, HandlersFinite DEF Handlers, Handling
<1>4. /\ queued = Range(queue) /\ IsInjective(queue) /\ queued \intersect inFlight = {}
      /\ rerun \subseteq inFlight
  BY <1>1 DEF IInv, GuardsAgree
<1>5. Busy[p] = {w}
  BY <1>1, <1>3, BusyFacts DEF Handling
<1>6. Pending = debouncing \union queuedNow \union rerunNow
  BY DEF Pending
<1>7. queueNow \in Seq(Paths) /\ queuedNow = Range(queueNow)
  <2>1. CASE again
    BY <1>2, <1>3, <1>4, <2>1, AppendFresh
  <2>2. CASE ~again
    BY <1>2, <1>4, <2>2
  <2> QED BY <2>1, <2>2
<1> HIDE DEF p, again, queueNow, queuedNow, q
<1>8. /\ Busy \in [Paths -> SUBSET Workers] /\ Busy' \in [Paths -> SUBSET Workers]
      /\ \A r \in Paths, v \in Workers :
            /\ v \in Busy[r] <=> wpc[v] = "handling" /\ wpath[v] = r
            /\ v \in Busy'[r] <=> wpc'[v] = "handling" /\ wpath'[v] = r
  BY DEF Busy, Handling
<1>9. CASE Rests
  <2>1. Busy' = [Busy EXCEPT ![p] = {}]
    <3>1. ASSUME NEW r \in Paths, NEW v \in Workers
          PROVE  v \in Busy'[r] <=> v \in (IF r = p THEN {} ELSE Busy[r])
      <4>1. CASE v = w
        BY <1>2, <1>8, <1>9, <4>1 DEF p
      <4>2. CASE v # w
        BY <1>2, <1>5, <1>8, <1>9, <4>2
      <4> QED BY <4>1, <4>2
    <3>2. \A r \in Paths : Busy'[r] = IF r = p THEN {} ELSE Busy[r]
      BY <1>8, <3>1
    <3> QED BY <1>3, <1>8, <3>2
  <2>2. Pending' = Pending
    BY <1>1, <1>6, <1>9 DEF Pending
  <2>3. Guard!End(w, p)
    BY <1>1, <1>5, <2>1, <2>2 DEF Guard!End
  <2> QED BY <1>3, <2>3 DEF Guard!Next
<1>10. CASE Goes
  <2> DEFINE freed == [Busy EXCEPT ![p] = {}]
  <2>1. q \in Paths /\ q \in queuedNow
    BY <1>7, <1>10, TailFresh DEF q
  <2>2. q = p \/ q \notin inFlight
    BY <1>4, <2>1 DEF queuedNow
  <2>3. q \notin rerunNow
    BY <1>4, <2>2
  <2>4. freed[q] = {}
    BY <1>8, <2>1, <2>2, BusyFacts
  <2>5. Busy' = [freed EXCEPT ![q] = {w}]
    <3>1. ASSUME NEW r \in Paths, NEW v \in Workers
          PROVE  v \in Busy'[r] <=> v \in (IF r = q THEN {w} ELSE freed[r])
      <4>1. v \in freed[r] <=> r # p /\ v \in Busy[r]
        BY <1>8
      <4>2. CASE v = w
        BY <1>1, <1>2, <1>8, <1>10, <4>1, <4>2 DEF p
      <4>3. CASE v # w
        <5>1. v \in Busy'[r] <=> v \in Busy[r]
          BY <1>2, <1>8, <1>10, <4>3
        <5>2. v \notin freed[q]
          BY <2>4
        <5>3. r = p => v \notin Busy[r]
          BY <1>5, <4>3
        <5> QED BY <4>1, <4>3, <5>1, <5>2, <5>3
      <4> QED BY <4>2, <4>3
    <3>2. \A r \in Paths : Busy'[r] = IF r = q THEN {w} ELSE freed[r]
      BY <1>8, <3>1
    <3> QED BY <1>8, <2>1, <3>2
  <2>6. Guard!Cover(q)
    BY <1>1, <1>6, <1>10, <2>1, <2>3 DEF Guard!Cover, Pending
  <2>7. Guard!EndBegin(w, p, q)
    BY <1>1, <1>5, <2>4, <2>5, <2>6 DEF Guard!EndBegin
  <2> QED BY <1>3, <2>1, <2>7 DEF Guard!Next
<1> QED BY <1>1, <1>9, <1>10

LEMMA InterruptMaps ==
    ASSUME IInv, NEW w \in Workers, Interrupt(w) PROVE [Guard!Next]_(Guard!vars)
<1> DEFINE p == wpath[w]
<1>1. /\ stopPc = "gather"
      /\ wpc' = [wpc EXCEPT ![w] = "exited"]
      /\ UNCHANGED <<debouncing, queued, stopped>>
      /\ \/ wpc[w] = "waiting" /\ wpath' = wpath /\ rerun' = rerun
         \/ /\ wpc[w] = "handling"
            /\ wpath' = [wpath EXCEPT ![w] = NoPath]
            /\ rerun' = rerun \ {p}
  BY DEF Interrupt, lifeVars
<1>2. stopped
  BY <1>1 DEF IInv, Lifecycle
<1>3. /\ wpc \in [Workers -> {"none", "waiting", "handling", "exited"}]
      /\ wpath \in [Workers -> Paths \union {NoPath}]
  BY DEF IInv, TypeOK
<1>4. /\ Busy \in [Paths -> SUBSET Workers] /\ Busy' \in [Paths -> SUBSET Workers]
      /\ \A r \in Paths, v \in Workers :
            /\ v \in Busy[r] <=> wpc[v] = "handling" /\ wpath[v] = r
            /\ v \in Busy'[r] <=> wpc'[v] = "handling" /\ wpath'[v] = r
  BY DEF Busy, Handling
<1>5. CASE wpc[w] = "waiting"
  <2>1. \A r \in Paths, v \in Workers : v \in Busy'[r] <=> v \in Busy[r]
    BY <1>1, <1>3, <1>4, <1>5
  <2>2. Busy' = Busy
    BY <1>4, <2>1
  <2> QED BY <1>1, <1>5, <2>2 DEF Guard!vars, Pending
<1>6. CASE wpc[w] = "handling"
  <2>1. p \in Paths /\ Busy[p] = {w}
    BY <1>6, HandlersFinite, BusyFacts DEF Handlers, Handling
  <2>2. ASSUME NEW r \in Paths, NEW v \in Workers
        PROVE  v \in Busy'[r] <=> v \in (IF r = p THEN {} ELSE Busy[r])
    BY <1>1, <1>3, <1>4, <1>6, <2>1
  <2> HIDE DEF p
  <2>3. \A r \in Paths : Busy'[r] = IF r = p THEN {} ELSE Busy[r]
    BY <1>4, <2>2
  <2>4. Busy' = [Busy EXCEPT ![p] = {}]
    BY <1>4, <2>1, <2>3
  <2>5. Pending' \subseteq Pending
    BY <1>1, <1>6 DEF Pending
  <2>6. Guard!Wind(w, p)
    BY <1>1, <1>2, <2>1, <2>4, <2>5 DEF Guard!Wind
  <2> QED BY <2>1, <2>6 DEF Guard!Next
<1> QED BY <1>1, <1>5, <1>6

(* stop() raising its flag, and clearing the sets, close the guard. *)
LEMMA StopMaps ==
    ASSUME IInv, Shutdown \/ StopFinish PROVE [Guard!Next]_(Guard!vars)
<1>1. Busy' = Busy
  BY BusyUntouched DEF Shutdown, StopFinish
<1>2. stopped'
  BY DEF Shutdown, StopFinish, IInv, Lifecycle
<1>3. Pending' \subseteq Pending
  BY DEF Shutdown, StopFinish, Pending
<1>4. stopped' = TRUE
  BY <1>2 DEF Shutdown, StopFinish, IInv, TypeOK
<1> QED BY <1>1, <1>3, <1>4 DEF Guard!Next, Guard!Close

(* The pool implements its promise (job_queue.py, Guarantees): a change is *)
(* only dropped by stop(), runs of a path exclude each other, and a closed *)
(* pool begins nothing.                                                    *)
THEOREM PoolImplementsPathGuard == Spec => ImplementsPathGuard
<1>1. Init => Guard!Init
  <2> SUFFICES ASSUME Init PROVE Guard!Init
    OBVIOUS
  <2>1. Pending = {} /\ stopped = FALSE
    BY DEF Init, Pending
  <2>2. Busy = [p \in Paths |-> {}]
    BY DEF Init, Busy, Handling
  <2> QED BY <2>1, <2>2 DEF Guard!Init
<1>2. IInv /\ [Next]_vars => [Guard!Next]_(Guard!vars)
  <2> SUFFICES ASSUME IInv, [Next]_vars PROVE [Guard!Next]_(Guard!vars)
    OBVIOUS
  <2>1. ASSUME NEW p \in Paths, Submit(p) PROVE [Guard!Next]_(Guard!vars)
    BY <2>1, SubmitMaps
  <2>2. ASSUME NEW p \in Paths, Fire(p) PROVE [Guard!Next]_(Guard!vars)
    BY <2>2, FireMaps
  <2>3. CASE Start
    <3>1. Busy' = Busy
      BY <2>3 DEF Start, IInv, Lifecycle, Busy, Handling
    <3> QED BY <2>3, <3>1 DEF Start, Pending, Guard!vars
  <2>4. ASSUME NEW w \in Workers, Take(w) PROVE [Guard!Next]_(Guard!vars)
    BY <2>4, TakeMaps
  <2>5. ASSUME NEW w \in Workers, Finish(w) PROVE [Guard!Next]_(Guard!vars)
    BY <2>5, FinishMaps
  <2>6. ASSUME NEW w \in Workers, Interrupt(w) PROVE [Guard!Next]_(Guard!vars)
    BY <2>6, InterruptMaps
  <2>7. CASE DrainCall \/ (\E d \in Drainers : DrainResume(d)) \/ StopDraining \/ UNCHANGED vars
    <3>1. UNCHANGED <<debouncing, queued, rerun, wpc, wpath, stopped>>
      BY <2>7 DEF DrainCall, DrainResume, StopDraining, vars, poolVars, lifeVars
    <3> QED BY <3>1, BusyUntouched DEF Pending, Guard!vars
  <2>8. CASE StopNow \/ StopDrained \/ StopTimeout \/ StopFinish
    BY <2>8, StopMaps DEF StopNow, StopDrained, StopTimeout
  <2> QED BY <2>1, <2>2, <2>3, <2>4, <2>5, <2>6, <2>7, <2>8 DEF Next
<1> QED BY <1>1, <1>2, Invariance, PTL DEF Spec, ImplementsPathGuard, Guard!Spec
=============================================================================
