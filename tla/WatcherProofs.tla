---------------------------- MODULE WatcherProofs ----------------------------
(***************************************************************************)
(* Proofs about Watcher, for any paths, workers, cleaners and contents.    *)
(*                                                                         *)
(* The last callback of a path tells whether its file is there (Told).     *)
(* When it has run, either a cleaner is at the path or a change of it is   *)
(* pending; and as long as deletion and run do not overlap and one thread  *)
(* at a time changes context.json, what they write is what the file says   *)
(* (Gone, Kept).                                                           *)
(***************************************************************************)
EXTENDS Watcher, SequenceTheorems, TLAPS

(* The groups of variables in UNCHANGED. *)
USE DEF disk, queue, threads, life, history

-----------------------------------------------------------------------------
(* What the callbacks posted to the loop say of a path. *)

Event == [kind : {"modified", "deleted"}, path : Paths]

Mentions(es, p) == \E i \in DOMAIN es : es[i].path = p

LastSays(es, p, kinds) ==
    \A i \in DOMAIN es :
        es[i].path = p /\ (\A j \in DOMAIN es : j > i => es[j].path # p) => es[i].kind \in kinds

(* A callback that is posted is the last of its path.                      *)
LEMMA Posted ==
    ASSUME NEW es \in Seq(Event), NEW e \in Event, NEW t, t = es \o <<e>>
    PROVE  /\ t \in Seq(Event)
           /\ \A p : Mentions(t, p) <=> Mentions(es, p) \/ p = e.path
           /\ \A kinds : e.kind \in kinds => LastSays(t, e.path, kinds)
           /\ \A p, kinds : p # e.path /\ LastSays(es, p, kinds) => LastSays(t, p, kinds)
  <1>1. /\ t \in Seq(Event) /\ DOMAIN es = 1 .. Len(es) /\ Len(es) \in Nat
        /\ DOMAIN t = 1 .. Len(es) + 1
        /\ t[Len(es) + 1] = e
        /\ \A i \in DOMAIN es : i \in DOMAIN t /\ t[i] = es[i]
    OBVIOUS
  <1>2. \A i \in DOMAIN t : i \in DOMAIN es \/ i = Len(es) + 1
    BY <1>1
  <1>3. \A p : Mentions(t, p) <=> Mentions(es, p) \/ p = e.path
    BY <1>1, <1>2 DEF Mentions
  <1>4. \A kinds : e.kind \in kinds => LastSays(t, e.path, kinds)
    BY <1>1, <1>2 DEF LastSays
  <1>5. ASSUME NEW p, NEW kinds, p # e.path, LastSays(es, p, kinds) PROVE LastSays(t, p, kinds)
    BY <1>1, <1>2, <1>5 DEF LastSays
  <1> QED
    BY <1>1, <1>3, <1>4, <1>5

(* Two that are posted together, of different paths.                       *)
LEMMA PostedTwo ==
    ASSUME NEW es \in Seq(Event), NEW a \in Event, NEW b \in Event, a.path # b.path,
           NEW t, t = es \o <<a, b>>
    PROVE  /\ t \in Seq(Event)
           /\ \A p : Mentions(t, p) <=> Mentions(es, p) \/ p \in {a.path, b.path}
           /\ \A e \in {a, b} : \A kinds : e.kind \in kinds => LastSays(t, e.path, kinds)
           /\ \A p, kinds : p \notin {a.path, b.path} /\ LastSays(es, p, kinds)
                               => LastSays(t, p, kinds)
  <1> DEFINE u == es \o <<a>>
  <1>1. u \in Seq(Event) /\ t = u \o <<b>>
    <2>1. /\ <<a>> \in Seq(Event) /\ <<b>> \in Seq(Event) /\ <<a, b>> \in Seq(Event)
          /\ Len(<<a>>) = 1 /\ Len(<<b>>) = 1 /\ Len(<<a, b>>) = 2
          /\ <<a>>[1] = a /\ <<b>>[1] = b /\ <<a, b>>[1] = a /\ <<a, b>>[2] = b
      OBVIOUS
    <2>2. /\ <<a>> \o <<b>> \in Seq(Event) /\ Len(<<a>> \o <<b>>) = 2
          /\ \A i \in 1 .. 2 : (<<a>> \o <<b>>)[i] = <<a, b>>[i]
      BY <2>1, ConcatProperties
    <2>3. <<a>> \o <<b>> = <<a, b>>
      BY <2>1, <2>2, SeqEqual
    <2>4. (es \o <<a>>) \o <<b>> = es \o (<<a>> \o <<b>>)
      BY <2>1, ConcatAssociative, SMT
    <2>5. u \in Seq(Event)
      BY <2>1, ConcatProperties
    <2> QED
      BY <2>3, <2>4, <2>5
  <1> HIDE DEF u
  <1>2. /\ \A p : Mentions(u, p) <=> Mentions(es, p) \/ p = a.path
        /\ \A kinds : a.kind \in kinds => LastSays(u, a.path, kinds)
        /\ \A p, kinds : p # a.path /\ LastSays(es, p, kinds) => LastSays(u, p, kinds)
    BY Posted DEF u
  <1>3. /\ t \in Seq(Event)
        /\ \A p : Mentions(t, p) <=> Mentions(u, p) \/ p = b.path
        /\ \A kinds : b.kind \in kinds => LastSays(t, b.path, kinds)
        /\ \A p, kinds : p # b.path /\ LastSays(u, p, kinds) => LastSays(t, p, kinds)
    BY <1>1, Posted
  <1> QED
    BY <1>2, <1>3

(* When a callback has run, and it was the only one of its path, its kind  *)
(* is what the last one said.                                              *)
LEMMA Popped ==
    ASSUME NEW es \in Seq(Event), es # <<>>, NEW t, t = Tail(es)
    PROVE  /\ t \in Seq(Event) /\ Head(es) \in Event
           /\ \A p : Mentions(es, p) <=> Mentions(t, p) \/ p = Head(es).path
           /\ \A p, kinds : LastSays(es, p, kinds) => LastSays(t, p, kinds)
           /\ \A p, kinds : LastSays(es, p, kinds) /\ ~Mentions(t, p) /\ p = Head(es).path
                               => Head(es).kind \in kinds
  <1>1. /\ t \in Seq(Event) /\ Head(es) \in Event /\ Head(es) = es[1]
        /\ Len(es) \in Nat /\ Len(es) >= 1
        /\ DOMAIN es = 1 .. Len(es) /\ DOMAIN t = 1 .. Len(es) - 1
        /\ \A i \in DOMAIN t : i + 1 \in DOMAIN es /\ t[i] = es[i + 1]
    OBVIOUS
  <1>2. \A i \in DOMAIN es : i = 1 \/ (i - 1 \in DOMAIN t /\ es[i] = t[i - 1])
    BY <1>1
  <1>3. \A p : Mentions(t, p) => Mentions(es, p)
    BY <1>1 DEF Mentions
  <1>4. \A p : Mentions(es, p) => Mentions(t, p) \/ p = Head(es).path
    BY <1>1, <1>2 DEF Mentions
  <1>5. Mentions(es, Head(es).path)
    BY <1>1 DEF Mentions
  <1>6. \A p : Mentions(es, p) <=> Mentions(t, p) \/ p = Head(es).path
    BY <1>3, <1>5, <1>4
  <1>7. ASSUME NEW p, NEW kinds, LastSays(es, p, kinds) PROVE LastSays(t, p, kinds)
    <2> SUFFICES ASSUME NEW i \in DOMAIN t, t[i].path = p,
                        \A j \in DOMAIN t : j > i => t[j].path # p
                 PROVE  t[i].kind \in kinds
      BY DEF LastSays
    <2>1. ASSUME NEW j \in DOMAIN es, j > i + 1 PROVE es[j].path # p
      <3>1. j - 1 \in DOMAIN t /\ j - 1 > i /\ es[j] = t[j - 1]
        BY <1>1, <1>2, <2>1
      <3> QED
        BY <3>1
    <2>2. i + 1 \in DOMAIN es /\ es[i + 1] = t[i]
      BY <1>1
    <2> QED
      BY <1>7, <2>1, <2>2 DEF LastSays
  <1>8. ASSUME NEW p, NEW kinds, LastSays(es, p, kinds), ~Mentions(t, p), p = Head(es).path
        PROVE  Head(es).kind \in kinds
    <2>1. ASSUME NEW j \in DOMAIN es, j > 1 PROVE es[j].path # p
      <3>1. j - 1 \in DOMAIN t /\ es[j] = t[j - 1]
        BY <1>1, <1>2, <2>1
      <3> QED
        BY <1>8, <3>1 DEF Mentions
    <2>2. 1 \in DOMAIN es /\ es[1] = Head(es)
      BY <1>1
    <2> QED
      BY <1>8, <2>1, <2>2 DEF LastSays
  <1> QED
    BY <1>1, <1>6, <1>7, <1>8

-----------------------------------------------------------------------------
(* The inductive invariant. *)

Kinds(c) == IF c = Missing THEN {"deleted"} ELSE {"modified"}
Announced(p) == Mentions(events, p)

(* stop() goes through its steps in order.                                 *)
LifeInv == /\ running => stopPc = "off"
           /\ stopPc \in {"gather", "queue", "done"} => ~watching /\ events = <<>>
           /\ stopPc \in {"queue", "done"} => closed /\ \A k \in Cleaners : pc[k] = "idle"
           /\ closed => pending = {}
           /\ stopPc = "done" => \A p \in Paths : busy[p] = {}

CleanerPcs == \A k \in Cleaners : /\ pc[k] \in {"idle", "remove", "delete", "merge"}
                                  /\ pc[k] # "idle" => subject[k] \in Paths

-----------------------------------------------------------------------------
(* Types. *)

LEMMA InitType == Init => TypeOK /\ LifeInv /\ CleanerPcs
  <1> SUFFICES ASSUME Init PROVE TypeOK /\ LifeInv /\ CleanerPcs
    OBVIOUS
  <1>1. TypeOK
    <2>1. /\ file \in [Paths -> Entries \union {Broken}] /\ index \in [Paths -> Entries]
          /\ hash \in [Paths -> Entries \union {Broken}]
      BY DEF Init, Entries
    <2>2. /\ events \in Seq([kind : {"modified", "deleted"}, path : Paths])
          /\ pending \subseteq Paths /\ busy \in [Paths -> SUBSET Workers]
          /\ closed \in BOOLEAN /\ edits \in 0 .. MaxEdits
      <3>1. events = <<>> /\ pending = {} /\ busy = [p \in Paths |-> {}] /\ edits = 0
            /\ closed = FALSE
        BY DEF Init, Queue!Init
      <3>2. <<>> \in Seq(Event)
        BY EmptySeq
      <3>3. events \in Seq([kind : {"modified", "deleted"}, path : Paths])
        BY <3>1, <3>2, Zenon DEF Event
      <3>4. pending \subseteq Paths /\ busy \in [Paths -> SUBSET Workers]
        BY <3>1
      <3>5. edits \in 0 .. MaxEdits
        BY <3>1, BoundsAssumption
      <3>6. closed \in BOOLEAN
        BY <3>1
      <3> QED
        BY <3>3, <3>4, <3>5, <3>6
    <2>3. Unread \in [Paths -> Entries]
      BY DEF Unread, Entries
    <2>4. /\ copy \in [Actors -> [Paths -> Entries]]
          /\ snap \in [Workers -> Entries \union {Broken}]
          /\ subject \in [Cleaners -> Paths \union {Missing}]
          /\ pc \in [Actors -> {"idle", "check", "modify", "merge", "read", "compare", "test",
                                "remove", "delete", "exited"}]
      BY <2>3 DEF Init, Entries
    <2> QED
      BY <2>1, <2>2, <2>4 DEF Init, TypeOK
  <1>2. LifeInv /\ CleanerPcs
    BY DEF Init, LifeInv, CleanerPcs, Queue!Init, Actors
  <1> QED
    BY <1>1, <1>2

(* An edit says what it did to each path, or is missed.                    *)
LEMMA EditSays ==
    ASSUME TypeOK, Edit
    PROVE  /\ file' \in [Paths -> Entries \union {Broken}]
           /\ events' \in Seq(Event) /\ (~watching => events' = events)
           /\ missed \subseteq missed' /\ missed' \subseteq Paths
           /\ \A p \in Paths \ missed' :
                 \/ /\ file'[p] = file[p]
                    /\ Mentions(events', p) <=> Mentions(events, p)
                    /\ \A kinds : LastSays(events, p, kinds) => LastSays(events', p, kinds)
                 \/ Mentions(events', p) /\ LastSays(events', p, Kinds(file'[p]))
  <1>1. events \in Seq(Event) /\ file \in [Paths -> Entries \union {Broken}]
        /\ missed \subseteq Paths
    BY DEF TypeOK, Event
  <1>2. ASSUME NEW p \in Paths, NEW c \in Contents \union {Broken}, Save(p, c)
        PROVE  /\ file' = [file EXCEPT ![p] = c] /\ c # Missing
               /\ Report(<<[kind |-> "modified", path |-> p]>>, {p})
    BY <1>2, NamesAssumption DEF Save
  <1>3. ASSUME NEW p \in Paths, NEW c, NEW e \in Event, e.path = p, e.kind \in Kinds(c),
               c \in Entries \union {Broken},
               file' = [file EXCEPT ![p] = c], Report(<<e>>, {p})
        PROVE  /\ file' \in [Paths -> Entries \union {Broken}]
               /\ events' \in Seq(Event) /\ (~watching => events' = events)
               /\ missed \subseteq missed' /\ missed' \subseteq Paths
               /\ \A r \in Paths \ missed' :
                     \/ /\ file'[r] = file[r]
                        /\ Mentions(events', r) <=> Mentions(events, r)
                        /\ \A kinds : LastSays(events, r, kinds) => LastSays(events', r, kinds)
                     \/ Mentions(events', r) /\ LastSays(events', r, Kinds(file'[r]))
    <2>1. file'[p] = c /\ \A r \in Paths \ {p} : file'[r] = file[r]
      BY <1>1, <1>3
    <2>2. CASE watching
      <3>1. events' = events \o <<e>> /\ missed' = missed
        BY <1>3, <2>2 DEF Report
      <3>2. /\ events' \in Seq(Event)
            /\ \A r : Mentions(events', r) <=> Mentions(events, r) \/ r = p
            /\ \A kinds : e.kind \in kinds => LastSays(events', p, kinds)
            /\ \A r, kinds : r # p /\ LastSays(events, r, kinds) => LastSays(events', r, kinds)
        BY <1>1, <1>3, <3>1, Posted
      <3>3. Mentions(events', p) /\ LastSays(events', p, Kinds(file'[p]))
        BY <1>3, <2>1, <3>2
      <3>4. file' \in [Paths -> Entries \union {Broken}]
        BY <1>1, <1>3
      <3> QED
        BY <1>1, <2>1, <2>2, <3>1, <3>2, <3>3, <3>4
    <2>3. CASE ~watching
      BY <1>1, <1>3, <2>1, <2>3 DEF Report
    <2> QED
      BY <2>2, <2>3
  <1>4. ASSUME NEW p \in Paths, NEW q \in Paths, Move(p, q)
        PROVE  /\ file' \in [Paths -> Entries \union {Broken}]
               /\ events' \in Seq(Event) /\ (~watching => events' = events)
               /\ missed \subseteq missed' /\ missed' \subseteq Paths
               /\ \A r \in Paths \ missed' :
                     \/ /\ file'[r] = file[r]
                        /\ Mentions(events', r) <=> Mentions(events, r)
                        /\ \A kinds : LastSays(events, r, kinds) => LastSays(events', r, kinds)
                     \/ Mentions(events', r) /\ LastSays(events', r, Kinds(file'[r]))
    <2> DEFINE a == [kind |-> "modified", path |-> q]
               b == [kind |-> "deleted", path |-> p]
    <2>1. /\ file' \in [Paths -> Entries \union {Broken}]
          /\ file'[p] = Missing /\ file'[q] # Missing
          /\ \A r \in Paths \ {p, q} : file'[r] = file[r]
      BY <1>1, <1>4 DEF Move, Entries
    <2>2. a \in Event /\ b \in Event /\ a.path = q /\ b.path = p /\ p # q
          /\ a.kind \in Kinds(file'[q]) /\ b.kind \in Kinds(file'[p])
      BY <1>4, <2>1 DEF Event, Move, Kinds
    <2>3. Report(<<a, b>>, {p, q})
      BY <1>4 DEF Move, Moved
    <2> HIDE DEF a, b
    <2>4. CASE watching
      <3>1. events' = events \o <<a, b>> /\ missed' = missed
        BY <2>3, <2>4 DEF Report
      <3>2. /\ events' \in Seq(Event)
            /\ \A r : Mentions(events', r) <=> Mentions(events, r) \/ r \in {p, q}
            /\ \A e \in {a, b} : \A kinds : e.kind \in kinds => LastSays(events', e.path, kinds)
            /\ \A r, kinds : r \notin {p, q} /\ LastSays(events, r, kinds)
                                => LastSays(events', r, kinds)
        BY <1>1, <2>2, <3>1, PostedTwo
      <3>3. \A r \in {p, q} : Mentions(events', r) /\ LastSays(events', r, Kinds(file'[r]))
        BY <2>2, <3>2
      <3> QED
        BY <1>1, <2>1, <2>4, <3>1, <3>2, <3>3
    <2>5. CASE ~watching
      BY <1>1, <2>1, <2>3, <2>5 DEF Report
    <2> QED
      BY <2>4, <2>5
  <1>5. CASE \E p \in Paths, c \in Contents \union {Broken} : Save(p, c)
    <2> PICK p \in Paths, c \in Contents \union {Broken} : Save(p, c)
      BY <1>5
    <2> DEFINE e == [kind |-> "modified", path |-> p]
    <2>1. e \in Event /\ e.path = p /\ e.kind \in Kinds(c) /\ c \in Entries \union {Broken}
      BY <1>2 DEF Event, Kinds, Entries
    <2> QED
      BY <1>2, <1>3, <2>1
  <1>6. CASE \E p \in Paths : Delete(p)
    <2> PICK p \in Paths : Delete(p)
      BY <1>6
    <2> DEFINE e == [kind |-> "deleted", path |-> p]
    <2>1. e \in Event /\ e.path = p /\ e.kind \in Kinds(Missing)
          /\ Missing \in Entries \union {Broken}
      BY DEF Event, Kinds, Entries
    <2> QED
      BY <1>3, <2>1 DEF Delete
  <1> QED
    BY <1>4, <1>5, <1>6 DEF Edit

-----------------------------------------------------------------------------
(* The steps. *)

Base == TypeOK /\ LifeInv /\ CleanerPcs

LEMMA EditBase == ASSUME Base, Edit PROVE Base'
  <1>1. /\ file' \in [Paths -> Entries \union {Broken}]
        /\ events' \in Seq(Event) /\ (~watching => events' = events)
        /\ missed' \subseteq Paths
    BY EditSays DEF Base
  <1>2. /\ UNCHANGED <<hash, index, watching, queue, threads, life, excused>>
        /\ edits < MaxEdits /\ edits' = edits + 1
    BY DEF Edit
  <1>3. edits' \in 0 .. MaxEdits
    BY <1>2, BoundsAssumption DEF Base, TypeOK
  <1>4. TypeOK'
    BY <1>1, <1>2, <1>3 DEF Base, TypeOK, Event
  <1>5. LifeInv' /\ CleanerPcs'
    BY <1>1, <1>2 DEF Base, LifeInv, CleanerPcs
  <1> QED
    BY <1>4, <1>5 DEF Base

LEMMA OnModifiedBase == ASSUME Base, OnModified PROVE Base'
  <1>1. events' \in Seq(Event) /\ Head(events).path \in Paths
    BY Popped DEF Base, TypeOK, OnModified, Event
  <1>2. TypeOK'
    BY <1>1 DEF Base, TypeOK, OnModified, Event, Queue!Change
  <1>3. LifeInv' /\ CleanerPcs'
    BY DEF Base, LifeInv, CleanerPcs, OnModified, Queue!Change
  <1> QED
    BY <1>2, <1>3 DEF Base

LEMMA OnDeletedBase == ASSUME Base, OnDeleted PROVE Base'
  <1> DEFINE p == Head(events).path
             k == CHOOSE k \in {k \in Cleaners : pc[k] = "idle"} : TRUE
  <1>1. events' \in Seq(Event) /\ p \in Paths
    BY Popped DEF Base, TypeOK, OnDeleted, Event
  <1>2. k \in Cleaners
    BY DEF OnDeleted
  <1>3. /\ subject' = [subject EXCEPT ![k] = p] /\ pc' = [pc EXCEPT ![k] = "remove"]
        /\ events # <<>> /\ excused' \in {excused, excused \union {p}}
        /\ UNCHANGED <<missed, disk, watching, queue, copy, snap, life, edits>>
    BY DEF OnDeleted, Goto, Excuse
  <1> HIDE DEF p, k
  <1>4. TypeOK'
    BY <1>1, <1>2, <1>3 DEF Base, TypeOK, Event, Actors
  <1>5. LifeInv'
    BY <1>1, <1>2, <1>3 DEF Base, LifeInv
  <1>6. CleanerPcs'
    BY <1>1, <1>2, <1>3 DEF Base, TypeOK, CleanerPcs, Actors
  <1> QED
    BY <1>4, <1>5, <1>6 DEF Base

(* A worker's step that begins no run and posts nothing.                   *)
LEMMA Within ==
    ASSUME Base, NEW w \in Workers,
           NEW l \in {"idle", "check", "modify", "merge", "read", "compare", "test", "exited"},
           Goto(w, l),
           hash' \in [Paths -> Entries \union {Broken}], index' \in [Paths -> Entries],
           copy' \in [Actors -> [Paths -> Entries]], snap' \in [Workers -> Entries \union {Broken}],
           busy' \in [Paths -> SUBSET Workers], \A p \in Paths : busy'[p] \subseteq busy[p],
           excused' \in {excused, Paths},
           UNCHANGED <<file, watching, events, pending, closed, subject, life, edits, missed>>
    PROVE  Base'
  <1>1. /\ pc' \in [Actors -> {"idle", "check", "modify", "merge", "read", "compare", "test",
                               "remove", "delete", "exited"}]
        /\ \A k \in Cleaners : pc'[k] = pc[k]
    BY NamesAssumption DEF Base, TypeOK, Goto, Actors
  <1>2. excused' \subseteq Paths
    BY DEF Base, TypeOK
  <1>3. TypeOK'
    BY <1>1, <1>2 DEF Base, TypeOK
  <1>4. LifeInv'
    BY <1>1, <1>2 DEF Base, TypeOK, LifeInv
  <1>5. CleanerPcs'
    BY <1>1 DEF Base, CleanerPcs
  <1> QED
    BY <1>3, <1>4, <1>5 DEF Base

(* The end of a run.                                                       *)
LEMMA FinishFacts ==
    ASSUME Base, NEW w \in Workers, NEW p \in Paths, Finish(w, p)
    PROVE  /\ Goto(w, "idle") /\ busy[p] = {w} /\ UNCHANGED <<pending, closed>>
           /\ snap' \in [Workers -> Entries \union {Broken}]
           /\ busy' \in [Paths -> SUBSET Workers]
           /\ busy'[p] = {} /\ \A q \in Paths \ {p} : busy'[q] = busy[q]
           /\ \A q \in Paths : busy'[q] \subseteq busy[q]
  BY DEF Base, TypeOK, Finish, Queue!End, Entries

LEMMA TakeBase == ASSUME Base, NEW w \in Workers, NEW p \in Paths, Take(w, p) PROVE Base'
  <1>1. /\ UNCHANGED <<disk, watching, events, closed, subject, copy, snap, life, edits, missed>>
        /\ ~closed /\ pending' \subseteq pending /\ busy' = [busy EXCEPT ![p] = {w}]
        /\ pc' = [pc EXCEPT ![w] = "check"] /\ excused' \in {excused, excused \union {p}}
    BY DEF Take, Queue!Begin, Queue!Cover, Goto, Excuse
  <1>2. TypeOK'
    BY <1>1 DEF Base, TypeOK, Actors
  <1>3. LifeInv'
    BY <1>1 DEF Base, TypeOK, LifeInv
  <1>4. CleanerPcs'
    BY <1>1, NamesAssumption DEF Base, TypeOK, CleanerPcs, Actors
  <1> QED
    BY <1>2, <1>3, <1>4 DEF Base

LEMMA CheckBase == ASSUME Base, NEW w \in Workers, NEW p \in Paths, Check(w, p) PROVE Base'
  <1>1. UNCHANGED <<hash, index, copy, file, watching, events, subject, life, edits, history>>
    BY DEF Check
  <1>2. CASE Finish(w, p)
    BY <1>1, <1>2, FinishFacts, Within DEF Base, TypeOK
  <1>3. CASE Goto(w, "modify") /\ UNCHANGED queue /\ snap' \in {snap, [snap EXCEPT ![w] = file[p]]}
    <2>1. snap' \in [Workers -> Entries \union {Broken}]
      BY <1>3 DEF Base, TypeOK
    <2> QED
      BY <1>1, <1>3, <2>1, Within DEF Base, TypeOK
  <1> QED
    BY <1>2, <1>3 DEF Check

LEMMA ModifyBase == ASSUME Base, NEW w \in Workers, NEW p \in Paths, Modify(w, p) PROVE Base'
  <1>1. UNCHANGED <<disk, watching, events, queue, subject, snap, life, edits>>
    BY DEF Modify
  <1>2. CASE Parses(file[p]) /\ ReadIndex(w, p, file[p])
    <2>1. copy' \in [Actors -> [Paths -> Entries]]
      BY <1>2 DEF Base, TypeOK, ReadIndex, Parses, Entries
    <2>2. Goto(w, "merge") /\ excused' \in {excused, Paths} /\ UNCHANGED missed
      BY <1>2 DEF Base, TypeOK, ReadIndex, Excuse
    <2> QED
      BY <1>1, <2>1, <2>2, Within DEF Base, TypeOK
  <1>3. CASE Goto(w, "read") /\ UNCHANGED <<copy, history>>
    BY <1>1, <1>3, Within DEF Base, TypeOK
  <1> QED
    BY <1>2, <1>3 DEF Modify

LEMMA ModifiedBase == ASSUME Base, NEW w \in Workers, NEW p \in Paths, Modified(w, p) PROVE Base'
  <1>1. /\ UNCHANGED <<file, hash, watching, events, queue, subject, snap, life, edits, history>>
        /\ Goto(w, "read")
    BY DEF Modified, ReplaceIndex
  <1>2. index' \in [Paths -> Entries] /\ copy' \in [Actors -> [Paths -> Entries]]
    BY DEF Base, TypeOK, Modified, ReplaceIndex, Unread, Entries, Actors
  <1> QED
    BY <1>1, <1>2, Within DEF Base, TypeOK

LEMMA ReadSourceBase ==
    ASSUME Base, NEW w \in Workers, NEW p \in Paths, ReadSource(w, p) PROVE Base'
  <1>1. UNCHANGED <<hash, index, copy, file, watching, events, subject, life, edits, history>>
    BY DEF ReadSource
  <1>2. CASE Finish(w, p)
    BY <1>1, <1>2, FinishFacts, Within DEF Base, TypeOK
  <1>3. CASE Goto(w, "compare") /\ UNCHANGED queue /\ snap' \in {snap, [snap EXCEPT ![w] = file[p]]}
    <2>1. snap' \in [Workers -> Entries \union {Broken}]
      BY <1>3 DEF Base, TypeOK
    <2> QED
      BY <1>1, <1>3, <2>1, Within DEF Base, TypeOK
  <1> QED
    BY <1>2, <1>3 DEF ReadSource

LEMMA CompareBase == ASSUME Base, NEW w \in Workers, NEW p \in Paths, Compare(w, p) PROVE Base'
  <1>1. UNCHANGED <<hash, index, copy, file, watching, events, subject, life, edits, history>>
    BY DEF Compare
  <1>2. CASE Finish(w, p)
    BY <1>1, <1>2, FinishFacts, Within DEF Base, TypeOK
  <1>3. CASE Goto(w, "test") /\ UNCHANGED queue /\ snap' \in {snap, [snap EXCEPT ![w] = file[p]]}
    <2>1. snap' \in [Workers -> Entries \union {Broken}]
      BY <1>3 DEF Base, TypeOK
    <2> QED
      BY <1>1, <1>3, <2>1, Within DEF Base, TypeOK
  <1> QED
    BY <1>2, <1>3 DEF Compare

LEMMA RunPipelineBase ==
    ASSUME Base, NEW w \in Workers, NEW p \in Paths, RunPipeline(w, p) PROVE Base'
  <1>1. /\ UNCHANGED <<file, index, watching, events, subject, copy, life, edits, history>>
        /\ Finish(w, p)
    BY DEF RunPipeline
  <1>2. hash' \in [Paths -> Entries \union {Broken}]
    BY DEF Base, TypeOK, RunPipeline
  <1> QED
    BY <1>1, <1>2, FinishFacts, Within DEF Base, TypeOK

LEMMA InterruptBase == ASSUME Base, NEW w \in Workers, NEW p \in Paths, Interrupt(w, p) PROVE Base'
  <1>1. /\ UNCHANGED <<file, index, watching, events, pending, closed, subject, copy, life, edits,
                       history>>
        /\ Goto(w, "merge") \/ Goto(w, "exited")
    BY DEF Interrupt, Queue!Wind
  <1>2. /\ busy' \in [Paths -> SUBSET Workers] /\ \A q \in Paths : busy'[q] \subseteq busy[q]
    BY DEF Base, TypeOK, Interrupt, Queue!Wind
  <1>3. /\ hash' \in [Paths -> Entries \union {Broken}]
        /\ snap' \in [Workers -> Entries \union {Broken}]
    BY DEF Base, TypeOK, Interrupt, Entries
  <1> QED
    BY <1>1, <1>2, <1>3, Within DEF Base, TypeOK

LEMMA ThreadEndsBase == ASSUME Base, NEW w \in Workers, ThreadEnds(w) PROVE Base'
  <1>1. /\ UNCHANGED <<file, hash, watching, events, queue, subject, snap, life, edits, history>>
        /\ Goto(w, "exited")
    BY DEF ThreadEnds, ReplaceIndex
  <1>2. index' \in [Paths -> Entries] /\ copy' \in [Actors -> [Paths -> Entries]]
    BY DEF Base, TypeOK, ThreadEnds, ReplaceIndex, Unread, Entries, Actors
  <1> QED
    BY <1>1, <1>2, Within DEF Base, TypeOK

LEMMA RemoveHashBase == ASSUME Base, NEW k \in Cleaners, RemoveHash(k) PROVE Base'
  <1>1. TypeOK'
    BY DEF Base, TypeOK, RemoveHash, Goto, Actors, Entries
  <1>2. LifeInv'
    BY DEF Base, LifeInv, RemoveHash
  <1>3. CleanerPcs'
    BY DEF Base, TypeOK, CleanerPcs, RemoveHash, Goto, Actors
  <1> QED
    BY <1>1, <1>2, <1>3 DEF Base

LEMMA DeleteEntryBase == ASSUME Base, NEW k \in Cleaners, DeleteEntry(k) PROVE Base'
  <1>1. pc[k] = "delete" /\ UNCHANGED <<disk, watching, events, queue, snap, life, edits, missed>>
    BY DEF DeleteEntry, ReadIndex, Excuse
  <1>2. /\ excused' \in {excused, Paths}
        /\ subject' = subject \/ (pc'[k] = "idle" /\ subject' = [subject EXCEPT ![k] = Missing])
        /\ \E l \in {"idle", "merge"} : pc' = [pc EXCEPT ![k] = l]
    BY DEF Base, TypeOK, DeleteEntry, ReadIndex, Excuse, Goto, Actors
  <1>3. copy' \in [Actors -> [Paths -> Entries]]
    BY DEF Base, TypeOK, DeleteEntry, ReadIndex, Actors, Entries
  <1>4. /\ subject' \in [Cleaners -> Paths \union {Missing}]
        /\ pc' \in [Actors -> {"idle", "check", "modify", "merge", "read", "compare", "test",
                               "remove", "delete", "exited"}]
        /\ excused' \subseteq Paths
    BY <1>2 DEF Base, TypeOK, Actors
  <1>5. TypeOK'
    BY <1>1, <1>3, <1>4 DEF Base, TypeOK
  <1>6. LifeInv'
    <2>1. stopPc \notin {"queue", "done"}
      BY <1>1 DEF Base, LifeInv
    <2> QED
      BY <1>1, <2>1 DEF Base, LifeInv
  <1>7. CleanerPcs'
    <2>1. /\ \A j \in Cleaners \ {k} : pc'[j] = pc[j] /\ subject'[j] = subject[j]
          /\ pc'[k] \in {"idle", "merge"} /\ (pc'[k] # "idle" => subject'[k] = subject[k])
      BY <1>2 DEF Base, TypeOK, Actors
    <2> QED
      BY <1>1, <2>1 DEF Base, CleanerPcs
  <1> QED
    BY <1>5, <1>6, <1>7 DEF Base

LEMMA DeletedBase == ASSUME Base, NEW k \in Cleaners, Deleted(k) PROVE Base'
  <1>1. TypeOK'
    BY DEF Base, TypeOK, Deleted, ReplaceIndex, Goto, Actors, Entries, Unread
  <1>2. LifeInv'
    BY DEF Base, LifeInv, Deleted, ReplaceIndex
  <1>3. CleanerPcs'
    BY DEF Base, TypeOK, CleanerPcs, Deleted, ReplaceIndex, Goto, Actors
  <1> QED
    BY <1>1, <1>2, <1>3 DEF Base

LEMMA StartBase == ASSUME Base, Start PROVE Base'
  BY DEF Base, TypeOK, LifeInv, CleanerPcs, Start

LEMMA StopBase == ASSUME Base, Stop PROVE Base'
  BY DEF Base, TypeOK, LifeInv, CleanerPcs, Stop

LEMMA StoppingBase == ASSUME Base, Stopping PROVE Base'
  <1> USE DEF Base, TypeOK, LifeInv, CleanerPcs
  <1>1. CASE ObserverEnds
    BY <1>1 DEF ObserverEnds
  <1>2. CASE Joined
    BY <1>2 DEF Joined
  <1>3. CASE Gathered
    BY <1>3 DEF Gathered, Queue!Close
  <1>4. CASE QueueStopped
    BY <1>4 DEF QueueStopped
  <1> QED
    BY <1>1, <1>2, <1>3, <1>4 DEF Stopping

LEMMA StutterBase == ASSUME Base, UNCHANGED vars PROVE Base'
  BY DEF Base, TypeOK, LifeInv, CleanerPcs, vars

LEMMA NextBase == Base /\ [Next]_vars => Base'
  <1> SUFFICES ASSUME Base, [Next]_vars PROVE Base'
    OBVIOUS
  <1> USE EditBase, OnModifiedBase, OnDeletedBase, TakeBase, CheckBase, ModifyBase, ModifiedBase,
          ReadSourceBase, CompareBase, RunPipelineBase, InterruptBase, ThreadEndsBase,
          RemoveHashBase, DeleteEntryBase, DeletedBase, StartBase, StopBase, StoppingBase,
          StutterBase
  <1> QED
    BY DEF Next, Process, CleanUp

(* The variables keep their types.                                         *)
THEOREM TypeCorrect == Spec => []TypeOK
  <1>1. Init => Base
    BY InitType DEF Base
  <1>2. Base => TypeOK
    BY DEF Base
  <1> QED
    BY <1>1, <1>2, NextBase, PTL DEF Spec

(* When stop() has returned, no callback is left, no cleaner is at work and *)
(* no worker is.                                                            *)
THEOREM StopIsSilent == Spec => []StoppedIsSilent
  <1>1. Init => Base
    BY InitType DEF Base
  <1>2. Base => StoppedIsSilent
    BY DEF Base, LifeInv, StoppedIsSilent, Settled
  <1> QED
    BY <1>1, <1>2, NextBase, PTL DEF Spec

-----------------------------------------------------------------------------
(* What makes ApartIsClean inductive. *)

(* A worker is busy with the one path it has begun, or idle.               *)
WorkerPcs ==
    ~closed => \A w \in Workers :
        /\ pc[w] \in {"idle", "check", "modify", "merge", "read", "compare", "test"}
        /\ pc[w] # "idle" => \E p \in Paths : Working(w, p)
        /\ \A p \in Paths : Working(w, p) =>
              /\ pc[w] # "idle" /\ busy[p] = {w}
              /\ \A q \in Paths : Working(w, q) => p = q

(* The last callback of a path tells whether its file is there.            *)
Told == \A p \in Paths \ missed : LastSays(events, p, Kinds(file[p]))

(* One thread at most is changing context.json, and what it will write     *)
(* differs from what is there in the entry of its own path only.           *)
Owns(a, r) == \/ a \in Workers /\ Working(a, r)
              \/ a \in Cleaners /\ subject[a] = r
SoleMerge == \A a \in Merging :
                /\ Merging = {a}
                /\ \A r \in Paths : copy[a][r] # index[r] => Owns(a, r)

(* A path is cleaned by one cleaner at a time and not while it is run, and *)
(* if its file has come back it is run after that.                         *)
Unlike(p) == \A k \in Cleaning(p) :
                /\ Cleaning(p) = {k} /\ busy[p] = {}
                /\ Announced(p) \/ p \in pending \/ file[p] = Missing

(* A file is gone, and its callback has run: no run of it gets anywhere,   *)
(* and its cleaner is at it or has done it.                                *)
Gone(p) ==
    file[p] = Missing /\ ~Announced(p) =>
        /\ \A w \in busy[p] : pc[w] = "check"
        /\ \A k \in Cleaning(p) :
              \/ pc[k] = "remove"
              \/ hash[p] = Missing /\ (pc[k] = "merge" => copy[k][p] = Missing)
        /\ Cleaning(p) = {} => hash[p] = Missing /\ index[p] = Missing

(* A file parses, and a run of it has begun since it was saved.            *)
Kept(p) ==
    Parses(file[p]) /\ ~Announced(p) /\ p \notin pending =>
        /\ \A w \in busy[p] : /\ pc[w] = "merge" => copy[w][p] = file[p]
                              /\ pc[w] \in {"read", "compare", "test"} => index[p] = file[p]
        /\ busy[p] = {} => index[p] = file[p]

Good(p) == Unlike(p) /\ Gone(p) /\ Kept(p)
Calm == Paths \ (missed \union excused)
Orderly == ~closed => /\ Calm # {} => SoleMerge
                      /\ \A p \in Calm : Good(p)

IInv == Base /\ WorkerPcs /\ Told /\ Orderly

-----------------------------------------------------------------------------
(* The parts of it that few steps touch. *)

LEMMA InitInv == Init => IInv
  <1> SUFFICES ASSUME Init PROVE IInv
    OBVIOUS
  <1>1. Base
    BY InitType DEF Base
  <1>2. /\ \A a \in Actors : pc[a] = "idle"
        /\ \A p \in Paths : busy[p] = {} /\ hash[p] = Missing
        /\ index = file /\ DOMAIN events = {}
    BY DEF Init, Queue!Init
  <1>3. WorkerPcs /\ Merging = {} /\ \A p \in Paths : Cleaning(p) = {}
    BY <1>2 DEF WorkerPcs, Working, Merging, Cleaning, Actors
  <1>4. Told
    BY <1>2 DEF Told, LastSays
  <1>5. Orderly
    BY <1>2, <1>3 DEF Orderly, SoleMerge, Good, Unlike, Gone, Kept, Calm
  <1> QED
    BY <1>1, <1>3, <1>4, <1>5 DEF IInv

LEMMA ToldStep == ASSUME Base, Told, [Next]_vars PROVE Told'
  <1>1. CASE Edit
    BY <1>1, EditSays DEF Base, Told
  <1>2. CASE events # <<>> /\ events' = Tail(events) /\ UNCHANGED <<file, missed>>
    <2>1. \A p, kinds : LastSays(events, p, kinds) => LastSays(events', p, kinds)
      BY <1>2, Popped DEF Base, TypeOK, Event
    <2> QED
      BY <1>2, <2>1 DEF Told
  <1>3. CASE UNCHANGED <<file, events, missed>>
    BY <1>3 DEF Told
  <1> QED
    BY <1>1, <1>2, <1>3
    DEF Next, OnModified, OnDeleted, Excuse, Take, Process, Check, Modify, ReadIndex, Modified,
        ReadSource, Compare, RunPipeline, Interrupt, ThreadEnds, CleanUp, RemoveHash, DeleteEntry,
        Deleted, Start, Stop, Stopping, ObserverEnds, Joined, Gathered, QueueStopped, vars

(* A step that changes nothing that matters to p.                          *)
LEMMA Untouched ==
    ASSUME NEW p \in Paths, Good(p),
           file'[p] = file[p], hash'[p] = hash[p], index'[p] = index[p],
           Mentions(events', p) <=> Mentions(events, p),
           p \in pending' <=> p \in pending,
           busy'[p] = busy[p], \A w \in busy[p] : pc'[w] = pc[w] /\ copy'[w][p] = copy[w][p],
           Cleaning(p)' = Cleaning(p),
           \A k \in Cleaning(p) : pc'[k] = pc[k] /\ copy'[k][p] = copy[k][p]
    PROVE  Good(p)'
  <1>1. Announced(p)' <=> Announced(p)
    BY DEF Announced
  <1>2. Unlike(p)'
    BY <1>1 DEF Good, Unlike
  <1>3. Gone(p)'
    BY <1>1 DEF Good, Gone
  <1>4. Kept(p)'
    BY <1>1 DEF Good, Kept, Parses
  <1> QED
    BY <1>2, <1>3, <1>4 DEF Good

(* What the steps do to the program counters and to the runs.              *)
LEMMA WorkerStep ==
    ASSUME Base, WorkerPcs, ~closed, NEW w \in Workers, NEW p \in Paths, Process(w, p)
    PROVE  /\ Working(w, p) /\ closed' = closed /\ pending' = pending
           /\ \A a \in Actors \ {w} : pc'[a] = pc[a]
           /\ \A q \in Paths \ {p} : busy'[q] = busy[q] /\ w \notin busy[q]
           /\ \/ /\ busy'[p] = busy[p]
                 /\ pc'[w] \in {"modify", "merge", "read", "compare", "test"}
              \/ busy'[p] = {} /\ pc'[w] = "idle"
  <1>1. Working(w, p) /\ \A q \in Paths \ {p} : w \notin busy[q]
    BY DEF Process, Check, Modify, Modified, ReadSource, Compare, RunPipeline, WorkerPcs, Working
  <1>2. CASE Finish(w, p)
    BY <1>1, <1>2, FinishFacts DEF Goto, Base, TypeOK, Actors
  <1>3. CASE UNCHANGED queue /\ \E l \in {"modify", "merge", "read", "compare", "test"} : Goto(w, l)
    BY <1>1, <1>3 DEF Goto, Base, TypeOK, Actors
  <1> QED
    BY <1>2, <1>3 DEF Process, Check, Modify, ReadIndex, Modified, ReplaceIndex, ReadSource,
                      Compare, RunPipeline

LEMMA TakeStep ==
    ASSUME Base, WorkerPcs, NEW w \in Workers, NEW p \in Paths, Take(w, p)
    PROVE  /\ ~closed /\ closed' = closed /\ p \in pending
           /\ \A q \in Paths : w \notin busy[q]
           /\ pc[w] = "idle" /\ pc'[w] = "check" /\ \A a \in Actors \ {w} : pc'[a] = pc[a]
           /\ busy[p] = {} /\ busy'[p] = {w} /\ \A q \in Paths \ {p} : busy'[q] = busy[q]
           /\ \A q \in Paths \ {p} : q \in pending' <=> q \in pending
  BY DEF Take, Queue!Begin, Queue!Resting, Queue!Cover, Goto, Base, TypeOK, Actors

LEMMA CleanerStep ==
    ASSUME Base, NEW k \in Cleaners, CleanUp(k)
    PROVE  /\ subject[k] \in Paths /\ pc[k] # "idle"
           /\ UNCHANGED <<busy, pending, closed, file, events, missed>>
           /\ \A a \in Actors \ {k} : pc'[a] = pc[a]
           /\ \A j \in Cleaners \ {k} : subject'[j] = subject[j]
           /\ \/ pc'[k] = "idle" /\ subject'[k] = Missing
              \/ pc'[k] \in {"delete", "merge"} /\ subject'[k] = subject[k]
  <1>1. pc[k] # "idle" /\ subject[k] \in Paths
    BY DEF CleanUp, RemoveHash, DeleteEntry, Deleted, ReplaceIndex, Base, CleanerPcs
  <1>2. CASE RemoveHash(k)
    BY <1>1, <1>2 DEF RemoveHash, Goto, Base, TypeOK, Actors
  <1>3. CASE DeleteEntry(k)
    BY <1>1, <1>3 DEF DeleteEntry, ReadIndex, Excuse, Goto, Base, TypeOK, Actors
  <1>4. CASE Deleted(k)
    BY <1>1, <1>4 DEF Deleted, ReplaceIndex, Goto, Base, TypeOK, Actors
  <1> QED
    BY <1>2, <1>3, <1>4 DEF CleanUp

LEMMA OnDeletedStep ==
    ASSUME Base, OnDeleted
    PROVE  \E k \in Cleaners :
              LET p == Head(events).path
              IN  /\ pc[k] = "idle" /\ pc'[k] = "remove" /\ subject'[k] = p
                  /\ \A a \in Actors \ {k} : pc'[a] = pc[a]
                  /\ \A j \in Cleaners \ {k} : subject'[j] = subject[j]
                  /\ events # <<>> /\ events' = Tail(events) /\ Head(events).kind = "deleted"
                  /\ p \in Paths
                  /\ excused' = IF busy[p] # {} \/ Cleaning(p) # {}
                                THEN excused \union {p} ELSE excused
                  /\ UNCHANGED <<missed, disk, watching, queue, copy, snap, life, edits>>
  <1> DEFINE k == CHOOSE k \in {k \in Cleaners : pc[k] = "idle"} : TRUE
  <1>1. k \in Cleaners /\ pc[k] = "idle"
    BY DEF OnDeleted
  <1>2. Head(events).path \in Paths
    BY Popped DEF Base, TypeOK, OnDeleted, Event
  <1>3. subject' = [subject EXCEPT ![k] = Head(events).path] /\ Goto(k, "remove")
    BY DEF OnDeleted
  <1> HIDE DEF k
  <1> QED
    BY <1>1, <1>2, <1>3 DEF OnDeleted, Goto, Excuse, Base, TypeOK, Actors

LEMMA PcsStep == ASSUME Base, WorkerPcs, [Next]_vars PROVE WorkerPcs'
  <1>1. CASE UNCHANGED <<busy, closed>> /\ \A w \in Workers : pc'[w] = pc[w]
    BY <1>1 DEF WorkerPcs, Working
  <1>2. CASE closed'
    BY <1>2 DEF WorkerPcs
  <1>3. ASSUME NEW w \in Workers, NEW p \in Paths, Take(w, p) PROVE WorkerPcs'
    BY <1>3, TakeStep DEF WorkerPcs, Working, Actors
  <1>4. ASSUME NEW w \in Workers, NEW p \in Paths, Process(w, p) PROVE WorkerPcs'
    <2>1. closed' = closed
      BY <1>4 DEF Process, Check, Modify, Modified, ReadSource, Compare, RunPipeline, Finish,
                  Queue!End
    <2> QED
      BY <1>2, <1>4, <2>1, WorkerStep DEF WorkerPcs, Working, Actors
  <1>5. ASSUME NEW k \in Cleaners, CleanUp(k) PROVE WorkerPcs'
    BY <1>1, <1>5, CleanerStep, NamesAssumption DEF Actors
  <1>6. CASE OnDeleted
    BY <1>1, <1>6, OnDeletedStep, NamesAssumption DEF Actors
  <1>7. ASSUME NEW w \in Workers, NEW p \in Paths, Interrupt(w, p) PROVE WorkerPcs'
    BY <1>2, <1>7 DEF Interrupt, Queue!Wind
  <1>8. CASE Edit \/ OnModified \/ Start \/ Stop \/ UNCHANGED vars
    BY <1>1, <1>8 DEF Edit, OnModified, Queue!Change, Start, Stop, vars
  <1>9. CASE Stopping
    BY <1>1, <1>2, <1>9 DEF Stopping, ObserverEnds, Joined, Gathered, Queue!Close, QueueStopped
  <1>10. ASSUME NEW w \in Workers, ThreadEnds(w) PROVE WorkerPcs'
    BY <1>2, <1>10 DEF ThreadEnds
  <1> QED
    BY <1>3, <1>4, <1>5, <1>6, <1>7, <1>8, <1>9, <1>10 DEF Next

-----------------------------------------------------------------------------
(* What the steps do to the paths whose deletion and runs stay apart. *)

(* A step that neither begins nor ends a change of context.json.           *)
LEMMA MergeUntouched ==
    ASSUME SoleMerge, Merging' = Merging, index' = index,
           \A a \in Merging : /\ copy'[a] = copy[a]
                              /\ \A r \in Paths : Owns(a, r) => Owns(a, r)'
    PROVE  SoleMerge'
  BY DEF SoleMerge

LEMMA EditOrderly == ASSUME IInv, Edit PROVE Orderly'
  <1>1. /\ UNCHANGED <<hash, index, watching, queue, threads, life, excused>>
        /\ missed \subseteq missed'
        /\ \A p \in Paths \ missed' :
              \/ /\ file'[p] = file[p]
                 /\ Mentions(events', p) <=> Mentions(events, p)
              \/ Mentions(events', p)
    BY EditSays DEF IInv, Base, Edit
  <1>2. /\ Merging' = Merging /\ \A p \in Paths : Cleaning(p)' = Cleaning(p)
        /\ Calm' \subseteq Calm
    BY <1>1 DEF Merging, Cleaning, Calm
  <1>3. ASSUME SoleMerge PROVE SoleMerge'
    BY <1>1, <1>2, <1>3, MergeUntouched DEF Owns, Working
  <1>4. ASSUME NEW p \in Calm', Good(p) PROVE Good(p)'
    <2>1. p \in Paths \ missed'
      BY DEF Calm
    <2>2. CASE file'[p] = file[p] /\ (Mentions(events', p) <=> Mentions(events, p))
      BY <1>1, <1>2, <1>4, <2>1, <2>2, Untouched
    <2>3. CASE Mentions(events', p)
      BY <1>1, <1>2, <1>4, <2>1, <2>3 DEF Good, Unlike, Gone, Kept, Announced
    <2> QED
      BY <1>1, <2>1, <2>2, <2>3
  <1> QED
    BY <1>1, <1>2, <1>3, <1>4 DEF IInv, Orderly

LEMMA EventsType == IInv => events \in Seq(Event)
  BY Zenon DEF IInv, Base, TypeOK, Event

LEMMA EventPopped ==
    ASSUME IInv, events # <<>>, events' = Tail(events)
    PROVE  /\ \A p : Mentions(events, p) <=> Mentions(events', p) \/ p = Head(events).path
           /\ \A p, kinds : /\ LastSays(events, p, kinds)
                            /\ ~Mentions(events', p) /\ p = Head(events).path
                            => Head(events).kind \in kinds
  BY EventsType, Popped

LEMMA OnModifiedOrderly == ASSUME IInv, OnModified PROVE Orderly'
  <1> DEFINE q == Head(events).path
  <1>1. /\ UNCHANGED <<disk, watching, threads, life, edits, history, busy, closed>>
        /\ events # <<>> /\ events' = Tail(events) /\ Head(events).kind = "modified"
        /\ closed \/ pending' = pending \union {q}
    BY DEF OnModified, Queue!Change
  <1>2. /\ \A p : Mentions(events, p) <=> Mentions(events', p) \/ p = q
        /\ \A p, kinds : LastSays(events, p, kinds) /\ ~Mentions(events', p) /\ p = q
                            => "modified" \in kinds
    BY <1>1, EventPopped
  <1> HIDE DEF q
  <1>3. /\ Merging' = Merging /\ \A p \in Paths : Cleaning(p)' = Cleaning(p)
        /\ Calm' = Calm
    BY <1>1 DEF Merging, Cleaning, Calm
  <1>4. ASSUME SoleMerge PROVE SoleMerge'
    BY <1>1, <1>3, <1>4, MergeUntouched DEF Owns, Working
  <1>5. ASSUME ~closed, NEW p \in Calm, Good(p) PROVE Good(p)'
    <2>1. p \in Paths \ missed
      BY DEF Calm
    <2>2. CASE p # q
      BY <1>1, <1>2, <1>3, <1>5, <2>1, <2>2, Untouched
    <2>3. CASE p = q
      <3>1. p \in pending'
        BY <1>1, <1>5, <2>3
      <3>2. file[p] = Missing => Mentions(events', p)
        BY <1>2, <2>1, <2>3 DEF IInv, Told, Kinds
      <3>3. Unlike(p)'
        BY <1>1, <1>3, <1>5, <3>1, <2>1 DEF Good, Unlike
      <3>4. Gone(p)'
        BY <1>1, <3>2 DEF Gone, Announced
      <3>5. Kept(p)'
        BY <3>1 DEF Kept
      <3> QED
        BY <3>3, <3>4, <3>5 DEF Good
    <2> QED
      BY <2>2, <2>3
  <1> QED
    BY <1>1, <1>3, <1>4, <1>5 DEF IInv, Orderly

LEMMA OnDeletedOrderly == ASSUME IInv, OnDeleted PROVE Orderly'
  <1> PICK k \in Cleaners :
              LET p == Head(events).path
              IN  /\ pc[k] = "idle" /\ pc'[k] = "remove" /\ subject'[k] = p
                  /\ \A a \in Actors \ {k} : pc'[a] = pc[a]
                  /\ \A j \in Cleaners \ {k} : subject'[j] = subject[j]
                  /\ events # <<>> /\ events' = Tail(events) /\ Head(events).kind = "deleted"
                  /\ p \in Paths
                  /\ excused' = IF busy[p] # {} \/ Cleaning(p) # {}
                                THEN excused \union {p} ELSE excused
                  /\ UNCHANGED <<missed, disk, watching, queue, copy, snap, life, edits>>
    BY OnDeletedStep DEF IInv
  <1> DEFINE q == Head(events).path
  <1>1. /\ \A p : Mentions(events, p) <=> Mentions(events', p) \/ p = q
        /\ \A p, kinds : LastSays(events, p, kinds) /\ ~Mentions(events', p) /\ p = q
                            => "deleted" \in kinds
    <2>1. /\ events # <<>> /\ events' = Tail(events) /\ Head(events).kind = "deleted"
      OBVIOUS
    <2> QED
      BY <2>1, EventPopped
  <1>2. /\ UNCHANGED <<missed, disk, queue, copy, snap>>
        /\ Calm' \subseteq Calm
        /\ q \in Calm' => busy[q] = {} /\ Cleaning(q) = {}
    BY DEF Calm
  <1>3. Merging' = Merging
    BY DEF Merging, Actors
  <1>4. ASSUME SoleMerge PROVE SoleMerge'
    <2>1. ASSUME NEW a \in Merging, NEW r \in Paths, Owns(a, r) PROVE Owns(a, r)'
      BY <2>1, <1>2, NamesAssumption DEF Owns, Merging, Working
    <2> QED
      BY <1>2, <1>3, <1>4, <2>1, MergeUntouched
  <1>5. ASSUME NEW p \in Paths
        PROVE  Cleaning(p)' = IF p = q THEN Cleaning(p) \union {k} ELSE Cleaning(p)
    <2>1. /\ pc[k] = "idle" /\ pc'[k] = "remove" /\ subject'[k] = q
          /\ \A j \in Cleaners \ {k} : pc'[j] = pc[j] /\ subject'[j] = subject[j]
      BY DEF Actors
    <2> HIDE DEF q
    <2> QED
      BY <2>1 DEF Cleaning
  <1>6. pc'[k] = "remove" /\ \A a \in Actors \ {k} : pc'[a] = pc[a]
    OBVIOUS
  <1>7. pc[k] = "idle" /\ q \in Paths /\ Actors = Workers \union Cleaners
    BY DEF Actors
  <1> HIDE DEF q
  <1>8. ASSUME ~closed, NEW p \in Calm', Good(p) PROVE Good(p)'
    <2>1. p \in Paths \ missed
      BY <1>2 DEF Calm
    <2>2. CASE p # q
      <3>1. \A w \in busy[p] : w # k /\ w \in Actors
        BY <1>7, <2>1, NamesAssumption DEF IInv, Base, TypeOK
      <3>2. \A j \in Cleaning(p) : j # k /\ j \in Actors
        BY <1>7 DEF Cleaning
      <3> QED
        BY <1>1, <1>2, <1>5, <1>6, <1>8, <2>1, <2>2, <3>1, <3>2, Untouched
    <2>3. CASE p = q
      <3>1. busy'[p] = {} /\ Cleaning(p)' = {k}
        <4>1. Cleaning(p)' = Cleaning(p) \union {k}
          BY <1>5, <2>1, <2>3
        <4> QED
          BY <1>2, <1>8, <2>3, <4>1
      <3>2. Mentions(events', p) \/ file[p] = Missing
        BY <1>1, <2>1, <2>3 DEF IInv, Told, Kinds
      <3>3. Unlike(p)'
        BY <1>2, <3>1, <3>2 DEF Unlike, Announced
      <3>4. Gone(p)'
        BY <1>6, <3>1 DEF Gone
      <3>5. Kept(p)'
        BY <1>2, <3>2, NamesAssumption DEF Kept, Announced, Parses
      <3> QED
        BY <3>3, <3>4, <3>5 DEF Good
    <2> QED
      BY <2>2, <2>3
  <1> QED
    BY <1>2, <1>4, <1>8 DEF IInv, Orderly

LEMMA TakeOrderly ==
    ASSUME IInv, NEW w \in Workers, NEW q \in Paths, Take(w, q) PROVE Orderly'
  <1>1. /\ ~closed
        /\ \A p \in Paths : w \notin busy[p]
        /\ pc[w] = "idle" /\ pc'[w] = "check" /\ \A a \in Actors \ {w} : pc'[a] = pc[a]
        /\ busy[q] = {} /\ busy'[q] = {w} /\ \A p \in Paths \ {q} : busy'[p] = busy[p]
        /\ \A p \in Paths \ {q} : p \in pending' <=> p \in pending
    BY TakeStep DEF IInv
  <1>2. /\ UNCHANGED <<disk, watching, events, subject, copy, snap, life, edits, missed>>
        /\ Calm' \subseteq Calm
        /\ q \in Calm' => Cleaning(q) = {}
    BY DEF Take, Excuse, Calm
  <1>3. Merging' = Merging
    BY <1>1 DEF Merging, Actors
  <1>4. ASSUME SoleMerge PROVE SoleMerge'
    <2>1. ASSUME NEW a \in Merging, NEW r \in Paths, Owns(a, r) PROVE Owns(a, r)'
      BY <1>1, <1>2, <2>1 DEF Owns, Working
    <2> QED
      BY <1>2, <1>3, <1>4, <2>1, MergeUntouched
  <1>5. \A p \in Paths : Cleaning(p)' = Cleaning(p)
    BY <1>1, <1>2, NamesAssumption DEF Cleaning, Actors
  <1>6. ASSUME NEW p \in Calm', Good(p) PROVE Good(p)'
    <2>1. p \in Paths
      BY DEF Calm
    <2>2. CASE p # q
      <3>1. \A a \in busy[p] : a # w /\ a \in Actors
        BY <1>1, <2>1 DEF IInv, Base, TypeOK, Actors
      <3>2. \A j \in Cleaning(p) : j # w /\ j \in Actors
        BY NamesAssumption DEF Cleaning, Actors
      <3> QED
        BY <1>1, <1>2, <1>5, <1>6, <2>1, <2>2, <3>1, <3>2, Untouched
    <2>3. CASE p = q
      <3>1. busy'[p] = {w} /\ Cleaning(p)' = {} /\ pc'[w] = "check" /\ Cleaning(p) = {}
        BY <1>1, <1>2, <1>5, <2>3
      <3>2. Unlike(p)' /\ Kept(p)'
        BY <3>1 DEF Unlike, Kept
      <3>3. Gone(p)'
        BY <1>2, <1>6, <3>1 DEF Good, Gone, Announced
      <3> QED
        BY <3>2, <3>3 DEF Good
    <2> QED
      BY <2>2, <2>3
  <1> QED
    BY <1>1, <1>2, <1>4, <1>6 DEF IInv, Orderly

(* A step of a run leaves the paths of others alone.                       *)
LEMMA ElsewhereRun ==
    ASSUME IInv, ~closed, NEW w \in Workers, NEW q \in Paths, Process(w, q),
           UNCHANGED <<file, events, subject>>,
           \A a \in Actors \ {w} : copy'[a] = copy[a],
           NEW p \in Paths \ {q}, Good(p), hash'[p] = hash[p], index'[p] = index[p]
    PROVE  Good(p)'
  <1>1. /\ pending' = pending /\ busy'[p] = busy[p] /\ w \notin busy[p]
        /\ \A a \in Actors \ {w} : pc'[a] = pc[a]
    BY WorkerStep DEF IInv
  <1>2. w \notin Cleaners /\ Cleaners \subseteq Actors /\ busy[p] \subseteq Actors
    BY NamesAssumption DEF Actors, IInv, Base, TypeOK
  <1>3. Cleaning(p)' = Cleaning(p)
    BY <1>1, <1>2 DEF Cleaning
  <1>4. Cleaning(p) \subseteq Actors \ {w}
    BY <1>2 DEF Cleaning
  <1> QED
    BY <1>1, <1>2, <1>3, <1>4, Untouched

(* ... and what the path of the run is left with.                          *)
LEMMA HomeRun ==
    ASSUME IInv, ~closed, NEW w \in Workers, NEW q \in Paths, Good(q),
           Process(w, q), UNCHANGED <<file, events, subject>>,
           pc[w] # "check" => file[q] # Missing \/ Announced(q),
           Parses(file[q]) /\ ~Announced(q) /\ q \notin pending =>
              \/ pc'[w] = "modify"
              \/ pc'[w] = "merge" /\ copy'[w][q] = file[q]
              \/ pc'[w] \in {"read", "compare", "test", "idle"} /\ index'[q] = file[q],
           file[q] = Missing /\ ~Announced(q) =>
              pc'[w] = "idle" /\ hash'[q] = hash[q] /\ index'[q] = index[q]
    PROVE  Good(q)'
  <1>1. /\ pending' = pending /\ w \in busy[q] /\ busy[q] = {w}
        /\ \A a \in Actors \ {w} : pc'[a] = pc[a]
        /\ \/ busy'[q] = {w} /\ pc'[w] # "idle"
           \/ busy'[q] = {} /\ pc'[w] = "idle"
    BY WorkerStep DEF IInv, Working, WorkerPcs
  <1>2. Cleaning(q) = {}
    BY <1>1 DEF Good, Unlike
  <1>3. Cleaning(q)' = {}
    BY <1>1, <1>2, NamesAssumption DEF Cleaning, Actors
  <1>4. Announced(q)' <=> Announced(q)
    BY DEF Announced
  <1>5. Unlike(q)'
    BY <1>3 DEF Unlike
  <1>6. Gone(q)'
    BY <1>1, <1>2, <1>3, <1>4 DEF Good, Gone
  <1>7. Kept(q)'
    BY <1>1, <1>3, <1>4 DEF Kept, Parses
  <1> QED
    BY <1>5, <1>6, <1>7 DEF Good

(* Runs do not get past their first check without a file.                  *)
LEMMA RunHasFile ==
    ASSUME NEW w \in Workers, NEW q \in Paths, Good(q), Working(w, q)
    PROVE  pc[w] # "check" => file[q] # Missing \/ Announced(q)
  BY DEF Good, Gone, Working

LEMMA CalmShrinks ==
    ASSUME missed' = missed, excused' \in {excused, Paths}
    PROVE  Calm' = {} \/ Calm' = Calm
  BY DEF Calm

(* The steps of a run that leave context.json alone.                       *)
LEMMA QuietRunOrderly ==
    ASSUME IInv, ~closed, NEW w \in Workers, NEW q \in Paths, Process(w, q),
           UNCHANGED <<file, index, events, subject, copy, history>>,
           pc[w] # "merge", pc'[w] # "merge",
           \A p \in Paths \ {q} : hash'[p] = hash[p],
           Good(q) => Good(q)'
    PROVE  Orderly'
  <1>1. /\ Working(w, q) /\ closed' = closed
        /\ \A a \in Actors \ {w} : pc'[a] = pc[a]
        /\ \A r \in Paths \ {q} : busy'[r] = busy[r]
        /\ busy[q] = {w}
    BY WorkerStep DEF IInv, WorkerPcs
  <1>2. Merging' = Merging
    BY <1>1 DEF Merging, Actors
  <1>3. ASSUME SoleMerge PROVE SoleMerge'
    <2>1. ASSUME NEW a \in Merging, NEW r \in Paths, Owns(a, r) PROVE Owns(a, r)'
      BY <1>1, <2>1 DEF Owns, Working, Merging
    <2> QED
      BY <1>2, <1>3, <2>1, MergeUntouched
  <1>4. Calm' = Calm
    BY DEF Calm
  <1>5. ASSUME NEW p \in Calm, Good(p) PROVE Good(p)'
    <2>1. CASE p = q
      BY <1>5, <2>1
    <2>2. CASE p # q
      BY <1>5, <2>2, ElsewhereRun DEF Calm
    <2> QED
      BY <2>1, <2>2
  <1> QED
    BY <1>1, <1>3, <1>4, <1>5 DEF IInv, Orderly

LEMMA CheckOrderly ==
    ASSUME IInv, ~closed, NEW w \in Workers, NEW q \in Paths, Check(w, q) PROVE Orderly'
  <1>1. /\ Process(w, q) /\ Working(w, q) /\ pc[w] = "check"
        /\ UNCHANGED <<disk, watching, events, subject, copy, life, edits, history>>
    BY DEF Process, Check
  <1>2. pc'[w] = IF Parses(file[q]) THEN "modify" ELSE "idle"
    BY DEF Check, Finish, Goto, IInv, Base, TypeOK, Actors
  <1>3. ~Parses(Missing)
    BY NamesAssumption DEF Parses
  <1>4. Good(q) => Good(q)'
    BY <1>1, <1>2, <1>3, HomeRun
  <1> QED
    BY <1>1, <1>2, <1>4, QuietRunOrderly

LEMMA ReadSourceOrderly ==
    ASSUME IInv, ~closed, NEW w \in Workers, NEW q \in Paths, ReadSource(w, q) PROVE Orderly'
  <1>1. /\ Process(w, q) /\ Working(w, q) /\ pc[w] = "read"
        /\ UNCHANGED <<disk, watching, events, subject, copy, life, edits, history>>
    BY DEF Process, ReadSource
  <1>2. pc'[w] = IF file[q] = Missing THEN "idle" ELSE "compare"
    BY DEF ReadSource, Finish, Goto, IInv, Base, TypeOK, Actors
  <1>3. ASSUME Good(q) PROVE Good(q)'
    <2>1. file[q] # Missing \/ Announced(q)
      BY <1>1, <1>3, RunHasFile
    <2>2. Parses(file[q]) /\ ~Announced(q) /\ q \notin pending => index'[q] = file[q]
      BY <1>1, <1>3 DEF Good, Kept, Working
    <2> QED
      BY <1>1, <1>2, <1>3, <2>1, <2>2, HomeRun
  <1> QED
    BY <1>1, <1>2, <1>3, QuietRunOrderly

LEMMA CompareOrderly ==
    ASSUME IInv, ~closed, NEW w \in Workers, NEW q \in Paths, Compare(w, q) PROVE Orderly'
  <1>1. /\ Process(w, q) /\ Working(w, q) /\ pc[w] = "compare"
        /\ UNCHANGED <<disk, watching, events, subject, copy, life, edits, history>>
    BY DEF Process, Compare
  <1>2. pc'[w] \in {"idle", "test"}
    BY DEF Compare, Finish, Goto, IInv, Base, TypeOK, Actors
  <1>3. ASSUME Good(q) PROVE Good(q)'
    <2>1. file[q] # Missing \/ Announced(q)
      BY <1>1, <1>3, RunHasFile
    <2>2. Parses(file[q]) /\ ~Announced(q) /\ q \notin pending => index'[q] = file[q]
      BY <1>1, <1>3 DEF Good, Kept, Working
    <2> QED
      BY <1>1, <1>2, <1>3, <2>1, <2>2, HomeRun
  <1> QED
    BY <1>1, <1>2, <1>3, QuietRunOrderly

LEMMA RunPipelineOrderly ==
    ASSUME IInv, ~closed, NEW w \in Workers, NEW q \in Paths, RunPipeline(w, q) PROVE Orderly'
  <1>1. /\ Process(w, q) /\ Working(w, q) /\ pc[w] = "test"
        /\ UNCHANGED <<file, index, watching, events, subject, copy, life, edits, history>>
        /\ \A p \in Paths \ {q} : hash'[p] = hash[p]
    BY DEF Process, RunPipeline, IInv, Base, TypeOK
  <1>2. pc'[w] = "idle"
    BY DEF RunPipeline, Finish, Goto, IInv, Base, TypeOK, Actors
  <1>3. ASSUME Good(q) PROVE Good(q)'
    <2>1. file[q] # Missing \/ Announced(q)
      BY <1>1, <1>3, RunHasFile
    <2>2. Parses(file[q]) /\ ~Announced(q) /\ q \notin pending => index'[q] = file[q]
      BY <1>1, <1>3 DEF Good, Kept, Working
    <2> QED
      BY <1>1, <1>2, <1>3, <2>1, <2>2, HomeRun
  <1> QED
    BY <1>1, <1>2, <1>3, QuietRunOrderly

(* Beginning to change context.json: the change is of the one entry, and   *)
(* nobody else is at it, or no path is calm any more.                      *)
LEMMA ReadIndexSole ==
    ASSUME IInv, NEW a \in Actors, NEW q \in Paths, NEW entry, ReadIndex(a, q, entry),
           index' = index, Owns(a, q)', Calm' # {}
    PROVE  SoleMerge' /\ Calm' = Calm /\ copy'[a][q] = entry
  <1>1. Merging = {} /\ Calm' = Calm
    BY DEF ReadIndex, Excuse, Calm, IInv, Base, TypeOK
  <1>2. /\ pc'[a] = "merge" /\ \A b \in Actors \ {a} : pc'[b] = pc[b]
        /\ copy'[a] = [index EXCEPT ![q] = entry]
    BY DEF ReadIndex, Goto, IInv, Base, TypeOK
  <1>3. Merging' = {a}
    BY <1>1, <1>2 DEF Merging
  <1>4. \A r \in Paths : copy'[a][r] = IF r = q THEN entry ELSE index[r]
    BY <1>2 DEF IInv, Base, TypeOK
  <1>5. SoleMerge'
    BY <1>3, <1>4 DEF SoleMerge
  <1> QED
    BY <1>1, <1>4, <1>5

(* ... and ending it.                                                      *)
LEMMA ReplaceIndexSole ==
    ASSUME IInv, NEW a \in Actors, NEW l \in {"read", "idle"}, ReplaceIndex(a, l), SoleMerge
    PROVE  /\ SoleMerge' /\ index' = copy[a]
           /\ \A r \in Paths : index'[r] # index[r] => Owns(a, r)
  <1>1. a \in Merging /\ index' = copy[a]
    BY DEF ReplaceIndex, Merging
  <1>2. Merging = {a} /\ \A r \in Paths : copy[a][r] # index[r] => Owns(a, r)
    BY <1>1 DEF SoleMerge
  <1>3. pc'[a] # "merge" /\ \A b \in Actors \ {a} : pc'[b] = pc[b]
    BY DEF ReplaceIndex, Goto, IInv, Base, TypeOK
  <1>4. Merging' = {}
    BY <1>2, <1>3 DEF Merging
  <1> QED
    BY <1>1, <1>2, <1>4 DEF SoleMerge

LEMMA ModifyOrderly ==
    ASSUME IInv, ~closed, NEW w \in Workers, NEW q \in Paths, Modify(w, q) PROVE Orderly'
  <1>1. /\ Process(w, q) /\ Working(w, q) /\ pc[w] = "modify" /\ w \in Actors
        /\ UNCHANGED <<disk, watching, events, queue, subject, snap, life, edits>>
        /\ UNCHANGED missed
        /\ \A a \in Actors \ {w} : copy'[a] = copy[a]
    BY DEF Process, Modify, ReadIndex, Excuse, IInv, Base, TypeOK, Actors
  <1>2. ASSUME Good(q) PROVE file[q] # Missing \/ Announced(q)
    BY <1>1, <1>2, RunHasFile
  <1>3. CASE ReadIndex(w, q, file[q])
    <2>1. pc'[w] = "merge"
      BY <1>1, <1>3 DEF ReadIndex, Goto, IInv, Base, TypeOK
    <2>2. Owns(w, q)'
      BY <1>1 DEF Owns, Working
    <2>3. ASSUME Calm' # {}
          PROVE  SoleMerge' /\ Calm' = Calm /\ copy'[w][q] = file[q]
      BY <1>1, <1>3, <2>2, <2>3, ReadIndexSole
    <2>4. ASSUME NEW p \in Calm', Good(p) PROVE Good(p)'
      <3>1. p \in Paths
        BY DEF Calm
      <3>2. CASE p = q
        BY <1>1, <1>2, <2>1, <2>3, <2>4, <3>2, HomeRun
      <3>3. CASE p # q
        BY <1>1, <2>4, <3>1, <3>3, ElsewhereRun
      <3> QED
        BY <3>2, <3>3
    <2> QED
      BY <1>1, <2>3, <2>4 DEF IInv, Orderly
  <1>4. CASE ~Parses(file[q]) /\ Goto(w, "read") /\ UNCHANGED <<copy, history>>
    <2>1. pc'[w] = "read"
      BY <1>1, <1>4 DEF Goto, IInv, Base, TypeOK
    <2>2. Good(q) => Good(q)'
      BY <1>1, <1>2, <1>4, <2>1, HomeRun
    <2> QED
      BY <1>1, <1>4, <2>1, <2>2, QuietRunOrderly
  <1> QED
    BY <1>3, <1>4 DEF Modify

LEMMA ModifiedOrderly ==
    ASSUME IInv, ~closed, NEW w \in Workers, NEW q \in Paths, Modified(w, q) PROVE Orderly'
  <1>1. /\ Process(w, q) /\ Working(w, q) /\ pc[w] = "merge" /\ w \in Actors
        /\ ReplaceIndex(w, "read")
        /\ UNCHANGED <<file, hash, watching, events, queue, subject, snap, life, edits, history>>
        /\ \A a \in Actors \ {w} : copy'[a] = copy[a]
    BY DEF Process, Modified, ReplaceIndex, IInv, Base, TypeOK, Actors
  <1>2. pc'[w] = "read" /\ index' = copy[w]
    BY <1>1 DEF ReplaceIndex, Goto, IInv, Base, TypeOK
  <1>3. SoleMerge => /\ SoleMerge'
                     /\ \A r \in Paths : index'[r] # index[r] => Owns(w, r)
    BY <1>1, ReplaceIndexSole
  <1>4. \A r \in Paths : Owns(w, r) => r = q
    BY <1>1, NamesAssumption DEF Owns, IInv, WorkerPcs
  <1>5. Calm' = Calm
    BY <1>1 DEF Calm
  <1>6. ASSUME SoleMerge, NEW p \in Calm, Good(p) PROVE Good(p)'
    <2>1. p \in Paths
      BY DEF Calm
    <2>2. CASE p = q
      <3>1. file[q] # Missing \/ Announced(q)
        BY <1>1, <1>6, <2>2, RunHasFile
      <3>2. Parses(file[q]) /\ ~Announced(q) /\ q \notin pending => index'[q] = file[q]
        BY <1>1, <1>2, <1>6, <2>2 DEF Good, Kept, Working
      <3> QED
        BY <1>1, <1>2, <1>6, <2>2, <3>1, <3>2, HomeRun
    <2>3. CASE p # q
      BY <1>1, <1>3, <1>4, <1>6, <2>1, <2>3, ElsewhereRun
    <2> QED
      BY <2>2, <2>3
  <1> QED
    BY <1>1, <1>3, <1>5, <1>6 DEF IInv, Orderly

(* A cleaner leaves the other paths alone.                                 *)
LEMMA ElsewhereCleaned ==
    ASSUME IInv, NEW k \in Cleaners, CleanUp(k),
           \A a \in Actors \ {k} : copy'[a] = copy[a],
           NEW p \in Paths, p # subject[k], Good(p), hash'[p] = hash[p], index'[p] = index[p]
    PROVE  Good(p)'
  <1>1. /\ UNCHANGED <<busy, pending, closed, file, events, missed>>
        /\ \A a \in Actors \ {k} : pc'[a] = pc[a]
        /\ \A j \in Cleaners \ {k} : subject'[j] = subject[j]
        /\ subject'[k] \in {subject[k], Missing}
    BY CleanerStep DEF IInv
  <1>2. Cleaners \subseteq Actors /\ busy[p] \subseteq Actors \ {k} /\ p # Missing
    BY NamesAssumption DEF Actors, IInv, Base, TypeOK
  <1>3. Cleaning(p) \subseteq Actors \ {k}
    BY <1>2 DEF Cleaning
  <1>4. Cleaning(p)' = Cleaning(p)
    BY <1>1, <1>2 DEF Cleaning
  <1> QED
    BY <1>1, <1>2, <1>3, <1>4, Untouched

(* ... and what its own path is left with.                                 *)
LEMMA HomeCleaned ==
    ASSUME IInv, NEW k \in Cleaners, CleanUp(k), NEW q \in Paths, q = subject[k], Good(q),
           file[q] = Missing /\ ~Announced(q) =>
              \/ pc'[k] = "delete" /\ hash'[q] = Missing
              \/ pc'[k] = "merge" /\ hash'[q] = Missing /\ copy'[k][q] = Missing
              \/ pc'[k] = "idle" /\ hash'[q] = Missing /\ index'[q] = Missing
    PROVE  Good(q)'
  <1>1. /\ UNCHANGED <<busy, pending, closed, file, events, missed>>
        /\ \A a \in Actors \ {k} : pc'[a] = pc[a]
        /\ \A j \in Cleaners \ {k} : subject'[j] = subject[j]
        /\ \/ pc'[k] = "idle" /\ subject'[k] = Missing
           \/ pc'[k] \in {"delete", "merge"} /\ subject'[k] = q
        /\ pc[k] # "idle"
    BY CleanerStep DEF IInv
  <1>2. k \in Cleaning(q) /\ Cleaners \subseteq Actors /\ q # Missing
    BY <1>1, NamesAssumption DEF Cleaning, Actors
  <1>3. /\ Cleaning(q) = {k} /\ busy[q] = {}
        /\ Announced(q) \/ q \in pending \/ file[q] = Missing
    BY <1>2 DEF Good, Unlike
  <1>4. Cleaning(q)' = IF pc'[k] = "idle" THEN {} ELSE {k}
    BY <1>1, <1>2, <1>3 DEF Cleaning
  <1>5. Announced(q)' <=> Announced(q)
    BY <1>1 DEF Announced
  <1>6. Unlike(q)'
    BY <1>1, <1>3, <1>4, <1>5 DEF Unlike
  <1>7. Gone(q)'
    BY <1>1, <1>3, <1>4, <1>5 DEF Gone
  <1>8. Kept(q)'
    BY <1>1, <1>3, <1>5, NamesAssumption DEF Kept, Parses
  <1> QED
    BY <1>6, <1>7, <1>8 DEF Good

(* A cleaner that is not at context.json does not get in a thread's way.   *)
LEMMA QuietCleanerSole ==
    ASSUME IInv, SoleMerge, NEW k \in Cleaners, CleanUp(k), UNCHANGED <<copy, index>>,
           pc[k] # "merge", pc'[k] # "merge"
    PROVE  SoleMerge'
  <1>1. /\ busy' = busy
        /\ \A a \in Actors \ {k} : pc'[a] = pc[a]
        /\ \A j \in Cleaners \ {k} : subject'[j] = subject[j]
    BY CleanerStep DEF IInv
  <1>2. Merging' = Merging
    BY <1>1 DEF Merging, Actors
  <1>3. ASSUME NEW a \in Merging, NEW r \in Paths, Owns(a, r) PROVE Owns(a, r)'
    BY <1>1, <1>3 DEF Owns, Working, Merging
  <1> QED
    BY <1>2, <1>3, MergeUntouched

LEMMA RemoveHashOrderly ==
    ASSUME IInv, ~closed, NEW k \in Cleaners, RemoveHash(k) PROVE Orderly'
  <1> DEFINE q == subject[k]
  <1>1. /\ CleanUp(k) /\ pc[k] = "remove" /\ pc'[k] = "delete" /\ q \in Paths
        /\ hash'[q] = Missing /\ \A p \in Paths \ {q} : hash'[p] = hash[p]
        /\ UNCHANGED <<file, index, watching, events, queue, subject, copy, snap, life, edits,
                       history>>
    BY DEF CleanUp, RemoveHash, Goto, IInv, Base, TypeOK, CleanerPcs, Actors
  <1> HIDE DEF q
  <1>2. SoleMerge => SoleMerge'
    BY <1>1, QuietCleanerSole
  <1>3. Calm' = Calm
    BY <1>1 DEF Calm
  <1>4. ASSUME NEW p \in Calm, Good(p) PROVE Good(p)'
    <2>1. CASE p = q
      BY <1>1, <1>4, <2>1, HomeCleaned DEF q
    <2>2. CASE p # q
      BY <1>1, <1>4, <2>2, ElsewhereCleaned DEF Calm, q
    <2> QED
      BY <2>1, <2>2
  <1> QED
    BY <1>1, <1>2, <1>3, <1>4 DEF IInv, Orderly

LEMMA DeleteEntryOrderly ==
    ASSUME IInv, ~closed, NEW k \in Cleaners, DeleteEntry(k) PROVE Orderly'
  <1> DEFINE q == subject[k]
  <1>1. /\ CleanUp(k) /\ pc[k] = "delete" /\ q \in Paths /\ k \in Actors
        /\ UNCHANGED <<disk, watching, events, queue, snap, life, edits>> /\ UNCHANGED missed
        /\ \A a \in Actors \ {k} : copy'[a] = copy[a]
    BY DEF CleanUp, DeleteEntry, ReadIndex, Excuse, IInv, Base, TypeOK, CleanerPcs, Actors
  <1>2. ASSUME Good(q), file[q] = Missing, ~Announced(q) PROVE hash[q] = Missing
    <2>1. k \in Cleaning(q)
      BY <1>1 DEF Cleaning
    <2> QED
      BY <1>1, <1>2, <2>1 DEF Good, Gone
  <1>3. CASE ReadIndex(k, q, Missing) /\ UNCHANGED subject
    <2>1. pc'[k] = "merge"
      BY <1>1, <1>3 DEF ReadIndex, Goto, IInv, Base, TypeOK
    <2>2. Owns(k, q)'
      BY <1>3 DEF Owns
    <2>3. ASSUME Calm' # {}
          PROVE  SoleMerge' /\ Calm' = Calm /\ copy'[k][q] = Missing
      BY <1>1, <1>3, <2>2, <2>3, ReadIndexSole
    <2> HIDE DEF q
    <2>4. ASSUME NEW p \in Calm', Good(p) PROVE Good(p)'
      <3>1. p \in Paths
        BY DEF Calm
      <3>2. CASE p = q
        BY <1>1, <1>2, <2>1, <2>3, <2>4, <3>2, HomeCleaned DEF q
      <3>3. CASE p # q
        BY <1>1, <2>4, <3>1, <3>3, ElsewhereCleaned DEF q
      <3> QED
        BY <3>2, <3>3
    <2> QED
      BY <1>1, <2>3, <2>4 DEF IInv, Orderly
  <1>4. CASE index[q] = Missing /\ Goto(k, "idle") /\ UNCHANGED <<copy, history>>
    <2>1. pc'[k] = "idle"
      BY <1>1, <1>4 DEF Goto, IInv, Base, TypeOK
    <2> HIDE DEF q
    <2>2. SoleMerge => SoleMerge'
      BY <1>1, <1>4, <2>1, QuietCleanerSole
    <2>3. Calm' = Calm
      BY <1>4 DEF Calm
    <2>4. ASSUME NEW p \in Calm, Good(p) PROVE Good(p)'
      <3>1. CASE p = q
        BY <1>1, <1>2, <1>4, <2>1, <2>4, <3>1, HomeCleaned DEF q
      <3>2. CASE p # q
        BY <1>1, <2>4, <3>2, ElsewhereCleaned DEF Calm, q
      <3> QED
        BY <3>1, <3>2
    <2> QED
      BY <1>1, <2>2, <2>3, <2>4 DEF IInv, Orderly
  <1> QED
    BY <1>3, <1>4 DEF DeleteEntry

LEMMA DeletedOrderly ==
    ASSUME IInv, ~closed, NEW k \in Cleaners, Deleted(k) PROVE Orderly'
  <1> DEFINE q == subject[k]
  <1>1. /\ CleanUp(k) /\ pc[k] = "merge" /\ q \in Paths /\ k \in Actors
        /\ ReplaceIndex(k, "idle")
        /\ UNCHANGED <<file, hash, watching, events, queue, snap, life, edits, history>>
        /\ \A a \in Actors \ {k} : copy'[a] = copy[a]
    BY DEF CleanUp, Deleted, ReplaceIndex, IInv, Base, TypeOK, CleanerPcs, Actors
  <1>2. pc'[k] = "idle" /\ index' = copy[k]
    BY <1>1 DEF ReplaceIndex, Goto, IInv, Base, TypeOK
  <1>3. SoleMerge => /\ SoleMerge'
                     /\ \A r \in Paths : index'[r] # index[r] => Owns(k, r)
    BY <1>1, ReplaceIndexSole
  <1>4. \A r \in Paths : Owns(k, r) => r = q
    BY NamesAssumption DEF Owns
  <1>5. ASSUME Good(q), file[q] = Missing, ~Announced(q)
        PROVE  hash[q] = Missing /\ copy[k][q] = Missing
    <2>1. k \in Cleaning(q)
      BY <1>1 DEF Cleaning
    <2> QED
      BY <1>1, <1>5, <2>1 DEF Good, Gone
  <1> HIDE DEF q
  <1>6. Calm' = Calm
    BY <1>1 DEF Calm
  <1>7. ASSUME SoleMerge, NEW p \in Calm, Good(p) PROVE Good(p)'
    <2>1. p \in Paths
      BY DEF Calm
    <2>2. CASE p = q
      BY <1>1, <1>2, <1>5, <1>7, <2>2, HomeCleaned DEF q
    <2>3. CASE p # q
      BY <1>1, <1>3, <1>4, <1>7, <2>1, <2>3, ElsewhereCleaned DEF q
    <2> QED
      BY <2>2, <2>3
  <1> QED
    BY <1>1, <1>3, <1>6, <1>7 DEF IInv, Orderly

(* Starting and stopping change nothing of this.                           *)
LEMMA LifeOrderly ==
    ASSUME IInv, UNCHANGED <<disk, events, pending, busy, closed, threads, history>>
    PROVE  Orderly'
  <1>1. /\ Merging' = Merging /\ Calm' = Calm /\ \A p \in Paths : Cleaning(p)' = Cleaning(p)
    BY DEF Merging, Calm, Cleaning
  <1>2. SoleMerge => SoleMerge'
    BY <1>1, MergeUntouched DEF Owns, Working
  <1>3. ASSUME NEW p \in Calm, Good(p) PROVE Good(p)'
    BY <1>1, <1>3, Untouched DEF Calm
  <1> QED
    BY <1>1, <1>2, <1>3 DEF IInv, Orderly

-----------------------------------------------------------------------------
(* The theorem. *)

(* The queue does not open again.                                          *)
LEMMA ClosedStays == ASSUME closed, [Next]_vars PROVE closed'
  <1>1. ASSUME NEW w \in Workers, NEW p \in Paths, Take(w, p) PROVE closed'
    BY <1>1 DEF Take, Queue!Begin
  <1>2. ASSUME NEW w \in Workers, NEW p \in Paths, Process(w, p) PROVE closed'
    BY <1>2 DEF Process, Check, Modify, Modified, ReadSource, Compare, RunPipeline, Finish,
                Queue!End
  <1>3. ASSUME NEW w \in Workers, NEW p \in Paths, Interrupt(w, p) PROVE closed'
    BY <1>3 DEF Interrupt, Queue!Wind
  <1>4. ASSUME NEW w \in Workers, ThreadEnds(w) PROVE closed'
    BY <1>4 DEF ThreadEnds
  <1>5. ASSUME NEW k \in Cleaners, CleanUp(k) PROVE closed'
    BY <1>5 DEF CleanUp, RemoveHash, DeleteEntry, Deleted
  <1>6. CASE Edit \/ OnModified \/ OnDeleted
    BY <1>6 DEF Edit, OnModified, Queue!Change, OnDeleted
  <1>7. CASE Start \/ Stop \/ Stopping \/ UNCHANGED vars
    BY <1>7 DEF Start, Stop, Stopping, ObserverEnds, Joined, Gathered, Queue!Close, QueueStopped,
                vars
  <1> QED
    BY <1>1, <1>2, <1>3, <1>4, <1>5, <1>6, <1>7 DEF Next

LEMMA OrderlyStep == ASSUME IInv, [Next]_vars PROVE Orderly'
  <1>1. CASE closed'
    BY <1>1 DEF Orderly
  <1>2. CASE closed
    BY <1>1, <1>2, ClosedStays
  <1>3. CASE ~closed /\ ~closed'
    <2>1. ASSUME NEW w \in Workers, NEW p \in Paths, Process(w, p) PROVE Orderly'
      BY <1>3, <2>1, CheckOrderly, ModifyOrderly, ModifiedOrderly, ReadSourceOrderly,
         CompareOrderly, RunPipelineOrderly DEF Process
    <2>2. ASSUME NEW k \in Cleaners, CleanUp(k) PROVE Orderly'
      BY <1>3, <2>2, RemoveHashOrderly, DeleteEntryOrderly, DeletedOrderly DEF CleanUp
    <2>3. ASSUME NEW w \in Workers, NEW p \in Paths, Interrupt(w, p) PROVE Orderly'
      BY <1>3, <2>3 DEF Interrupt, Queue!Wind
    <2>4. ASSUME NEW w \in Workers, ThreadEnds(w) PROVE Orderly'
      BY <1>3, <2>4 DEF ThreadEnds
    <2>5. CASE Start \/ Stop \/ Stopping \/ UNCHANGED vars
      BY <1>3, <2>5, LifeOrderly DEF Start, Stop, Stopping, ObserverEnds, Joined, Gathered,
                                     Queue!Close, QueueStopped, vars
    <2> QED
      BY <2>1, <2>2, <2>3, <2>4, <2>5, EditOrderly, OnModifiedOrderly, OnDeletedOrderly,
         TakeOrderly DEF Next
  <1> QED
    BY <1>1, <1>2, <1>3

(* When all is done, a deleted file has left hashes.json and context.json, *)
(* and a file that parses is indexed as it is, if its deletion did not     *)
(* overlap with a run of it and no two threads changed context.json at     *)
(* once.                                                                   *)
THEOREM ApartPathsAreClean == Spec => []ApartIsClean
  <1>1. Init => IInv
    BY InitInv
  <1>2. IInv /\ [Next]_vars => IInv'
    <2> SUFFICES ASSUME IInv, [Next]_vars PROVE IInv'
      OBVIOUS
    <2>1. Base'
      BY NextBase DEF IInv
    <2>2. WorkerPcs' /\ Told' /\ Orderly'
      BY PcsStep, ToldStep, OrderlyStep DEF IInv
    <2> QED
      BY <2>1, <2>2 DEF IInv
  <1>3. IInv => ApartIsClean
    <2> SUFFICES ASSUME IInv, Settled, ~closed, NEW p \in Calm
                 PROVE  Accounted(p)
      BY DEF ApartIsClean, Calm
    <2>1. p \in Paths /\ events = <<>> /\ p \notin pending /\ busy[p] = {}
      BY DEF Settled, Calm
    <2>2. Cleaning(p) = {}
      BY DEF Settled, Cleaning
    <2>3. ~Announced(p)
      BY <2>1 DEF Announced, Mentions
    <2>4. Gone(p) /\ Kept(p)
      BY DEF IInv, Orderly, Good
    <2> QED
      BY <2>1, <2>2, <2>3, <2>4 DEF Gone, Kept, Accounted
  <1> QED
    BY <1>1, <1>2, <1>3, PTL DEF Spec

(* What the watcher does to the job queue is what PathGuard allows, which  *)
(* the worker pool of JobQueue implements.                                 *)
THEOREM KeepsToTheQueue == Spec => Queue!Spec
  <1>1. Init => Queue!Init
    BY DEF Init
  <1>2. ASSUME Base, [Next]_vars PROVE [Queue!Next]_(Queue!vars)
    <2> USE DEF Queue!Next, Queue!vars
    <2>1. ASSUME NEW w \in Workers, NEW p \in Paths, Take(w, p)
          PROVE  [Queue!Next]_(Queue!vars)
      BY <2>1 DEF Take
    <2>2. ASSUME NEW w \in Workers, NEW p \in Paths, Process(w, p)
          PROVE  [Queue!Next]_(Queue!vars)
      BY <2>2 DEF Process, Check, Modify, Modified, ReadSource, Compare, RunPipeline, Finish
    <2>3. ASSUME NEW w \in Workers, NEW p \in Paths, Interrupt(w, p)
          PROVE  [Queue!Next]_(Queue!vars)
      BY <2>3 DEF Interrupt
    <2>4. CASE OnModified
      <3>1. Head(events).path \in Paths
        BY <1>2, <2>4, Popped DEF Base, TypeOK, OnModified, Event
      <3> QED
        BY <2>4, <3>1 DEF OnModified
    <2>5. CASE Stopping
      BY <2>5 DEF Stopping, ObserverEnds, Joined, Gathered, QueueStopped
    <2>6. CASE Edit \/ OnDeleted \/ Start \/ Stop \/ UNCHANGED vars
      BY <2>6 DEF Edit, OnDeleted, Start, Stop, vars
    <2>7. ASSUME NEW w \in Workers, ThreadEnds(w) PROVE [Queue!Next]_(Queue!vars)
      BY <2>7 DEF ThreadEnds
    <2>8. ASSUME NEW k \in Cleaners, CleanUp(k) PROVE [Queue!Next]_(Queue!vars)
      BY <2>8 DEF CleanUp, RemoveHash, DeleteEntry, Deleted
    <2> QED
      BY <1>2, <2>1, <2>2, <2>3, <2>4, <2>5, <2>6, <2>7, <2>8 DEF Next
  <1>3. Init => Base
    BY InitType DEF Base
  <1> QED
    BY <1>1, <1>2, <1>3, NextBase, PTL DEF Spec, Queue!Spec
=============================================================================
