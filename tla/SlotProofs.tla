----------------------------- MODULE SlotProofs -----------------------------
(***************************************************************************)
(* The model slot, for any number of jobs, conversations, documents and    *)
(* model calls of a build: the queue and the arbiter agree about who runs, *)
(* no answer that waits is forgotten, a parked build has a way back, and   *)
(* without a queue tasks and answers never both call the model.            *)
(*                                                                         *)
(* The invariant has three parts: who works on the lane (LaneInv), how     *)
(* answers and arbiter know of each other (HandoverInv), and, for a user   *)
(* who never starts a task behind another, that the count of holders is    *)
(* exact (OneJobInv), so that a build takes the slot back only after the   *)
(* last answer.                                                            *)
(***************************************************************************)
EXTENDS ModelSlot, FiniteSetTheorems, SequenceTheorems, TLAPS

Slots == [build : Tasks \cup {NoTask}, pause : BOOLEAN, waiters : SUBSET Chats,
          holders : Nat, timer : BOOLEAN, overdue : BOOLEAN,
          promise : {"none", "pending", "resolved", "rejected"}]
Turns == [Chats -> [phase : {"idle", "waiting", "woken", "streaming", "ending"},
                    aborted : BOOLEAN, counted : BOOLEAN]]

Jobs == [Tasks -> [state : {"queued", "running", "ended"}, kind : Kinds, doc : Docs,
                   aborted : BOOLEAN, chained : Tasks \cup {NoTask}]]

\* The queue holds the queued, each once, and r alone runs.
InOrder(q, tk, r) ==
    /\ \A t \in Tasks : tk[t].state = "running" <=> t = r
    /\ \A t \in Tasks : tk[t].state = "queued" <=> \E i \in 1 .. Len(q) : q[i] = t
    /\ \A i, j \in 1 .. Len(q) : q[i] = q[j] => i = j

\* Who works on the lane, and what of the slot it holds.
LaneInv ==
    /\ LaneIsConsistent
    /\ running = NoTask <=> step = "none"
    /\ step = "generating" => nodesLeft > 0
    /\ step \in {"none", "leaving"} => slot.build = NoTask
    /\ step = "parked" <=> slot.promise # "none"
    /\ step = "parked" => slot.build # NoTask
    /\ workspace # "open" => queue = << >>

\* The marks of a turn at each of its stages.
Marks(tn) == \A c \in Chats :
    /\ tn[c].phase = "waiting" => ~tn[c].aborted /\ tn[c].counted
    /\ tn[c].phase = "woken" => tn[c].counted
    /\ tn[c].phase \in {"idle", "ending"} => ~tn[c].counted

\* Who waits is known to the arbiter, and a pause is asked for while one does.
Known(s, tn) ==
    /\ \A c \in Chats : tn[c].phase = "waiting" <=> c \in s.waiters
    /\ s.pause <=> s.waiters # {}

\* The count of holders never exceeds them: it restarts with each build.
Counted(tn) == {c \in Chats : tn[c].counted}
Balance(s, tn) ==
    /\ s.holders <= Cardinality(Counted(tn))
    /\ s.promise = "pending" => s.timer \/ Counted(tn) # {}

HandoverInv ==
    /\ Marks(turn) /\ Known(slot, turn) /\ Balance(slot, turn)
    /\ slot.build = NoTask => slot.waiters = {}

\* Where a build has the model to itself, no answer is about to use it.
Quiet(tn) == \A c \in Chats : tn[c].phase # "woken" /\ (tn[c].phase = "streaming" => tn[c].aborted)
\* While it is parked, whoever uses the model counts.
AllCount(tn) == \A c \in Chats : tn[c].phase = "streaming" /\ ~tn[c].aborted => tn[c].counted

OneJobInv ==
    /\ skillRun => running = NoTask /\ queue = << >> /\ ~IsChatStreaming
    /\ patient => /\ queue = << >>
                  /\ slot.holders = Cardinality(Counted(turn))
                  /\ step = "generating" \/ slot.promise = "resolved" => Quiet(turn)
                  /\ step = "parked" => AllCount(turn)

USE NodesAssumption, KindsAssumption, NoTaskAssumption, ChatsAssumption, DocsAssumption

-----------------------------------------------------------------------------
(* The arbiter's operators. *)

LEMMA CountedFinite ==
  ASSUME NEW tn
  PROVE  IsFiniteSet(Counted(tn)) /\ Cardinality(Counted(tn)) \in Nat
<1>1. Counted(tn) \in SUBSET Chats
  BY DEF Counted
<1> QED
  BY <1>1, FS_Subset, FS_CardinalityType

\* What n releases in a row do to the slot.
LEMMA ReleasedEffect ==
  ASSUME NEW s \in Slots, NEW n \in Nat
  PROVE  /\ Released(s, n) \in Slots
         /\ Released(s, n).build = s.build
         /\ Released(s, n).waiters = s.waiters
         /\ Released(s, n).pause = s.pause
         /\ Released(s, n).holders = IF s.holders > n THEN s.holders - n ELSE 0
         /\ Released(s, n).promise # s.promise =>
               s.promise = "pending" /\ Released(s, n).promise = "resolved"
               /\ Released(s, n).holders = 0
         /\ n = 0 => Released(s, n).timer = s.timer
         /\ n > 0 /\ Released(s, n).holders = 0 /\ Released(s, n).promise = "pending"
               => Released(s, n).timer
<1> DEFINE left == IF s.holders > n THEN s.holders - n ELSE 0
           less == [s EXCEPT !.holders = left]
<1>1. left \in Nat
  BY DEF Slots
<1>2. less \in Slots /\ less.holders = left /\ less.build = s.build /\ less.waiters = s.waiters
      /\ less.pause = s.pause /\ less.promise = s.promise /\ less.timer = s.timer
  BY <1>1 DEF Slots
<1> HIDE DEF left, less
<1>3. CASE n = 0 \/ left # 0 \/ s.promise # "pending"
  <2>1. Released(s, n) = less
    BY <1>3 DEF Released, left, less
  <2> QED
    BY <1>2, <1>3, <2>1 DEF left
<1>4. CASE ~(n = 0 \/ left # 0 \/ s.promise # "pending") /\ s.overdue
  <2>1. Released(s, n) = [less EXCEPT !.promise = "resolved", !.overdue = FALSE]
    BY <1>2, <1>4 DEF Released, Resumed, left, less
  <2>2. Released(s, n) \in Slots
    BY <1>2, <2>1 DEF Slots
  <2>3. /\ Released(s, n).holders = left /\ Released(s, n).build = s.build
        /\ Released(s, n).waiters = s.waiters /\ Released(s, n).pause = s.pause
        /\ Released(s, n).promise = "resolved"
    BY <1>2, <2>1 DEF Slots
  <2> QED
    BY <1>4, <2>2, <2>3 DEF left
<1>5. CASE ~(n = 0 \/ left # 0 \/ s.promise # "pending") /\ ~s.overdue
  <2>1. Released(s, n) = [less EXCEPT !.timer = TRUE]
    BY <1>2, <1>5 DEF Released, left, less
  <2>2. Released(s, n) \in Slots
    BY <1>2, <2>1 DEF Slots
  <2>3. /\ Released(s, n).holders = left /\ Released(s, n).build = s.build
        /\ Released(s, n).waiters = s.waiters /\ Released(s, n).pause = s.pause
        /\ Released(s, n).promise = s.promise /\ Released(s, n).timer
    BY <1>2, <2>1 DEF Slots
  <2> QED
    BY <1>5, <2>2, <2>3 DEF left
<1> QED
  BY <1>3, <1>4, <1>5

\* Releasing for exactly those who stop counting keeps the balance.
LEMMA ReleasedBalance ==
  ASSUME NEW s \in Slots, NEW tn, NEW tm, NEW D,
         D \subseteq Counted(tn), Counted(tm) = Counted(tn) \ D, Balance(s, tn)
  PROVE  /\ Cardinality(D) \in Nat
         /\ Balance(Released(s, Cardinality(D)), tm)
         /\ s.holders = Cardinality(Counted(tn)) =>
               Released(s, Cardinality(D)).holders = Cardinality(Counted(tm))
<1> DEFINE n == Cardinality(D)
           r == Released(s, n)
           a == Cardinality(Counted(tn))
           b == Cardinality(Counted(tm))
<1>1. IsFiniteSet(D) /\ n \in Nat /\ a \in Nat /\ b \in Nat
  BY CountedFinite, FS_Subset, FS_CardinalityType
<1>2. b = a - n
  <2>1. Counted(tn) \cap D = D
    OBVIOUS
  <2>2. b = a - Cardinality(Counted(tn) \cap D)
    BY CountedFinite, FS_Difference
  <2> QED
    BY <2>1, <2>2
<1>3. n = 0 => D = {}
  BY <1>1, FS_EmptySet
<1>4. b = 0 <=> Counted(tm) = {}
  BY CountedFinite, FS_EmptySet
<1>5. s.holders \in Nat /\ s.holders <= a /\ (s.promise = "pending" => s.timer \/ Counted(tn) # {})
  BY DEF Slots, Balance
<1>6. /\ r.holders = IF s.holders > n THEN s.holders - n ELSE 0
      /\ r.promise # s.promise => r.promise = "resolved"
      /\ n = 0 => r.timer = s.timer
      /\ n > 0 /\ r.holders = 0 /\ r.promise = "pending" => r.timer
  BY <1>1, ReleasedEffect, SMTT(40)
<1> HIDE DEF n, r, a, b
<1>7. r.holders <= b
  BY <1>1, <1>2, <1>5, <1>6
<1>8. s.holders = a => r.holders = b
  BY <1>1, <1>2, <1>6
<1>9a. r.holders \in Nat
  BY <1>1, <1>5, <1>6
<1>9. r.promise = "pending" => r.timer \/ Counted(tm) # {}
  <2>1. CASE n = 0
    BY <1>3, <1>5, <1>6, <2>1
  <2>2. CASE n > 0
    BY <1>1, <1>4, <1>6, <1>7, <1>9a, <2>2
  <2> QED
    BY <1>1, <2>1, <2>2
<1> QED
  BY <1>1, <1>7, <1>8, <1>9 DEF Balance, n, r, a, b

\* What the abort signal of some turns does to the turns...
LEMMA AbortedEffect ==
  ASSUME NEW tn \in Turns, NEW C \in SUBSET Chats, Marks(tn)
  PROVE  /\ AbortedTurns(tn, C) \in Turns
         /\ Marks(AbortedTurns(tn, C))
         /\ \A c \in Chats : AbortedTurns(tn, C)[c].phase = "waiting"
               <=> tn[c].phase = "waiting" /\ c \notin C
         /\ Counted(AbortedTurns(tn, C)) = Counted(tn) \ GivingUp(tn, C)
         /\ GivingUp(tn, C) \subseteq Counted(tn)
         /\ Quiet(tn) => Quiet(AbortedTurns(tn, C))
         /\ AllCount(tn) => AllCount(AbortedTurns(tn, C))
<1> DEFINE tm == AbortedTurns(tn, C)
<1>1. tm \in Turns
  BY DEF AbortedTurns, Turns
<1>2. \A c \in Chats : c \notin C \/ tn[c].phase \in {"idle", "ending"} => tm[c] = tn[c]
  BY DEF AbortedTurns
<1>3. \A c \in C : tn[c].phase \notin {"idle", "ending"} =>
        /\ tm[c].phase = IF tn[c].phase = "waiting" THEN "ending" ELSE tn[c].phase
        /\ tm[c].aborted
        /\ tm[c].counted <=> tn[c].counted /\ c \notin GivingUp(tn, C)
  BY DEF AbortedTurns
<1>4. \A c \in GivingUp(tn, C) :
        c \in C /\ ~tn[c].aborted /\ tn[c].phase \in {"waiting", "streaming"} /\ tn[c].counted
  BY DEF GivingUp
<1>5. \A c \in C : ~tn[c].aborted /\ tn[c].phase \in {"waiting", "streaming"} /\ tn[c].counted
                     => c \in GivingUp(tn, C)
  BY DEF GivingUp
<1> HIDE DEF tm
<1>6. GivingUp(tn, C) \subseteq Counted(tn)
  BY <1>4 DEF Counted
<1>7. Marks(tm)
  <2> SUFFICES ASSUME NEW c \in Chats
               PROVE  /\ tm[c].phase = "waiting" => ~tm[c].aborted /\ tm[c].counted
                      /\ tm[c].phase = "woken" => tm[c].counted
                      /\ tm[c].phase \in {"idle", "ending"} => ~tm[c].counted
    BY DEF Marks
  <2>0. /\ tn[c].phase = "waiting" => ~tn[c].aborted /\ tn[c].counted
        /\ tn[c].phase = "woken" => tn[c].counted
        /\ tn[c].phase \in {"idle", "ending"} => ~tn[c].counted
    BY DEF Marks
  <2>1. CASE c \notin C \/ tn[c].phase \in {"idle", "ending"}
    BY <1>2, <2>0, <2>1
  <2>2. CASE c \in C /\ tn[c].phase = "waiting"
    BY <1>3, <1>5, <2>0, <2>2
  <2>3. CASE c \in C /\ tn[c].phase = "woken"
    BY <1>3, <1>4, <2>0, <2>3
  <2>4. CASE c \in C /\ tn[c].phase = "streaming"
    BY <1>3, <2>4
  <2> QED
    BY <2>1, <2>2, <2>3, <2>4 DEF Turns
<1>8. \A c \in Chats : tm[c].phase = "waiting" <=> tn[c].phase = "waiting" /\ c \notin C
  BY <1>2, <1>3
<1>9. \A c \in Chats : tm[c].counted <=> tn[c].counted /\ c \notin GivingUp(tn, C)
  BY <1>2, <1>3, <1>4
<1>10. Counted(tm) = Counted(tn) \ GivingUp(tn, C)
  BY <1>9 DEF Counted
<1>11. Quiet(tn) => Quiet(tm)
  BY <1>2, <1>3 DEF Quiet
<1>12. AllCount(tn) => AllCount(tm)
  BY <1>2, <1>3 DEF AllCount
<1> QED
  BY <1>1, <1>6, <1>7, <1>8, <1>10, <1>11, <1>12 DEF tm

\* ... and to the slot.
LEMMA AbortsEffect ==
  ASSUME NEW s \in Slots, NEW tn \in Turns, NEW C \in SUBSET Chats,
         Marks(tn), Known(s, tn), Balance(s, tn)
  PROVE  LET r == AfterAborts(s, tn, C)
             tm == AbortedTurns(tn, C)
         IN  /\ r \in Slots /\ r.build = s.build /\ r.waiters = s.waiters \ C
             /\ r.promise # s.promise =>
                   s.promise = "pending" /\ r.promise = "resolved" /\ r.holders = 0
             /\ Known(r, tm) /\ Balance(r, tm)
             /\ s.holders = Cardinality(Counted(tn)) => r.holders = Cardinality(Counted(tm))
<1> DEFINE D == GivingUp(tn, C)
           e == Released(s, Cardinality(D))
           r == AfterAborts(s, tn, C)
           tm == AbortedTurns(tn, C)
<1>1. D \subseteq Counted(tn) /\ Counted(tm) = Counted(tn) \ D
  BY AbortedEffect
<1>2. Cardinality(D) \in Nat
  BY <1>1, ReleasedBalance
<1>3. /\ e \in Slots /\ e.build = s.build /\ e.waiters = s.waiters /\ e.pause = s.pause
      /\ e.promise # s.promise => s.promise = "pending" /\ e.promise = "resolved" /\ e.holders = 0
  BY <1>2, ReleasedEffect
<1>4. /\ Balance(e, tm)
      /\ s.holders = Cardinality(Counted(tn)) => e.holders = Cardinality(Counted(tm))
  BY <1>1, ReleasedBalance
<1>5. \A c \in Chats : tm[c].phase = "waiting" <=> tn[c].phase = "waiting" /\ c \notin C
  BY AbortedEffect
<1>6. r = [e EXCEPT !.waiters = e.waiters \ C,
                    !.pause = @ /\ (C \cap e.waiters = {} \/ e.waiters \ C # {})]
  BY DEF AfterAborts, NoLongerAsked
<1> HIDE DEF D, e, r, tm
<1>7. /\ r \in Slots /\ r.build = e.build /\ r.holders = e.holders /\ r.promise = e.promise
      /\ r.timer = e.timer /\ r.waiters = e.waiters \ C
      /\ r.pause <=> e.pause /\ (C \cap e.waiters = {} \/ e.waiters \ C # {})
  BY <1>3, <1>6 DEF Slots
<1>8. Known(r, tm)
  BY <1>3, <1>5, <1>7 DEF Known
<1>9. Balance(r, tm)
  BY <1>4, <1>7 DEF Balance
<1> QED
  BY <1>3, <1>4, <1>7, <1>8, <1>9 DEF r, tm

\* Rejecting the promise of a build disturbs neither.
LEMMA TornEffect ==
  ASSUME NEW s \in Slots
  PROVE  /\ Torn(s) \in Slots
         /\ Torn(s).build = s.build /\ Torn(s).pause = s.pause /\ Torn(s).waiters = s.waiters
         /\ Torn(s).holders = s.holders
         /\ Torn(s).promise = IF s.promise = "pending" THEN "rejected" ELSE s.promise
BY DEF Torn, Slots

\* A hand-over wakes everybody who waits, and each of them counts.
LEMMA WokenEffect ==
  ASSUME NEW s \in Slots, NEW tn \in Turns, Marks(tn), Known(s, tn)
  PROVE  /\ Woken(tn, s) \in Turns /\ Marks(Woken(tn, s))
         /\ \A c \in Chats : Woken(tn, s)[c].phase # "waiting"
         /\ Counted(Woken(tn, s)) = Counted(tn)
         /\ \A c \in Chats : Woken(tn, s)[c].phase = "streaming" =>
               Woken(tn, s)[c] = tn[c]
<1> DEFINE tm == Woken(tn, s)
<1>1. tm \in Turns
  BY DEF Woken, Turns
<1>2. \A c \in Chats : IF c \in s.waiters
        THEN tm[c].phase = "woken" /\ tm[c].aborted = tn[c].aborted /\ tm[c].counted = tn[c].counted
        ELSE tm[c] = tn[c]
  BY DEF Woken, Turns
<1> HIDE DEF tm
<1>3. Marks(tm)
  BY <1>2 DEF Marks, Known
<1>4. \A c \in Chats : tm[c].phase # "waiting"
  BY <1>2 DEF Known
<1>5. Counted(tm) = Counted(tn)
  BY <1>2 DEF Counted
<1> QED
  BY <1>1, <1>2, <1>3, <1>4, <1>5 DEF tm

-----------------------------------------------------------------------------
(* The queue. *)

LEMMA OverTyped ==
  ASSUME NEW t \in Tasks \cup {NoTask}
  PROVE  Over(t) \in [state : {"queued", "running", "ended"}, kind : Kinds, doc : Docs,
                      aborted : BOOLEAN, chained : Tasks \cup {NoTask}]
<1>1. AnyDoc \in Docs
  BY DEF AnyDoc
<1> QED
  BY <1>1 DEF Over, Kinds

LEMMA QueueOrder ==
  ASSUME NEW q \in Seq(Tasks), NEW tk \in Jobs, NEW tm \in Jobs, NEW r,
         \A t \in Tasks : tm[t].state = tk[t].state, InOrder(q, tk, r)
  PROVE  InOrder(q, tm, r)
BY DEF InOrder

LEMMA AppendOrder ==
  ASSUME NEW q \in Seq(Tasks), NEW tk \in Jobs, NEW tm \in Jobs, NEW r, NEW t \in Tasks,
         InOrder(q, tk, r), tk[t].state = "ended", tm[t].state = "queued",
         \A u \in Tasks \ {t} : tm[u].state = tk[u].state
  PROVE  Append(q, t) \in Seq(Tasks) /\ InOrder(Append(q, t), tm, r)
<1> DEFINE p == Append(q, t)
<1>1. p \in Seq(Tasks) /\ Len(q) \in Nat /\ Len(p) = Len(q) + 1
      /\ (\A i \in 1 .. Len(q) : p[i] = q[i]) /\ p[Len(q) + 1] = t
  BY AppendProperties
<1>2. \A i \in 1 .. Len(q) : q[i] \in Tasks /\ q[i] # t
  BY ElementOfSeq DEF InOrder
<1> HIDE DEF p
<1>3. \A u \in Tasks : tm[u].state = "running" <=> u = r
  BY DEF InOrder
<1>4. ASSUME NEW u \in Tasks
      PROVE  tm[u].state = "queued" <=> \E i \in 1 .. Len(p) : p[i] = u
  <2>1. CASE u = t
    BY <1>1, <2>1
  <2>2. CASE u # t
    <3>1. tm[u].state = "queued" <=> \E i \in 1 .. Len(q) : q[i] = u
      BY <2>2 DEF InOrder
    <3>2. (\E i \in 1 .. Len(q) : q[i] = u) => \E i \in 1 .. Len(p) : p[i] = u
      BY <1>1
    <3>3. ASSUME NEW i \in 1 .. Len(p), p[i] = u PROVE i \in 1 .. Len(q) /\ q[i] = u
      BY <1>1, <2>2, <3>3
    <3> QED
      BY <3>1, <3>2, <3>3
  <2> QED
    BY <2>1, <2>2
<1>5. ASSUME NEW i \in 1 .. Len(p), NEW j \in 1 .. Len(p), p[i] = p[j]
      PROVE  i = j
  <2>1. CASE i \in 1 .. Len(q) /\ j \in 1 .. Len(q)
    BY <1>1, <1>5, <2>1 DEF InOrder
  <2>2. CASE i = Len(q) + 1 \/ j = Len(q) + 1
    BY <1>1, <1>2, <1>5, <2>2
  <2> QED
    BY <1>1, <2>1, <2>2
<1> QED
  BY <1>1, <1>3, <1>4, <1>5 DEF InOrder, p

LEMMA RemoveOrder ==
  ASSUME NEW q \in Seq(Tasks), NEW tk \in Jobs, NEW tm \in Jobs, NEW r, NEW i \in 1 .. Len(q),
         InOrder(q, tk, r), tm[q[i]].state = "ended",
         \A u \in Tasks \ {q[i]} : tm[u].state = tk[u].state
  PROVE  Without(q, i) \in Seq(Tasks) /\ InOrder(Without(q, i), tm, r)
<1> DEFINE a == SubSeq(q, 1, i - 1)
           b == SubSeq(q, i + 1, Len(q))
           p == Without(q, i)
           n == Len(q)
<1>0. n \in Nat /\ i \in Nat /\ i >= 1 /\ i <= n /\ q[i] \in Tasks
      /\ \A k \in 1 .. n : q[k] \in Tasks
  BY ElementOfSeq, LenProperties
<1>1. a \in Seq(Tasks) /\ Len(a) = i - 1 /\ \A k \in 1 .. i - 1 : a[k] = q[k]
  <2>1. \A k \in 1 .. i - 1 : q[k] \in Tasks
    BY <1>0
  <2>2. /\ a \in Seq(Tasks) /\ Len(a) = IF 1 <= i - 1 THEN (i - 1) - 1 + 1 ELSE 0
        /\ \A k \in 1 .. (i - 1) - 1 + 1 : a[k] = q[1 + k - 1]
    BY <1>0, <2>1, SubSeqProperties
  <2> HIDE DEF a
  <2> QED
    BY <1>0, <2>2
<1>2. b \in Seq(Tasks) /\ Len(b) = n - i /\ \A k \in 1 .. n - i : b[k] = q[i + k]
  <2>1. \A k \in i + 1 .. n : q[k] \in Tasks
    BY <1>0
  <2>2. /\ b \in Seq(Tasks) /\ Len(b) = IF i + 1 <= n THEN n - (i + 1) + 1 ELSE 0
        /\ \A k \in 1 .. n - (i + 1) + 1 : b[k] = q[i + 1 + k - 1]
    BY <1>0, <2>1, SubSeqProperties
  <2> HIDE DEF b
  <2> QED
    BY <1>0, <2>2
<1>3. /\ p \in Seq(Tasks) /\ Len(p) = Len(a) + Len(b)
      /\ \A k \in 1 .. Len(a) + Len(b) : p[k] = IF k <= Len(a) THEN a[k] ELSE b[k - Len(a)]
  <2>1. p = a \o b
    BY DEF Without
  <2>2. a \in Seq(Tasks) /\ b \in Seq(Tasks)
    BY <1>1, <1>2
  <2> HIDE DEF a, b, p
  <2>3. /\ a \o b \in Seq(Tasks) /\ Len(a \o b) = Len(a) + Len(b)
        /\ \A k \in 1 .. Len(a) + Len(b) :
              (a \o b)[k] = IF k <= Len(a) THEN a[k] ELSE b[k - Len(a)]
    BY <2>2, ConcatProperties
  <2> QED
    BY <2>1, <2>3
<1> HIDE DEF a, b, p, n
<1>4. Len(p) = n - 1 /\ \A k \in 1 .. n - 1 : p[k] = IF k < i THEN q[k] ELSE q[k + 1]
  <2>1. Len(p) = n - 1
    BY <1>0, <1>1, <1>2, <1>3
  <2>2. ASSUME NEW k \in 1 .. n - 1 PROVE p[k] = IF k < i THEN q[k] ELSE q[k + 1]
    <3>1. CASE k < i
      BY <1>0, <1>1, <1>2, <1>3, <3>1
    <3>2. CASE ~(k < i)
      <4>1. k - (i - 1) \in 1 .. n - i /\ i + (k - (i - 1)) = k + 1
        BY <1>0, <3>2
      <4>2. p[k] = b[k - (i - 1)]
        BY <1>0, <1>1, <1>2, <1>3, <3>2
      <4> QED
        BY <1>2, <3>2, <4>1, <4>2
    <3> QED
      BY <3>1, <3>2
  <2> QED
    BY <2>1, <2>2
<1>5. \A k, l \in 1 .. n : q[k] = q[l] => k = l
  BY DEF InOrder, n
<1>6. \A u \in Tasks : tm[u].state = "running" <=> u = r
  BY <1>0 DEF InOrder, n
<1>7. ASSUME NEW u \in Tasks
      PROVE  tm[u].state = "queued" <=> \E k \in 1 .. Len(p) : p[k] = u
  <2>1. CASE u = q[i]
    <3>1. \A k \in 1 .. n - 1 : p[k] # q[i]
      BY <1>0, <1>4, <1>5, SMTT(40)
    <3> QED
      BY <1>4, <2>1, <3>1
  <2>2. CASE u # q[i]
    <3>1. tm[u].state = "queued" <=> \E k \in 1 .. n : q[k] = u
      BY <2>2 DEF InOrder, n
    <3>2. ASSUME NEW k \in 1 .. n, q[k] = u PROVE \E l \in 1 .. n - 1 : p[l] = u
      <4>1. CASE k < i
        BY <1>0, <1>4, <3>2, <4>1
      <4>2. CASE k > i
        <5>1. k - 1 \in 1 .. n - 1 /\ ~(k - 1 < i) /\ (k - 1) + 1 = k
          BY <1>0, <4>2
        <5> QED
          BY <1>4, <3>2, <5>1
      <4> QED
        BY <1>0, <2>2, <3>2, <4>1, <4>2
    <3>3. ASSUME NEW k \in 1 .. n - 1, p[k] = u PROVE \E l \in 1 .. n : q[l] = u
      <4>1. CASE k < i
        BY <1>0, <1>4, <3>3, <4>1
      <4>2. CASE ~(k < i)
        BY <1>0, <1>4, <3>3, <4>2
      <4> QED
        BY <4>1, <4>2
    <3> QED
      BY <1>4, <3>1, <3>2, <3>3
  <2> QED
    BY <2>1, <2>2
<1>8. ASSUME NEW k \in 1 .. Len(p), NEW l \in 1 .. Len(p), p[k] = p[l]
      PROVE  k = l
  BY <1>0, <1>4, <1>5, <1>8
<1> QED
  BY <1>3, <1>6, <1>7, <1>8 DEF InOrder, p

LEMMA HeadOrder ==
  ASSUME NEW q \in Seq(Tasks), q # << >>, NEW tk \in Jobs, NEW tm \in Jobs,
         InOrder(q, tk, NoTask), tm[Head(q)].state = "running",
         \A u \in Tasks \ {Head(q)} : tm[u].state = tk[u].state
  PROVE  /\ Head(q) \in Tasks /\ Tail(q) \in Seq(Tasks)
         /\ InOrder(Tail(q), tm, Head(q))
<1> DEFINE h == Head(q)
           p == Tail(q)
           n == Len(q)
<1>1. /\ h \in Tasks /\ p \in Seq(Tasks) /\ n \in Nat /\ n >= 1 /\ Len(p) = n - 1
      /\ \A k \in 1 .. n - 1 : p[k] = q[k + 1]
      /\ h = q[1]
  BY HeadTailProperties, EmptySeq
<1> HIDE DEF h, p, n
<1>2. \A k, l \in 1 .. n : q[k] = q[l] => k = l
  BY DEF InOrder, n
<1>3. \A u \in Tasks : tm[u].state = "running" <=> u = h
  BY <1>1 DEF InOrder, h
<1>4. ASSUME NEW u \in Tasks
      PROVE  tm[u].state = "queued" <=> \E k \in 1 .. Len(p) : p[k] = u
  <2>1. CASE u = h
    BY <1>1, <1>2, <2>1 DEF h
  <2>2. CASE u # h
    <3>1. tm[u].state = "queued" <=> \E k \in 1 .. n : q[k] = u
      BY <2>2 DEF InOrder, n, h
    <3>2. ASSUME NEW k \in 1 .. n, q[k] = u PROVE \E l \in 1 .. n - 1 : p[l] = u
      <4>1. k - 1 \in 1 .. n - 1 /\ (k - 1) + 1 = k
        BY <1>1, <2>2, <3>2
      <4> QED
        BY <1>1, <3>2, <4>1
    <3>3. ASSUME NEW k \in 1 .. n - 1, p[k] = u PROVE \E l \in 1 .. n : q[l] = u
      BY <1>1, <3>3, SMTT(40)
    <3> QED
      BY <1>1, <3>1, <3>2, <3>3
  <2> QED
    BY <2>1, <2>2
<1>5. ASSUME NEW k \in 1 .. Len(p), NEW l \in 1 .. Len(p), p[k] = p[l]
      PROVE  k = l
  BY <1>1, <1>2, <1>5
<1> QED
  BY <1>1, <1>3, <1>4, <1>5 DEF InOrder, h, p

\* The dispatch: the next id runs, and a build that finds the model registers.
LEMMA PumpEffect ==
  ASSUME NEW q \in Seq(Tasks), NEW tk \in Jobs, NEW s \in Slots,
         InOrder(q, tk, NoTask), s.build = NoTask, s.promise = "none",
         Pump(q, tk, s)
  PROVE  /\ queue' \in Seq(Tasks) /\ running' \in Tasks \cup {NoTask} /\ task' \in Jobs
         /\ nodesLeft' \in 0 .. Nodes /\ outcome' \in Outcomes /\ slot' \in Slots
         /\ InOrder(queue', task', running')
         /\ slot'.build # NoTask => slot'.build = running' /\ task'[running'].kind \in Building
         /\ running' = NoTask <=> step' = "none"
         /\ step' \in {"none", "generating", "leaving"}
         /\ step' = "generating" => nodesLeft' > 0
         /\ step' \in {"none", "leaving"} => slot'.build = NoTask
         /\ slot'.promise = "none"
         /\ slot' = s \/ (q # << >> /\ slot' = Registered(Head(q)))
         /\ q = << >> => queue' = << >> /\ running' = NoTask
         /\ q # << >> => running' = Head(q) /\ queue' = Tail(q)
<1>1. CASE q = << >>
  BY <1>1 DEF Pump, Outcomes
<1>2. CASE q # << >>
  <2> DEFINE t == Head(q)
             tm == [tk EXCEPT ![t].state = "running"]
  <2>1. t \in Tasks
    BY <1>2, HeadTailProperties
  <2>2. tm \in Jobs /\ tm[t].state = "running" /\ tm[t].kind = tk[t].kind
        /\ \A u \in Tasks \ {t} : tm[u].state = tk[u].state
    BY <2>1 DEF Jobs
  <2>3. /\ queue' = Tail(q) /\ running' = t /\ task' = tm
        /\ step' = IF modelUp THEN "generating" ELSE "leaving"
        /\ outcome' = IF modelUp THEN "done" ELSE "failed"
        /\ nodesLeft' = IF tk[t].kind \in Building THEN Nodes ELSE 1
        /\ slot' = IF tk[t].kind \in Building /\ modelUp THEN Registered(t) ELSE s
    BY <1>2 DEF Pump
  <2>4. Registered(t) \in Slots /\ Registered(t).build = t /\ Registered(t).promise = "none"
    BY <2>1 DEF Registered, FreeSlot, Slots
  <2> HIDE DEF tm
  <2>5. Tail(q) \in Seq(Tasks) /\ InOrder(Tail(q), tm, t)
    BY <1>2, <2>2, HeadOrder
  <2> HIDE DEF t
  <2>6. nodesLeft' \in 0 .. Nodes /\ nodesLeft' > 0 /\ outcome' \in Outcomes
    BY <2>3 DEF Outcomes
  <2>7. t # NoTask
    BY <2>1
  <2> QED
    BY <1>2, <2>1, <2>2, <2>3, <2>4, <2>5, <2>6, <2>7 DEF t
<1> QED
  BY <1>1, <1>2

-----------------------------------------------------------------------------
(* Types and the lane. *)

\* TypeOK in the words of this module.
LEMMA TypesNamed ==
  TypeOK <=> /\ queue \in Seq(Tasks) /\ running \in Tasks \cup {NoTask} /\ task \in Jobs
             /\ step \in {"none", "generating", "parked", "leaving"}
             /\ nodesLeft \in 0 .. Nodes /\ outcome \in Outcomes
             /\ slot \in Slots /\ turn \in Turns
             /\ skillRun \in BOOLEAN /\ modelUp \in BOOLEAN /\ patient \in BOOLEAN
             /\ workspace \in {"open", "locking", "locked"}
BY DEF TypeOK, Jobs, Slots, Turns

LEMMA LaneNamed ==
  LaneIsConsistent <=> /\ InOrder(queue, task, running)
                       /\ slot.build # NoTask => slot.build = running /\ Kind \in Building
BY DEF LaneIsConsistent, InOrder

\* Asking: the slot and the turn after it.
LEMMA AskEffect ==
  ASSUME TypeOK, LaneInv, NEW c \in Chats, Ask(c)
  PROVE  /\ UNCHANGED <<taskVars, otherVars>>
         /\ workspace = "open" /\ modelUp /\ ~skillRun
         /\ running # NoTask => slot.build # NoTask
         /\ slot' \in Slots /\ turn' \in Turns
         /\ slot'.build = slot.build /\ slot'.promise = slot.promise
         /\ turn[c].phase = "idle" /\ ~turn'[c].aborted
         /\ \A d \in Chats \ {c} : turn'[d] = turn[d]
         /\ \/ /\ slot.build = NoTask /\ turn'[c].phase = "streaming" /\ ~turn'[c].counted
               /\ slot' = slot
            \/ /\ slot.build # NoTask /\ slot.promise = "pending"
               /\ turn'[c].phase = "streaming" /\ turn'[c].counted
               /\ slot'.holders = slot.holders + 1
               /\ slot'.pause = slot.pause /\ slot'.waiters = slot.waiters
            \/ /\ slot.build # NoTask /\ slot.promise # "pending"
               /\ turn'[c].phase = "waiting" /\ turn'[c].counted
               /\ slot'.holders = slot.holders + 1
               /\ slot'.pause /\ slot'.waiters = slot.waiters \cup {c}
<1>0. slot \in Slots /\ turn \in Turns
  BY TypesNamed
<1> USE <1>0 DEF Slots, Turns
<1>1. running # NoTask => slot.build # NoTask
  BY DEF Ask, AdmitsAnswer, HasActiveTask
<1>2. UNCHANGED <<taskVars, otherVars>> /\ workspace = "open" /\ modelUp /\ ~skillRun
      /\ turn[c].phase = "idle"
  BY DEF Ask, AdmitsAnswer
<1> DEFINE counted == [slot EXCEPT !.holders = @ + 1, !.timer = FALSE]
<1>3. counted \in Slots /\ counted.build = slot.build /\ counted.promise = slot.promise
      /\ counted.holders = slot.holders + 1 /\ counted.pause = slot.pause
      /\ counted.waiters = slot.waiters
  <2>1. slot.holders + 1 \in Nat
    OBVIOUS
  <2> QED
    BY <2>1
<1> HIDE DEF counted
<1>4. CASE slot.build = NoTask
  <2>1. slot' = slot
        /\ turn' = [turn EXCEPT ![c] = [phase |-> "streaming", aborted |-> FALSE, counted |-> FALSE]]
    BY <1>4 DEF Ask
  <2> QED
    BY <1>1, <1>2, <1>4, <2>1
<1>5. CASE slot.build # NoTask /\ slot.promise = "pending"
  <2>1. slot' = counted
        /\ turn' = [turn EXCEPT ![c] = [phase |-> "streaming", aborted |-> FALSE, counted |-> TRUE]]
    BY <1>5 DEF Ask, counted
  <2>2. turn' \in Turns /\ turn'[c] = [phase |-> "streaming", aborted |-> FALSE, counted |-> TRUE]
        /\ \A d \in Chats \ {c} : turn'[d] = turn[d]
    BY <2>1
  <2> QED
    BY <1>1, <1>2, <1>3, <1>5, <2>1, <2>2
<1>6. CASE slot.build # NoTask /\ slot.promise # "pending"
  <2>1. slot' = [counted EXCEPT !.pause = TRUE, !.waiters = @ \cup {c}]
        /\ turn' = [turn EXCEPT ![c] = [phase |-> "waiting", aborted |-> FALSE, counted |-> TRUE]]
    BY <1>6 DEF Ask, counted
  <2>2. turn' \in Turns /\ turn'[c] = [phase |-> "waiting", aborted |-> FALSE, counted |-> TRUE]
        /\ \A d \in Chats \ {c} : turn'[d] = turn[d]
    BY <2>1
  <2>3. slot' \in Slots /\ slot'.build = slot.build /\ slot'.promise = slot.promise
        /\ slot'.holders = slot.holders + 1 /\ slot'.pause /\ slot'.waiters = slot.waiters \cup {c}
    BY <1>3, <2>1
  <2> QED
    BY <1>1, <1>2, <1>6, <2>2, <2>3
<1> QED
  BY <1>4, <1>5, <1>6

\* The end of a turn, and a woken turn that finds its Stop.
LEMMA GiveBackEffect ==
  ASSUME TypeOK, HandoverInv, NEW c \in Chats, GoOn(c) \/ EndTurn(c)
  PROVE  /\ UNCHANGED <<taskVars, otherVars>>
         /\ slot' \in Slots /\ turn' \in Turns
         /\ slot'.build = slot.build /\ slot'.pause = slot.pause /\ slot'.waiters = slot.waiters
         /\ slot'.promise # slot.promise =>
               slot.promise = "pending" /\ slot'.promise = "resolved" /\ slot'.holders = 0
         /\ \A d \in Chats \ {c} : turn'[d] = turn[d]
         /\ turn[c].phase # "waiting" /\ turn'[c].phase \notin {"waiting", "woken"}
         /\ turn'[c].phase = "streaming" =>
               /\ turn[c].phase = "woken" /\ ~turn[c].aborted /\ turn'[c].counted
         /\ Marks(turn') /\ Balance(slot', turn')
         /\ slot.holders = Cardinality(Counted(turn)) =>
               slot'.holders = Cardinality(Counted(turn'))
<1>0. slot \in Slots /\ turn \in Turns /\ Marks(turn) /\ Balance(slot, turn)
  BY TypesNamed DEF HandoverInv
<1>1. CASE GoOn(c) /\ ~turn[c].aborted
  <2>1. slot' = slot /\ turn' = [turn EXCEPT ![c].phase = "streaming"]
        /\ turn[c].phase = "woken" /\ UNCHANGED <<taskVars, otherVars>>
    BY <1>1 DEF GoOn
  <2>2. turn' \in Turns /\ turn'[c].phase = "streaming" /\ turn'[c].counted = turn[c].counted
        /\ \A d \in Chats \ {c} : turn'[d] = turn[d]
    BY <1>0, <2>1 DEF Turns
  <2>3. Marks(turn') /\ turn'[c].counted
    BY <1>0, <2>1, <2>2 DEF Marks
  <2>4. Counted(turn') = Counted(turn)
    BY <2>2 DEF Counted
  <2> QED
    BY <1>0, <1>1, <2>1, <2>2, <2>3, <2>4 DEF Balance
<1>2. CASE GoOn(c) /\ turn[c].aborted
  <2>1. slot' = Released(slot, 1)
        /\ turn' = [turn EXCEPT ![c].phase = "ending", ![c].counted = FALSE]
        /\ turn[c].phase = "woken" /\ UNCHANGED <<taskVars, otherVars>>
    BY <1>2 DEF GoOn
  <2>2. turn' \in Turns /\ turn'[c].phase = "ending" /\ ~turn'[c].counted
        /\ \A d \in Chats \ {c} : turn'[d] = turn[d]
    BY <1>0, <2>1 DEF Turns
  <2>3. {c} \subseteq Counted(turn) /\ Counted(turn') = Counted(turn) \ {c}
    BY <1>0, <2>1, <2>2 DEF Marks, Counted
  <2>4. Cardinality({c}) = 1
    BY FS_Singleton
  <2>5. /\ Balance(slot', turn')
        /\ slot.holders = Cardinality(Counted(turn)) => slot'.holders = Cardinality(Counted(turn'))
    <3>1. /\ Balance(Released(slot, Cardinality({c})), turn')
          /\ slot.holders = Cardinality(Counted(turn)) =>
                Released(slot, Cardinality({c})).holders = Cardinality(Counted(turn'))
      BY <1>0, <2>3, ReleasedBalance, SMTT(40)
    <3> QED
      BY <2>1, <2>4, <3>1
  <2>6. Marks(turn')
    BY <1>0, <2>2 DEF Marks
  <2>7. /\ slot' \in Slots
        /\ slot'.build = slot.build /\ slot'.pause = slot.pause /\ slot'.waiters = slot.waiters
        /\ slot'.promise # slot.promise =>
              slot.promise = "pending" /\ slot'.promise = "resolved" /\ slot'.holders = 0
    BY <1>0, <2>1, ReleasedEffect
  <2> QED
    BY <2>1, <2>2, <2>5, <2>6, <2>7
<1>3. CASE EndTurn(c)
  <2>1. slot' = Released(slot, IF turn[c].counted THEN 1 ELSE 0) /\ turn' = [turn EXCEPT ![c] = Idle]
        /\ turn[c].phase \in {"streaming", "ending"} /\ UNCHANGED <<taskVars, otherVars>>
    BY <1>3 DEF EndTurn
  <2>2. turn' \in Turns /\ turn'[c].phase = "idle" /\ ~turn'[c].counted
        /\ \A d \in Chats \ {c} : turn'[d] = turn[d]
    BY <1>0, <2>1 DEF Turns, Idle
  <2>5. /\ Balance(slot', turn')
        /\ slot.holders = Cardinality(Counted(turn)) => slot'.holders = Cardinality(Counted(turn'))
    <3>1. ASSUME NEW D, D = IF turn[c].counted THEN {c} ELSE {}
          PROVE  /\ Balance(slot', turn')
                 /\ slot.holders = Cardinality(Counted(turn)) =>
                       slot'.holders = Cardinality(Counted(turn'))
      <4>1. D \subseteq Counted(turn) /\ Counted(turn') = Counted(turn) \ D
        BY <2>2, <3>1 DEF Counted
      <4>2. Cardinality(D) = IF turn[c].counted THEN 1 ELSE 0
        BY <3>1, FS_Singleton, FS_EmptySet
      <4>3. /\ Balance(Released(slot, Cardinality(D)), turn')
            /\ slot.holders = Cardinality(Counted(turn)) =>
                  Released(slot, Cardinality(D)).holders = Cardinality(Counted(turn'))
        <5>1. slot \in Slots
          BY <1>0
        <5>2. Balance(slot, turn)
          BY <1>0
        <5>3. D \subseteq Counted(turn)
          BY <4>1
        <5>4. Counted(turn') = Counted(turn) \ D
          BY <4>1
        <5> QED
          BY <5>1, <5>2, <5>3, <5>4, ReleasedBalance, SMTT(40)
      <4> QED
        BY <2>1, <4>2, <4>3
    <3> QED
      BY <3>1
  <2>6. Marks(turn')
    BY <1>0, <2>2 DEF Marks
  <2>7. /\ slot' \in Slots
        /\ slot'.build = slot.build /\ slot'.pause = slot.pause /\ slot'.waiters = slot.waiters
        /\ slot'.promise # slot.promise =>
              slot.promise = "pending" /\ slot'.promise = "resolved" /\ slot'.holders = 0
    BY <1>0, <2>1, ReleasedEffect
  <2> QED
    BY <2>1, <2>2, <2>5, <2>6, <2>7
<1> QED
  BY <1>1, <1>2, <1>3

\* The clock of a parked build.
LEMMA ClockEffect ==
  ASSUME TypeOK, TimerFires \/ ParkGrowsOld
  PROVE  /\ UNCHANGED <<taskVars, turn, otherVars>>
         /\ slot' \in Slots
         /\ slot'.build = slot.build /\ slot'.pause = slot.pause /\ slot'.waiters = slot.waiters
         /\ slot'.holders = slot.holders
         /\ slot'.promise # slot.promise =>
               slot.promise = "pending" /\ slot'.promise = "resolved" /\ slot'.holders = 0
         /\ slot'.promise = "pending" => slot'.timer = slot.timer \/ slot.holders # 0
<1>1. CASE TimerFires
  <2> DEFINE s == [slot EXCEPT !.timer = FALSE]
  <2>1. slot' = Resumed(s) /\ UNCHANGED <<taskVars, turn, otherVars>>
    BY <1>1 DEF TimerFires
  <2>2. s \in Slots /\ s.build = slot.build /\ s.pause = slot.pause /\ s.waiters = slot.waiters
        /\ s.holders = slot.holders /\ s.promise = slot.promise
    BY TypesNamed DEF Slots
  <2> HIDE DEF s
  <2>3. CASE s.holders = 0 /\ s.promise = "pending"
    <3>1. slot' = [s EXCEPT !.promise = "resolved", !.overdue = FALSE]
      BY <2>1, <2>3 DEF Resumed
    <3>2. slot' \in Slots /\ slot'.build = s.build /\ slot'.pause = s.pause
          /\ slot'.waiters = s.waiters /\ slot'.holders = s.holders /\ slot'.promise = "resolved"
      BY <2>2, <3>1 DEF Slots
    <3> QED
      BY <2>1, <2>2, <2>3, <3>2
  <2>4. CASE ~(s.holders = 0 /\ s.promise = "pending")
    <3>1. slot' = s
      BY <2>1, <2>4 DEF Resumed
    <3> QED
      BY <2>1, <2>2, <2>4, <3>1
  <2> QED
    BY <2>3, <2>4
<1>2. CASE ParkGrowsOld
  BY <1>2, TypesNamed DEF ParkGrowsOld, Slots
<1> QED
  BY <1>1, <1>2

\* A build that leaves frees the slot and wakes who waits.
LEMMA LeaveEffect ==
  ASSUME TypeOK, LaneInv, HandoverInv, NEW how \in Outcomes, Leave(how),
         step \in {"generating", "parked"}
  PROVE  /\ step' = "leaving" /\ outcome' = how
         /\ UNCHANGED <<queue, running, task, nodesLeft, otherVars>>
         /\ slot' \in Slots /\ turn' \in Turns
         /\ slot'.build = NoTask /\ slot'.promise = "none" /\ slot'.holders = slot.holders
         /\ \/ turn' = Woken(turn, slot) /\ slot'.waiters = {} /\ ~slot'.pause
            \/ UNCHANGED <<slot, turn>>
<1>0. slot \in Slots /\ turn \in Turns /\ Marks(turn) /\ Known(slot, turn)
  BY TypesNamed DEF HandoverInv
<1>1. step' = "leaving" /\ outcome' = how /\ UNCHANGED <<queue, running, task, nodesLeft, otherVars>>
  BY DEF Leave
<1>2. CASE Kind \in Building
  <2>1. slot' = Unregistered(slot) /\ turn' = Woken(turn, slot)
    BY <1>2 DEF Leave, Kind
  <2>2. turn' \in Turns
    BY <1>0, <2>1, WokenEffect
  <2>3. slot' \in Slots /\ slot'.build = NoTask /\ slot'.promise = "none"
        /\ slot'.holders = slot.holders /\ slot'.waiters = {} /\ ~slot'.pause
    BY <1>0, <2>1 DEF Unregistered, FreeSlot, Slots
  <2> QED
    BY <1>1, <2>1, <2>2, <2>3
<1>3. CASE Kind \notin Building
  <2>1. UNCHANGED <<slot, turn>>
    BY <1>3 DEF Leave, Kind
  <2>2. slot.build = NoTask
    BY <1>3, LaneNamed DEF LaneInv
  <2>3. slot.promise = "none"
    BY <2>2 DEF LaneInv
  <2> QED
    BY <1>0, <1>1, <2>1, <2>2, <2>3
<1> QED
  BY <1>2, <1>3

\* A build that parks hands the slot over.
LEMMA ParkEffect ==
  ASSUME NEW s \in Slots
  PROVE  /\ Parked(s) \in Slots /\ Parked(s).build = s.build /\ ~Parked(s).pause
         /\ Parked(s).waiters = {} /\ Parked(s).holders = s.holders
         /\ Parked(s).promise = "pending"
BY DEF Parked, Slots

\* The dispatch after a task that ended, with or without a chained extract.
LEMMA SettleEffect ==
  ASSUME TypeOK, LaneInv, Settle
  PROVE  /\ UNCHANGED <<turn, otherVars>> /\ running # NoTask
         /\ \E q \in Seq(Tasks), tk \in Jobs :
               /\ InOrder(q, tk, NoTask) /\ Pump(q, tk, slot)
               /\ \/ q = queue
                  \/ /\ workspace = "open" /\ ~IsChatStreaming
                     /\ \E u \in Tasks : q = Append(queue, u)
<1> DEFINE tk == [task EXCEPT ![running] = Over(NoTask)]
<1>1. /\ queue \in Seq(Tasks) /\ running \in Tasks /\ task \in Jobs /\ running # NoTask
      /\ InOrder(queue, task, running) /\ step = "leaving"
  BY TypesNamed, LaneNamed DEF LaneInv, Settle
<1>2. ASSUME NEW v \in Tasks \cup {NoTask}
      PROVE  LET tm == [task EXCEPT ![running] = Over(v)]
             IN  tm \in Jobs /\ InOrder(queue, tm, NoTask)
  <2> DEFINE tm == [task EXCEPT ![running] = Over(v)]
  <2>1. tm \in Jobs
    BY <1>1, OverTyped DEF Jobs
  <2>2. tm[running].state = "ended" /\ \A t \in Tasks \ {running} : tm[t] = task[t]
    BY <1>1 DEF Jobs, Over
  <2> HIDE DEF tm
  <2>3. InOrder(queue, tm, NoTask)
    BY <1>1, <2>2 DEF InOrder
  <2> QED
    BY <2>1, <2>3 DEF tm
<1>3. CASE ~Chains
  <2>1. Pump(queue, tk, slot) /\ UNCHANGED <<turn, otherVars>>
    BY <1>3 DEF Settle
  <2>2. tk \in Jobs /\ InOrder(queue, tk, NoTask)
    BY <1>2
  <2> HIDE DEF tk
  <2> QED
    BY <1>1, <2>1, <2>2
<1>4. CASE Chains
  <2>1. PICK u \in Unused(task) :
          Pump(Append(queue, u),
               [task EXCEPT ![running] = Over(u), ![u] = Job("extract", task[running].doc)], slot)
    BY <1>4 DEF Settle
  <2>2. UNCHANGED <<turn, otherVars>> /\ workspace = "open" /\ ~IsChatStreaming
    BY <1>4 DEF Settle, Chains, MayStart
  <2>3. u \in Tasks /\ task[u].state = "ended"
    BY <2>1 DEF Unused
  <2> DEFINE tm == [task EXCEPT ![running] = Over(u)]
             tn == [task EXCEPT ![running] = Over(u), ![u] = Job("extract", task[running].doc)]
  <2>4. tm \in Jobs /\ InOrder(queue, tm, NoTask)
    BY <1>2, <2>3
  <2>5. u # running
    BY <1>1, <2>3 DEF InOrder
  <2>6. tn = [tm EXCEPT ![u] = Job("extract", task[running].doc)] /\ tm[u].state = "ended"
    BY <1>1, <2>3, <2>5 DEF Jobs
  <2>7. Job("extract", task[running].doc) \in
          [state : {"queued", "running", "ended"}, kind : Kinds, doc : Docs,
           aborted : BOOLEAN, chained : Tasks \cup {NoTask}]
    BY <1>1 DEF Job, Jobs, Kinds
  <2> HIDE DEF tm
  <2>8. tn \in Jobs
    BY <2>3, <2>4, <2>6, <2>7 DEF Jobs
  <2>9. tn[u].state = "queued" /\ \A v \in Tasks \ {u} : tn[v].state = tm[v].state
    BY <2>3, <2>4, <2>6 DEF Jobs, Job
  <2> HIDE DEF tn
  <2>10. Append(queue, u) \in Seq(Tasks) /\ InOrder(Append(queue, u), tn, NoTask)
    BY <1>1, <2>3, <2>4, <2>6, <2>8, <2>9, AppendOrder
  <2> QED
    BY <1>1, <2>1, <2>2, <2>3, <2>8, <2>10 DEF tn
<1> QED
  BY <1>3, <1>4

\* A task the user starts: it waits behind another, or is dispatched.
LEMMA StartEffect ==
  ASSUME TypeOK, LaneInv, NEW t \in Tasks, NEW k \in StartKinds, NEW d \in Docs,
         StartDocTask(t, k, d)
  PROVE  /\ UNCHANGED <<turn, otherVars>>
         /\ workspace = "open" /\ ~IsChatStreaming /\ ~skillRun
         /\ patient => running = NoTask /\ queue = << >>
         /\ Append(queue, t) \in Seq(Tasks)
         /\ \E tk \in Jobs :
               /\ InOrder(Append(queue, t), tk, running)
               /\ \A u \in Tasks \ {t} : tk[u] = task[u]
               /\ \/ running = NoTask /\ Pump(Append(queue, t), tk, slot)
                  \/ /\ running # NoTask /\ queue' = Append(queue, t) /\ task' = tk
                     /\ UNCHANGED <<running, step, nodesLeft, outcome, slot>>
<1> DEFINE tk == [task EXCEPT ![t] = Job(k, d)]
<1>1. /\ queue \in Seq(Tasks) /\ task \in Jobs /\ InOrder(queue, task, running)
  BY TypesNamed, LaneNamed DEF LaneInv
<1>2. task[t].state = "ended"
  BY DEF StartDocTask, Unused
<1>3. tk \in Jobs /\ tk[t].state = "queued" /\ \A u \in Tasks \ {t} : tk[u] = task[u]
  <2>1. Job(k, d) \in [state : {"queued", "running", "ended"}, kind : Kinds, doc : Docs,
                       aborted : BOOLEAN, chained : Tasks \cup {NoTask}]
        /\ Job(k, d).state = "queued"
    BY DEF Job, Kinds
  <2> QED
    BY <1>1, <2>1 DEF Jobs
<1>4. /\ UNCHANGED <<turn, otherVars>>
      /\ workspace = "open" /\ ~IsChatStreaming /\ ~skillRun
      /\ patient => running = NoTask /\ queue = << >>
  BY DEF StartDocTask, MayStart, HasActiveTask
<1>5. \/ running = NoTask /\ Pump(Append(queue, t), tk, slot)
      \/ /\ running # NoTask /\ queue' = Append(queue, t) /\ task' = tk
         /\ UNCHANGED <<running, step, nodesLeft, outcome, slot>>
  BY DEF StartDocTask
<1> HIDE DEF tk
<1>6. Append(queue, t) \in Seq(Tasks) /\ InOrder(Append(queue, t), tk, running)
  BY <1>1, <1>2, <1>3, AppendOrder
<1> QED
  BY <1>3, <1>4, <1>5, <1>6

\* Aborting a task changes the state of no job.
LEMMA AbortedJob ==
  ASSUME NEW tk \in Jobs, NEW t \in Tasks
  PROVE  LET tm == [tk EXCEPT ![t].aborted = TRUE]
         IN  /\ tm \in Jobs
             /\ \A u \in Tasks : tm[u].state = tk[u].state /\ tm[u].kind = tk[u].kind
<1> DEFINE job == [tk[t] EXCEPT !.aborted = TRUE]
           tm == [tk EXCEPT ![t] = job]
           kinds == [state : {"queued", "running", "ended"}, kind : Kinds, doc : Docs,
                     aborted : BOOLEAN, chained : Tasks \cup {NoTask}]
<1>1. tk \in [Tasks -> kinds] /\ tk[t] \in kinds
  BY DEF Jobs
<1>2. job \in kinds /\ job.state = tk[t].state /\ job.kind = tk[t].kind
  BY <1>1
<1> HIDE DEF job, kinds
<1>3. tm \in [Tasks -> kinds]
  BY <1>1, <1>2
<1>4. \A u \in Tasks : tm[u].state = tk[u].state /\ tm[u].kind = tk[u].kind
  BY <1>1, <1>2
<1>5. tm = [tk EXCEPT ![t].aborted = TRUE]
  BY DEF job
<1> HIDE DEF tm
<1> QED
  BY <1>3, <1>4, <1>5 DEF kinds, Jobs

LEMMA AbortRunningEffect ==
  ASSUME TypeOK, LaneInv
  PROVE  /\ AbortRunning(task) \in Jobs
         /\ \A t \in Tasks : /\ AbortRunning(task)[t].state = task[t].state
                             /\ AbortRunning(task)[t].kind = task[t].kind
<1>1. task \in Jobs /\ running \in Tasks \cup {NoTask}
  BY TypesNamed
<1>2. CASE running = NoTask
  BY <1>1, <1>2 DEF AbortRunning
<1>3. CASE running # NoTask
  BY <1>1, <1>3, AbortedJob DEF AbortRunning
<1> QED
  BY <1>2, <1>3

\* Types and lane in one formula, without the operators of the next state.
LaneState ==
    /\ queue \in Seq(Tasks) /\ running \in Tasks \cup {NoTask} /\ task \in Jobs
    /\ step \in {"none", "generating", "parked", "leaving"}
    /\ nodesLeft \in 0 .. Nodes /\ outcome \in Outcomes
    /\ slot \in Slots /\ turn \in Turns
    /\ skillRun \in BOOLEAN /\ modelUp \in BOOLEAN /\ patient \in BOOLEAN
    /\ workspace \in {"open", "locking", "locked"}
    /\ InOrder(queue, task, running)
    /\ slot.build # NoTask => slot.build = running /\ task[running].kind \in Building
    /\ running = NoTask <=> step = "none"
    /\ step = "generating" => nodesLeft > 0
    /\ step \in {"none", "leaving"} => slot.build = NoTask
    /\ step = "parked" <=> slot.promise # "none"
    /\ step = "parked" => slot.build # NoTask
    /\ workspace # "open" => queue = << >>

LEMMA LaneStateNow == TypeOK /\ LaneInv => LaneState
BY DEF LaneState, TypeOK, Jobs, Slots, Turns, LaneInv, LaneIsConsistent, InOrder, Kind

LEMMA LaneStateNext == LaneState' => TypeOK' /\ LaneInv'
BY DEF LaneState, TypeOK, Jobs, Slots, Turns, LaneInv, LaneIsConsistent, InOrder, Kind

\* A step that only moves the slot of the same build.
LEMMA SameLane ==
  ASSUME LaneState, UNCHANGED taskVars, slot' \in Slots, turn' \in Turns,
         slot'.build = slot.build, slot'.promise = "none" <=> slot.promise = "none",
         skillRun' \in BOOLEAN, modelUp' \in BOOLEAN, patient' \in BOOLEAN,
         workspace' \in {"open", "locking", "locked"}, workspace' = "open" \/ workspace # "open"
  PROVE  LaneState'
BY DEF LaneState, taskVars

LEMMA SameSlotLane ==
  ASSUME LaneState, UNCHANGED <<taskVars, otherVars>>, slot' \in Slots, turn' \in Turns,
         slot'.build = slot.build,
         slot'.promise # slot.promise => slot.promise = "pending" /\ slot'.promise = "resolved"
  PROVE  LaneState'
<1>1. UNCHANGED taskVars /\ UNCHANGED <<skillRun, modelUp, workspace, patient>>
  BY DEF otherVars
<1>2. slot'.promise = "none" <=> slot.promise = "none"
  OBVIOUS
<1>3. /\ skillRun' \in BOOLEAN /\ modelUp' \in BOOLEAN /\ patient' \in BOOLEAN
      /\ workspace' \in {"open", "locking", "locked"} /\ (workspace' = "open" \/ workspace # "open")
  BY <1>1 DEF LaneState
<1> QED
  BY <1>1, <1>2, <1>3, SameLane

LEMMA LaneStep ==
  ASSUME TypeOK, LaneInv, HandoverInv, [Next]_vars
  PROVE  TypeOK' /\ LaneInv'
<1>d. LaneState
  BY LaneStateNow
<1>0. /\ queue \in Seq(Tasks) /\ running \in Tasks \cup {NoTask} /\ task \in Jobs
      /\ step \in {"none", "generating", "parked", "leaving"}
      /\ nodesLeft \in 0 .. Nodes /\ outcome \in Outcomes
      /\ slot \in Slots /\ turn \in Turns
      /\ skillRun \in BOOLEAN /\ modelUp \in BOOLEAN /\ patient \in BOOLEAN
      /\ workspace \in {"open", "locking", "locked"}
  BY <1>d DEF LaneState
<1>a. /\ InOrder(queue, task, running)
      /\ slot.build # NoTask => slot.build = running /\ Kind \in Building
      /\ running = NoTask <=> step = "none"
      /\ step = "generating" => nodesLeft > 0
      /\ step \in {"none", "leaving"} => slot.build = NoTask
      /\ step = "parked" <=> slot.promise # "none"
      /\ step = "parked" => slot.build # NoTask
      /\ workspace # "open" => queue = << >>
  BY <1>d DEF LaneState, Kind
<1>b. Marks(turn) /\ Known(slot, turn) /\ Balance(slot, turn)
  BY DEF HandoverInv
<1>c. SUFFICES LaneState'
  BY LaneStateNext
<1>1. ASSUME NEW t \in Tasks, NEW k \in StartKinds, NEW d \in Docs, StartDocTask(t, k, d)
      PROVE  LaneState'
  <2>0. UNCHANGED <<turn, otherVars>> /\ workspace = "open"
    BY <1>1, StartEffect
  <2>1. PICK tk \in Jobs :
          /\ InOrder(Append(queue, t), tk, running)
          /\ \A u \in Tasks \ {t} : tk[u] = task[u]
          /\ \/ running = NoTask /\ Pump(Append(queue, t), tk, slot)
             \/ /\ running # NoTask /\ queue' = Append(queue, t) /\ task' = tk
                /\ UNCHANGED <<running, step, nodesLeft, outcome, slot>>
    BY <1>1, StartEffect
  <2>2. Append(queue, t) \in Seq(Tasks)
    BY <1>1, StartEffect
  <2>3. CASE running = NoTask /\ Pump(Append(queue, t), tk, slot)
    <3>1. slot.build = NoTask /\ slot.promise = "none"
      BY <1>a, <2>3
    <3>2. /\ queue' \in Seq(Tasks) /\ running' \in Tasks \cup {NoTask} /\ task' \in Jobs
          /\ nodesLeft' \in 0 .. Nodes /\ outcome' \in Outcomes /\ slot' \in Slots
          /\ InOrder(queue', task', running')
          /\ slot'.build # NoTask => slot'.build = running' /\ task'[running'].kind \in Building
          /\ running' = NoTask <=> step' = "none"
          /\ step' \in {"none", "generating", "leaving"}
          /\ step' = "generating" => nodesLeft' > 0
          /\ step' \in {"none", "leaving"} => slot'.build = NoTask
          /\ slot'.promise = "none"
      BY <1>0, <2>1, <2>2, <2>3, <3>1, PumpEffect
    <3> QED
      BY <1>0, <2>0, <3>2 DEF otherVars, LaneState
  <2>4. CASE running # NoTask /\ queue' = Append(queue, t) /\ task' = tk
             /\ UNCHANGED <<running, step, nodesLeft, outcome, slot>>
    <3>1. slot.build # NoTask => tk[running].kind \in Building
      <4>1. SUFFICES ASSUME slot.build # NoTask PROVE tk[running].kind \in Building
        OBVIOUS
      <4>2. running # t
        BY <1>0, <1>a, <1>1, <2>4 DEF InOrder, StartDocTask, Unused
      <4> QED
        BY <1>0, <1>a, <2>1, <2>4, <4>1, <4>2 DEF Kind
    <3> QED
      BY <1>0, <1>a, <2>0, <2>1, <2>2, <2>4, <3>1 DEF otherVars, LaneState
  <2> QED
    BY <2>1, <2>3, <2>4
<1>2. ASSUME NEW t \in Tasks, CancelDocTask(t) PROVE LaneState'
  <2> DEFINE u == CancelTarget(t)
  <2>0. UNCHANGED <<running, step, nodesLeft, outcome, turn, otherVars>>
    BY <1>2 DEF CancelDocTask
  <2>1. u \in Tasks
    BY <1>0, <1>2 DEF CancelTarget, Jobs
  <2>2. CASE task[u].state = "queued" /\ UNCHANGED slot
             /\ (\E i \in 1 .. Len(queue) : queue[i] = u /\ queue' = Without(queue, i))
             /\ task' = [task EXCEPT ![u] = Over(NoTask)]
    <3>1. PICK i \in 1 .. Len(queue) : queue[i] = u /\ queue' = Without(queue, i)
      BY <2>2
    <3>2. task' \in Jobs /\ task'[u].state = "ended" /\ \A v \in Tasks \ {u} : task'[v] = task[v]
      <4>1. Over(NoTask).state = "ended"
        BY DEF Over
      <4> HIDE DEF u
      <4> QED
        BY <1>0, <2>1, <2>2, <4>1, OverTyped DEF Jobs
    <3> HIDE DEF u
    <3>3. queue' \in Seq(Tasks) /\ InOrder(queue', task', running)
      BY <1>0, <1>a, <3>1, <3>2, RemoveOrder
    <3>4. slot.build # NoTask => running # u /\ running \in Tasks
      BY <1>0, <1>a, <2>1, <2>2 DEF InOrder
    <3>5. workspace # "open" => queue' = << >>
      <4>1. queue # << >>
        BY <1>0, <3>1, EmptySeq
      <4> QED
        BY <1>a, <4>1
    <3> QED
      BY <1>0, <1>a, <2>0, <2>2, <3>2, <3>3, <3>4, <3>5 DEF otherVars, Kind, LaneState
  <2>3. CASE /\ task[u].state = "running" /\ UNCHANGED queue
             /\ task' = [task EXCEPT ![u].aborted = TRUE]
             /\ slot' = IF task[u].kind \in Building THEN Torn(slot) ELSE slot
    <3> HIDE DEF u
    <3>1. task' \in Jobs
          /\ \A v \in Tasks : task'[v].state = task[v].state /\ task'[v].kind = task[v].kind
      <4> DEFINE tm == [task EXCEPT ![u].aborted = TRUE]
      <4>1. tm \in Jobs /\ \A v \in Tasks : tm[v].state = task[v].state /\ tm[v].kind = task[v].kind
        BY <1>0, <2>1, AbortedJob
      <4> HIDE DEF tm
      <4> QED
        BY <2>3, <4>1 DEF tm
    <3>2. InOrder(queue, task', running)
      BY <1>0, <1>a, <3>1, QueueOrder
    <3>3. slot' \in Slots /\ slot'.build = slot.build
          /\ (slot'.promise = "none" <=> slot.promise = "none")
      BY <1>0, <2>3, TornEffect
    <3> QED
      BY <1>0, <1>a, <2>0, <2>3, <3>1, <3>2, <3>3 DEF otherVars, Kind, LaneState
  <2> QED
    BY <1>2, <2>2, <2>3 DEF CancelDocTask
<1>3. ASSUME NEW how \in Outcomes, Leave(how), step \in {"generating", "parked"}
      PROVE  LaneState'
  <2>1. /\ step' = "leaving" /\ outcome' = how
        /\ UNCHANGED <<queue, running, task, nodesLeft, otherVars>>
        /\ slot' \in Slots /\ turn' \in Turns
        /\ slot'.build = NoTask /\ slot'.promise = "none"
    BY <1>3, LeaveEffect
  <2> QED
    BY <1>0, <1>3, <1>a, <2>1 DEF otherVars, LaneState
<1>4. CASE FinishTask \/ FailTask \/ CancelledTask \/ Unwind
  BY <1>3, <1>4 DEF FinishTask, FailTask, CancelledTask, Unwind, Generating, Outcomes
<1>5. CASE CommitNode
  <2>0. /\ step = "generating" /\ Kind \in Building /\ running # NoTask
        /\ nodesLeft' = nodesLeft - 1 /\ UNCHANGED <<queue, running, task, outcome, otherVars>>
    BY <1>5 DEF CommitNode, Generating
  <2>1. nodesLeft' \in 0 .. Nodes
    BY <1>0, <1>a, <2>0
  <2>2. CASE ~LastNode /\ UNCHANGED <<step, slot, turn>>
    <3>1. nodesLeft' > 0
      BY <1>0, <1>a, <2>0, <2>2 DEF LastNode
    <3> QED
      BY <1>0, <1>a, <2>0, <2>1, <2>2, <3>1 DEF otherVars, Kind, LaneState
  <2>3. CASE slot.pause /\ step' = "parked" /\ slot' = Parked(slot) /\ turn' = Woken(turn, slot)
    <3>1. slot' \in Slots /\ slot'.build = slot.build /\ slot'.promise = "pending"
      BY <1>0, <2>3, ParkEffect
    <3>2. turn' \in Turns
      BY <1>0, <1>b, <2>3, WokenEffect
    <3>3. slot.build # NoTask
      BY <2>3 DEF HandoverInv, Known
    <3> QED
      BY <1>0, <1>a, <2>0, <2>1, <2>3, <3>1, <3>2, <3>3 DEF otherVars, Kind, LaneState
  <2> QED
    BY <1>5, <2>2, <2>3 DEF CommitNode
<1>6. CASE TakeSlotBack
  <2>1. CASE nodesLeft = 0 /\ Leave("done") /\ step = "parked"
    BY <1>3, <2>1 DEF Outcomes
  <2>2. CASE /\ nodesLeft > 0 /\ step = "parked" /\ step' = "generating"
             /\ slot' = [slot EXCEPT !.promise = "none"]
             /\ UNCHANGED <<queue, running, task, nodesLeft, outcome, turn, otherVars>>
    <3>1. slot' \in Slots /\ slot'.build = slot.build /\ slot'.promise = "none"
      BY <1>0, <2>2 DEF Slots
    <3> QED
      BY <1>0, <1>a, <2>2, <3>1 DEF otherVars, Kind, LaneState
  <2> QED
    BY <1>6, <2>1, <2>2 DEF TakeSlotBack
<1>7. CASE Settle
  <2>0. UNCHANGED <<turn, otherVars>> /\ running # NoTask
    BY <1>7, SettleEffect
  <2>1. PICK q \in Seq(Tasks), tk \in Jobs :
          /\ InOrder(q, tk, NoTask) /\ Pump(q, tk, slot)
          /\ \/ q = queue
             \/ workspace = "open" /\ ~IsChatStreaming /\ \E u \in Tasks : q = Append(queue, u)
    BY <1>7, SettleEffect
  <2>2. slot.build = NoTask /\ slot.promise = "none"
    BY <1>7, <1>a DEF Settle
  <2>3. /\ queue' \in Seq(Tasks) /\ running' \in Tasks \cup {NoTask} /\ task' \in Jobs
        /\ nodesLeft' \in 0 .. Nodes /\ outcome' \in Outcomes /\ slot' \in Slots
        /\ InOrder(queue', task', running')
        /\ slot'.build # NoTask => slot'.build = running' /\ task'[running'].kind \in Building
        /\ running' = NoTask <=> step' = "none"
        /\ step' \in {"none", "generating", "leaving"}
        /\ step' = "generating" => nodesLeft' > 0
        /\ step' \in {"none", "leaving"} => slot'.build = NoTask
        /\ slot'.promise = "none"
        /\ q = << >> => queue' = << >>
    BY <1>0, <2>1, <2>2, PumpEffect
  <2> QED
    BY <1>0, <1>a, <2>0, <2>1, <2>3 DEF otherVars, LaneState
<1>8. ASSUME NEW c \in Chats, Ask(c) PROVE LaneState'
  <2>1. UNCHANGED <<taskVars, otherVars>> /\ slot' \in Slots /\ turn' \in Turns
        /\ slot'.build = slot.build /\ slot'.promise = slot.promise
    BY <1>8, AskEffect
  <2> QED
    BY <1>d, <2>1, SameSlotLane
<1>9. ASSUME NEW c \in Chats, GoOn(c) \/ EndTurn(c) PROVE LaneState'
  <2>1. /\ UNCHANGED <<taskVars, otherVars>> /\ slot' \in Slots /\ turn' \in Turns
        /\ slot'.build = slot.build
        /\ slot'.promise # slot.promise => slot.promise = "pending" /\ slot'.promise = "resolved"
    BY <1>9, GiveBackEffect
  <2> QED
    BY <1>d, <2>1, SameSlotLane
<1>10. ASSUME NEW c \in Chats, StopGeneration(c) PROVE LaneState'
  <2>1. turn' = AbortedTurns(turn, {c}) /\ slot' = AfterAborts(slot, turn, {c})
        /\ UNCHANGED <<taskVars, otherVars>>
    BY <1>10 DEF StopGeneration
  <2>2. turn' \in Turns
    BY <1>0, <1>b, <2>1, AbortedEffect
  <2>3. /\ slot' \in Slots /\ slot'.build = slot.build
        /\ slot'.promise # slot.promise => slot.promise = "pending" /\ slot'.promise = "resolved"
    BY <1>0, <1>b, <2>1, AbortsEffect
  <2> QED
    BY <1>d, <2>1, <2>2, <2>3, SameSlotLane
<1>11. CASE TimerFires \/ ParkGrowsOld
  <2>1. /\ UNCHANGED <<taskVars, turn, otherVars>> /\ slot' \in Slots /\ slot'.build = slot.build
        /\ slot'.promise # slot.promise => slot.promise = "pending" /\ slot'.promise = "resolved"
    BY <1>11, ClockEffect
  <2>2. UNCHANGED <<taskVars, otherVars>> /\ turn' \in Turns
    BY <1>0, <2>1
  <2> QED
    BY <1>d, <2>1, <2>2, SameSlotLane
<1>12. CASE StartSkillRun \/ EndSkillRun \/ ModelGoes \/ StartModel \/ EndLock \/ Unlock
  <2>1. UNCHANGED <<taskVars, slot, turn, patient>>
    BY <1>12 DEF StartSkillRun, EndSkillRun, ModelGoes, StartModel, EndLock, Unlock
  <2>2. skillRun' \in BOOLEAN /\ modelUp' \in BOOLEAN /\ workspace' \in {"open", "locking", "locked"}
        /\ (workspace' = "open" \/ workspace # "open")
    BY <1>0, <1>12 DEF StartSkillRun, EndSkillRun, ModelGoes, StartModel, EndLock, Unlock
  <2> QED
    BY <1>0, <1>d, <2>1, <2>2, SameLane
<1>13. CASE StopModel
  <2> DEFINE s == IF BuildRuns THEN Torn(slot) ELSE slot
  <2>0. /\ task' = (IF BuildRuns THEN AbortRunning(task) ELSE task)
        /\ slot' = AfterAborts(s, turn, InFlight) /\ turn' = AbortedTurns(turn, InFlight)
        /\ modelUp' = FALSE
        /\ UNCHANGED <<queue, running, step, nodesLeft, outcome, skillRun, workspace, patient>>
    BY <1>13 DEF StopModel
  <2>1. s \in Slots /\ s.build = slot.build /\ Known(s, turn) /\ Balance(s, turn)
        /\ (s.promise = "none" <=> slot.promise = "none")
    BY <1>0, <1>b, TornEffect DEF Known, Balance
  <2>2. InFlight \in SUBSET Chats
    BY DEF InFlight
  <2> HIDE DEF s
  <2>3. slot' \in Slots /\ slot'.build = slot.build
        /\ (slot'.promise = "none" <=> slot.promise = "none")
    BY <1>0, <1>b, <2>0, <2>1, <2>2, AbortsEffect
  <2>4. turn' \in Turns
    BY <1>0, <1>b, <2>0, <2>2, AbortedEffect
  <2>5. task' \in Jobs
        /\ \A t \in Tasks : task'[t].state = task[t].state /\ task'[t].kind = task[t].kind
    BY <1>0, <2>0, AbortRunningEffect
  <2>6. InOrder(queue, task', running)
    BY <1>0, <1>a, <2>5, QueueOrder
  <2> QED
    BY <1>0, <1>a, <2>0, <2>3, <2>4, <2>5, <2>6 DEF Kind, LaneState
<1>14. CASE BeginLock
  <2> DEFINE s == AfterAborts(slot, turn, InFlight)
  <2>0. /\ workspace' = "locking" /\ queue' = << >>
        /\ slot' = (IF BuildRuns THEN Torn(s) ELSE s) /\ turn' = AbortedTurns(turn, InFlight)
        /\ task' = [t \in Tasks |-> IF task[t].state = "queued" THEN Over(NoTask)
                                    ELSE AbortRunning(task)[t]]
        /\ UNCHANGED <<running, step, nodesLeft, outcome, skillRun, modelUp, patient>>
    BY <1>14 DEF BeginLock
  <2>1. InFlight \in SUBSET Chats
    BY DEF InFlight
  <2>2. s \in Slots /\ s.build = slot.build /\ (s.promise = "none" <=> slot.promise = "none")
    BY <1>0, <1>b, <2>1, AbortsEffect
  <2> HIDE DEF s
  <2>3. slot' \in Slots /\ slot'.build = slot.build
        /\ (slot'.promise = "none" <=> slot.promise = "none")
    BY <2>0, <2>2, TornEffect
  <2>4. turn' \in Turns
    BY <1>0, <1>b, <2>0, <2>1, AbortedEffect
  <2>5. Over(NoTask).state = "ended"
    BY DEF Over
  <2>6. task' \in Jobs
        /\ \A t \in Tasks : /\ task'[t].state = IF task[t].state = "queued" THEN "ended"
                                                ELSE task[t].state
                            /\ task[t].state # "queued" => task'[t].kind = task[t].kind
    <3>1. task' \in Jobs
      BY <2>0, OverTyped, AbortRunningEffect DEF Jobs
    <3> QED
      BY <2>0, <2>5, <3>1, AbortRunningEffect
  <2>7. InOrder(queue', task', running)
    <3>1. \A t \in Tasks : task'[t].state # "queued"
      BY <1>0, <2>6
    <3>2. queue' = << >> /\ Len(queue') = 0
      BY <2>0, EmptySeq
    <3>3. \A t \in Tasks : task'[t].state = "running" <=> t = running
      BY <1>0, <1>a, <2>6 DEF InOrder
    <3> QED
      BY <3>1, <3>2, <3>3 DEF InOrder
  <2>8. slot.build # NoTask => task[running].state = "running" /\ running \in Tasks
    BY <1>0, <1>a DEF InOrder
  <2>9. queue' \in Seq(Tasks)
    BY <2>0, EmptySeq
  <2> QED
    BY <1>0, <1>a, <2>0, <2>3, <2>4, <2>6, <2>7, <2>8, <2>9 DEF Kind, LaneState
<1>15. CASE UNCHANGED vars
  <2>1. UNCHANGED <<taskVars, otherVars>> /\ UNCHANGED <<slot, turn>>
    BY <1>15 DEF vars
  <2> QED
    BY <1>0, <1>d, <2>1, SameSlotLane
<1> QED
  BY <1>1, <1>2, <1>4, <1>5, <1>6, <1>7, <1>8, <1>9, <1>10, <1>11, <1>12, <1>13, <1>14, <1>15 DEF Next

-----------------------------------------------------------------------------
(* The hand-over between build and answers. *)

\* A dispatch leaves the slot alone or gives a free one to the next build.
LEMMA DispatchedSlot ==
  ASSUME HandoverInv, slot.build = NoTask, UNCHANGED turn,
         slot' = slot \/ \E t \in Tasks : slot' = Registered(t)
  PROVE  HandoverInv'
<1>1. CASE slot' = slot
  BY <1>1 DEF HandoverInv
<1>2. CASE \E t \in Tasks : slot' = Registered(t)
  <2>1. /\ slot'.build # NoTask /\ ~slot'.pause /\ slot'.waiters = {} /\ slot'.holders = 0
        /\ slot'.promise = "none"
    BY <1>2 DEF Registered, FreeSlot
  <2>2. Known(slot', turn')
    BY <2>1 DEF HandoverInv, Known
  <2>3. Balance(slot', turn')
    BY <2>1, CountedFinite DEF Balance
  <2> QED
    BY <2>1, <2>2, <2>3 DEF HandoverInv
<1> QED
  BY <1>1, <1>2

LEMMA HandoverStep ==
  ASSUME TypeOK, LaneInv, HandoverInv, [Next]_vars
  PROVE  HandoverInv'
<1>0. slot \in Slots /\ turn \in Turns
  BY TypesNamed
<1>b. /\ Marks(turn) /\ Known(slot, turn) /\ Balance(slot, turn)
      /\ slot.build = NoTask => slot.waiters = {}
  BY DEF HandoverInv
<1>d. LaneState
  BY LaneStateNow
<1>1. ASSUME NEW t \in Tasks, NEW k \in StartKinds, NEW d \in Docs, StartDocTask(t, k, d)
      PROVE  HandoverInv'
  <2>0. UNCHANGED turn
    BY <1>1, StartEffect DEF otherVars
  <2>1. PICK tk \in Jobs :
          /\ InOrder(Append(queue, t), tk, running)
          /\ \/ running = NoTask /\ Pump(Append(queue, t), tk, slot)
             \/ UNCHANGED slot
    BY <1>1, StartEffect
  <2>2. CASE UNCHANGED slot
    BY <2>0, <2>2 DEF HandoverInv
  <2>3. CASE running = NoTask /\ Pump(Append(queue, t), tk, slot)
    <3>1. slot.build = NoTask /\ slot.promise = "none"
      BY <1>d, <2>3 DEF LaneState
    <3>2. Append(queue, t) \in Seq(Tasks)
      BY <1>1, StartEffect
    <3>3. slot' = slot \/ slot' = Registered(Head(Append(queue, t)))
      BY <1>0, <2>1, <2>3, <3>1, <3>2, PumpEffect
    <3>4. Head(Append(queue, t)) \in Tasks
      BY <3>2, HeadTailProperties, AppendProperties, <1>d DEF LaneState
    <3> QED
      BY <2>0, <3>1, <3>3, <3>4, DispatchedSlot
  <2> QED
    BY <2>1, <2>2, <2>3
<1>2. ASSUME NEW t \in Tasks, CancelDocTask(t) PROVE HandoverInv'
  <2>1. UNCHANGED turn /\ (slot' = slot \/ slot' = Torn(slot))
    BY <1>2 DEF CancelDocTask
  <2>2. /\ slot'.build = slot.build /\ slot'.pause = slot.pause /\ slot'.waiters = slot.waiters
        /\ slot'.holders = slot.holders
        /\ slot'.promise = "pending" => slot' = slot
    BY <1>0, <2>1, TornEffect
  <2>3. Known(slot', turn') /\ Balance(slot', turn')
    BY <1>b, <2>1, <2>2 DEF Known, Balance
  <2> QED
    BY <1>b, <2>1, <2>2, <2>3 DEF HandoverInv
<1>3. ASSUME NEW how \in Outcomes, Leave(how), step \in {"generating", "parked"}
      PROVE  HandoverInv'
  <2>1. /\ slot'.build = NoTask /\ slot'.promise = "none" /\ slot'.holders = slot.holders
        /\ \/ turn' = Woken(turn, slot) /\ slot'.waiters = {} /\ ~slot'.pause
           \/ UNCHANGED <<slot, turn>>
    BY <1>3, LeaveEffect
  <2>2. CASE turn' = Woken(turn, slot) /\ slot'.waiters = {} /\ ~slot'.pause
    <3>1. Marks(turn') /\ (\A c \in Chats : turn'[c].phase # "waiting")
          /\ Counted(turn') = Counted(turn)
      BY <1>0, <1>b, <2>2, WokenEffect
    <3>2. Known(slot', turn')
      BY <2>2, <3>1 DEF Known
    <3>3. Balance(slot', turn')
      BY <1>b, <2>1, <3>1 DEF Balance
    <3> QED
      BY <2>2, <3>1, <3>2, <3>3 DEF HandoverInv
  <2>3. CASE UNCHANGED <<slot, turn>>
    BY <2>3 DEF HandoverInv
  <2> QED
    BY <2>1, <2>2, <2>3
<1>4. CASE FinishTask \/ FailTask \/ CancelledTask \/ Unwind
  BY <1>3, <1>4 DEF FinishTask, FailTask, CancelledTask, Unwind, Generating, Outcomes
<1>5. CASE CommitNode
  <2>1. CASE UNCHANGED <<slot, turn>>
    BY <2>1 DEF HandoverInv
  <2>2. CASE slot.pause /\ slot' = Parked(slot) /\ turn' = Woken(turn, slot)
    <3>1. /\ slot'.build = slot.build /\ ~slot'.pause /\ slot'.waiters = {}
          /\ slot'.holders = slot.holders
      BY <1>0, <2>2, ParkEffect
    <3>2. Marks(turn') /\ (\A c \in Chats : turn'[c].phase # "waiting")
          /\ Counted(turn') = Counted(turn)
      BY <1>0, <1>b, <2>2, WokenEffect
    <3>3. Counted(turn) # {}
      <4>1. PICK c \in slot.waiters : TRUE
        BY <1>b, <2>2 DEF Known
      <4>2. c \in Chats /\ turn[c].phase = "waiting"
        BY <1>0, <1>b, <4>1 DEF Known, Slots
      <4>3. c \in Counted(turn)
        BY <1>b, <4>2 DEF Marks, Counted
      <4> QED
        BY <4>3
    <3>4. Known(slot', turn')
      BY <3>1, <3>2 DEF Known
    <3>5. Balance(slot', turn')
      BY <1>b, <3>1, <3>2, <3>3 DEF Balance
    <3> QED
      BY <3>1, <3>2, <3>4, <3>5 DEF HandoverInv
  <2> QED
    BY <1>5, <2>1, <2>2 DEF CommitNode
<1>6. CASE TakeSlotBack
  <2>1. CASE Leave("done") /\ step = "parked"
    BY <1>3, <2>1 DEF Outcomes
  <2>2. CASE slot' = [slot EXCEPT !.promise = "none"] /\ UNCHANGED turn
    <3>1. /\ slot'.build = slot.build /\ slot'.pause = slot.pause /\ slot'.waiters = slot.waiters
          /\ slot'.holders = slot.holders /\ slot'.promise = "none"
      BY <1>0, <2>2 DEF Slots
    <3>2. Known(slot', turn') /\ Balance(slot', turn')
      BY <1>b, <2>2, <3>1 DEF Known, Balance
    <3> QED
      BY <1>b, <2>2, <3>1, <3>2 DEF HandoverInv
  <2> QED
    BY <1>6, <2>1, <2>2 DEF TakeSlotBack
<1>7. CASE Settle
  <2>0. UNCHANGED turn
    BY <1>7, SettleEffect
  <2>1. PICK q \in Seq(Tasks), tk \in Jobs : InOrder(q, tk, NoTask) /\ Pump(q, tk, slot)
    BY <1>7, SettleEffect
  <2>2. slot.build = NoTask /\ slot.promise = "none"
    BY <1>7, <1>d DEF Settle, LaneState
  <2>3. slot' = slot \/ (q # << >> /\ slot' = Registered(Head(q)))
    BY <1>0, <2>1, <2>2, PumpEffect
  <2>4. q # << >> => Head(q) \in Tasks
    BY HeadTailProperties
  <2> QED
    BY <2>0, <2>2, <2>3, <2>4, DispatchedSlot
<1>8. ASSUME NEW c \in Chats, Ask(c) PROVE HandoverInv'
  <2>1. /\ slot' \in Slots /\ turn' \in Turns
        /\ slot'.build = slot.build /\ slot'.promise = slot.promise
        /\ turn[c].phase = "idle" /\ ~turn'[c].aborted
        /\ \A d \in Chats \ {c} : turn'[d] = turn[d]
        /\ \/ /\ slot.build = NoTask /\ turn'[c].phase = "streaming" /\ ~turn'[c].counted
              /\ slot' = slot
           \/ /\ slot.build # NoTask /\ slot.promise = "pending"
              /\ turn'[c].phase = "streaming" /\ turn'[c].counted
              /\ slot'.holders = slot.holders + 1
              /\ slot'.pause = slot.pause /\ slot'.waiters = slot.waiters
           \/ /\ slot.build # NoTask /\ slot.promise # "pending"
              /\ turn'[c].phase = "waiting" /\ turn'[c].counted
              /\ slot'.holders = slot.holders + 1
              /\ slot'.pause /\ slot'.waiters = slot.waiters \cup {c}
    BY <1>8, AskEffect
  <2>2. Marks(turn')
    BY <1>b, <2>1 DEF Marks
  <2>3. ~turn[c].counted /\ c \notin slot.waiters
    BY <1>b, <2>1 DEF Marks, Known
  <2>4. Known(slot', turn')
    <3>1. \A d \in Chats : turn'[d].phase = "waiting" <=> d \in slot'.waiters
      BY <1>b, <2>1, <2>3 DEF Known
    <3>2. slot'.pause <=> slot'.waiters # {}
      BY <1>b, <2>1 DEF Known
    <3> QED
      BY <3>1, <3>2 DEF Known
  <2>5. Balance(slot', turn')
    <3>1. CASE slot' = slot /\ ~turn'[c].counted
      <4>1. Counted(turn') = Counted(turn)
        BY <2>1, <2>3, <3>1 DEF Counted
      <4> QED
        BY <1>b, <3>1, <4>1 DEF Balance
    <3>2. CASE slot'.holders = slot.holders + 1 /\ turn'[c].counted
      <4>1. Counted(turn') = Counted(turn) \cup {c} /\ c \notin Counted(turn)
        BY <2>1, <2>3, <3>2 DEF Counted
      <4>2. Cardinality(Counted(turn')) = Cardinality(Counted(turn)) + 1
        BY <4>1, CountedFinite, FS_AddElement
      <4>3. slot.holders \in Nat /\ Cardinality(Counted(turn)) \in Nat
        BY <1>0, CountedFinite DEF Slots
      <4> QED
        BY <1>b, <3>2, <4>1, <4>2, <4>3 DEF Balance
    <3> QED
      BY <2>1, <3>1, <3>2
  <2>6. slot'.build = NoTask => slot'.waiters = {}
    BY <1>b, <2>1
  <2> QED
    BY <2>2, <2>4, <2>5, <2>6 DEF HandoverInv
<1>9. ASSUME NEW c \in Chats, GoOn(c) \/ EndTurn(c) PROVE HandoverInv'
  <2>1. /\ slot'.build = slot.build /\ slot'.pause = slot.pause /\ slot'.waiters = slot.waiters
        /\ \A d \in Chats \ {c} : turn'[d] = turn[d]
        /\ turn[c].phase # "waiting" /\ turn'[c].phase # "waiting"
        /\ Marks(turn') /\ Balance(slot', turn')
    BY <1>9, GiveBackEffect
  <2>2. Known(slot', turn')
    BY <1>b, <2>1 DEF Known
  <2> QED
    BY <1>b, <2>1, <2>2 DEF HandoverInv
\* The three steps that abort turns.
<1>e. ASSUME NEW s \in Slots, NEW C \in SUBSET Chats, Known(s, turn), Balance(s, turn),
             s.build = NoTask => s.waiters = {},
             slot' = AfterAborts(s, turn, C) \/ slot' = Torn(AfterAborts(s, turn, C)),
             turn' = AbortedTurns(turn, C)
      PROVE  HandoverInv'
  <2> DEFINE r == AfterAborts(s, turn, C)
  <2>1. Marks(turn')
    BY <1>0, <1>b, <1>e, AbortedEffect
  <2>2. /\ r \in Slots /\ r.build = s.build /\ r.waiters = s.waiters \ C
        /\ Known(r, turn') /\ Balance(r, turn')
    BY <1>0, <1>b, <1>e, AbortsEffect
  <2>3. slot' = r \/ slot' = Torn(r)
    BY <1>e
  <2> HIDE DEF r
  <2>4. /\ slot'.build = r.build /\ slot'.pause = r.pause /\ slot'.waiters = r.waiters
        /\ slot'.holders = r.holders
        /\ slot'.promise = "pending" => slot' = r
    BY <2>2, <2>3, TornEffect
  <2>5. Known(slot', turn') /\ Balance(slot', turn')
    BY <2>2, <2>4 DEF Known, Balance
  <2> QED
    BY <1>e, <2>1, <2>2, <2>4, <2>5 DEF HandoverInv
<1>10. ASSUME NEW c \in Chats, StopGeneration(c) PROVE HandoverInv'
  <2>1. turn' = AbortedTurns(turn, {c}) /\ slot' = AfterAborts(slot, turn, {c})
    BY <1>10 DEF StopGeneration
  <2> QED
    BY <1>0, <1>b, <1>e, <2>1
<1>11. CASE TimerFires \/ ParkGrowsOld
  <2>1. /\ UNCHANGED turn
        /\ slot'.build = slot.build /\ slot'.pause = slot.pause /\ slot'.waiters = slot.waiters
        /\ slot'.holders = slot.holders
        /\ slot'.promise # slot.promise => slot.promise = "pending" /\ slot'.promise = "resolved"
        /\ slot'.promise = "pending" => slot'.timer = slot.timer \/ slot.holders # 0
    BY <1>11, ClockEffect
  <2>2. Known(slot', turn')
    BY <1>b, <2>1 DEF Known
  <2>3. Balance(slot', turn')
    <3>1. slot.holders # 0 => Counted(turn) # {}
      BY <1>0, <1>b, FS_EmptySet, CountedFinite DEF Balance, Slots
    <3> QED
      BY <1>b, <2>1, <3>1 DEF Balance
  <2> QED
    BY <1>b, <2>1, <2>2, <2>3 DEF HandoverInv
<1>12. CASE \/ StartSkillRun \/ EndSkillRun \/ ModelGoes \/ StartModel \/ EndLock \/ Unlock
            \/ UNCHANGED vars
  <2>1. UNCHANGED <<slot, turn>>
    BY <1>12 DEF StartSkillRun, EndSkillRun, ModelGoes, StartModel, EndLock, Unlock, vars
  <2> QED
    BY <2>1 DEF HandoverInv
<1>13. CASE StopModel
  <2>1. turn' = AbortedTurns(turn, InFlight)
        /\ slot' = AfterAborts(IF BuildRuns THEN Torn(slot) ELSE slot, turn, InFlight)
    BY <1>13 DEF StopModel
  <2>2. ASSUME NEW s, s = slot \/ s = Torn(slot)
        PROVE  /\ s \in Slots /\ Known(s, turn) /\ Balance(s, turn)
               /\ s.build = NoTask => s.waiters = {}
    BY <1>0, <1>b, <2>2, TornEffect DEF Known, Balance
  <2>3. InFlight \in SUBSET Chats
    BY DEF InFlight
  <2>4. CASE BuildRuns
    BY <1>e, <2>1, <2>2, <2>3, <2>4
  <2>5. CASE ~BuildRuns
    BY <1>e, <2>1, <2>2, <2>3, <2>5
  <2> QED
    BY <2>4, <2>5
<1>14. CASE BeginLock
  <2>1. /\ turn' = AbortedTurns(turn, InFlight)
        /\ slot' = AfterAborts(slot, turn, InFlight) \/ slot' = Torn(AfterAborts(slot, turn, InFlight))
    BY <1>14 DEF BeginLock
  <2>2. InFlight \in SUBSET Chats
    BY DEF InFlight
  <2> QED
    BY <1>0, <1>b, <1>e, <2>1, <2>2
<1> QED
  BY <1>1, <1>2, <1>4, <1>5, <1>6, <1>7, <1>8, <1>9, <1>10, <1>11, <1>12, <1>13, <1>14 DEF Next

-----------------------------------------------------------------------------
(* One job at a time, as long as the user starts no task behind another. *)

\* The last holder of a parked build is gone: nobody is about to use the model.
LEMMA NobodyCounts ==
  ASSUME NEW tn \in Turns, Marks(tn), AllCount(tn), Cardinality(Counted(tn)) = 0
  PROVE  Quiet(tn)
<1>1. Counted(tn) = {}
  BY CountedFinite, FS_EmptySet
<1>2. \A c \in Chats : ~tn[c].counted
  BY <1>1 DEF Counted
<1> QED
  BY <1>2 DEF Marks, AllCount, Quiet

LEMMA NobodyAsks ==
  ASSUME Marks(turn), ~IsChatStreaming
  PROVE  Cardinality(Counted(turn)) = 0 /\ Quiet(turn) /\ AllCount(turn)
<1>1. \A c \in Chats : turn[c].phase = "idle"
  BY DEF IsChatStreaming, InFlight
<1>2. Counted(turn) = {}
  BY <1>1 DEF Marks, Counted
<1> QED
  BY <1>1, <1>2, FS_EmptySet DEF Quiet, AllCount

\* A step of the turns under the same task: the count stays exact, and a promise
\* that resolves finds nobody.
LEMMA SameJob ==
  ASSUME LaneState, OneJobInv, UNCHANGED <<running, step, skillRun, patient>>,
         queue' = queue \/ queue' = << >>, turn' \in Turns, Marks(turn'),
         skillRun => ~IsChatStreaming',
         slot'.promise = "resolved" => slot.promise = "resolved"
                                       \/ (slot.promise = "pending" /\ slot'.holders = 0),
         patient /\ slot.holders = Cardinality(Counted(turn)) =>
            slot'.holders = Cardinality(Counted(turn')),
         patient /\ (step = "generating" \/ slot.promise = "resolved") /\ Quiet(turn) => Quiet(turn'),
         patient /\ step = "parked" /\ AllCount(turn) => AllCount(turn')
  PROVE  OneJobInv'
<1>1. skillRun' => running' = NoTask /\ queue' = << >> /\ ~IsChatStreaming'
  BY DEF OneJobInv
<1>2. ASSUME patient'
      PROVE  /\ queue' = << >> /\ slot'.holders = Cardinality(Counted(turn'))
             /\ step' = "parked" => AllCount(turn')
  BY <1>2 DEF OneJobInv
<1>3. ASSUME patient', step' = "generating" \/ slot'.promise = "resolved"
      PROVE  Quiet(turn')
  <2>1. CASE step = "generating" \/ slot.promise = "resolved"
    BY <1>3, <2>1 DEF OneJobInv
  <2>2. CASE slot.promise = "pending" /\ slot'.holders = 0
    <3>1. step' = "parked"
      BY <2>2 DEF LaneState
    <3> QED
      BY <1>2, <1>3, <2>2, <3>1, NobodyCounts
  <2> QED
    BY <1>3, <2>1, <2>2
<1> QED
  BY <1>1, <1>2, <1>3 DEF OneJobInv

\* A dispatch from an empty queue, or of one task while nobody asks.
LEMMA DispatchedJob ==
  ASSUME TypeOK, LaneState, HandoverInv, OneJobInv,
         NEW q \in Seq(Tasks), NEW tk \in Jobs, InOrder(q, tk, NoTask), Pump(q, tk, slot),
         step \in {"none", "leaving"}, UNCHANGED <<turn, otherVars>>, ~skillRun,
         patient => q = << >> \/ (~IsChatStreaming /\ \E t \in Tasks : q = Append(<< >>, t))
  PROVE  OneJobInv'
<1>0. slot \in Slots /\ slot.build = NoTask /\ slot.promise = "none" /\ Marks(turn)
  BY DEF LaneState, HandoverInv
<1>1. /\ slot'.promise = "none"
      /\ slot' = slot \/ (q # << >> /\ slot' = Registered(Head(q)))
      /\ q = << >> => queue' = << >> /\ running' = NoTask
      /\ q # << >> => running' = Head(q) /\ queue' = Tail(q)
      /\ step' \in {"none", "generating", "leaving"}
      /\ running' = NoTask <=> step' = "none"
  BY <1>0, PumpEffect
<1>2. ~skillRun' /\ patient' = patient /\ turn' = turn
  BY DEF otherVars
<1>3. ASSUME patient
      PROVE  /\ queue' = << >> /\ slot'.holders = Cardinality(Counted(turn))
             /\ step' = "generating" => Quiet(turn)
  <2>1. CASE q = << >>
    BY <1>1, <1>3, <2>1 DEF OneJobInv
  <2>2. CASE ~IsChatStreaming /\ \E t \in Tasks : q = Append(<< >>, t)
    <3>1. q # << >> /\ Tail(q) = << >>
      <4>1. PICK t \in Tasks : q = Append(<< >>, t)
        BY <2>2
      <4> QED
        BY <4>1, EmptySeq, AppendProperties, HeadTailAppend
    <3>2. Cardinality(Counted(turn)) = 0 /\ Quiet(turn)
      BY <1>0, <2>2, NobodyAsks
    <3>3. slot'.holders = 0
      <4>1. Registered(Head(q)).holders = 0
        BY DEF Registered, FreeSlot
      <4>2. slot.holders = 0
        BY <1>3, <3>2 DEF OneJobInv
      <4> QED
        BY <1>1, <4>1, <4>2
    <3> QED
      BY <1>1, <3>1, <3>2, <3>3
  <2> QED
    BY <1>3, <2>1, <2>2
<1> QED
  BY <1>1, <1>2, <1>3 DEF OneJobInv

LEMMA OneJobStep ==
  ASSUME TypeOK, LaneInv, HandoverInv, OneJobInv, [Next]_vars, HandoverInv', TypeOK'
  PROVE  OneJobInv'
<1>0. slot \in Slots /\ turn \in Turns /\ turn' \in Turns
  BY TypesNamed DEF TypeOK, Turns
<1>b. Marks(turn) /\ Known(slot, turn) /\ Balance(slot, turn) /\ Marks(turn')
  BY DEF HandoverInv
<1>d. LaneState
  BY LaneStateNow
<1>f. /\ running = NoTask <=> step = "none"
      /\ step = "parked" <=> slot.promise # "none"
      /\ running \in Tasks \cup {NoTask}
  BY <1>d DEF LaneState
<1>g. skillRun => running = NoTask /\ queue = << >> /\ \A c \in Chats : turn[c].phase = "idle"
  BY DEF OneJobInv, IsChatStreaming, InFlight
<1>1. ASSUME NEW t \in Tasks, NEW k \in StartKinds, NEW d \in Docs, StartDocTask(t, k, d)
      PROVE  OneJobInv'
  <2>0. /\ UNCHANGED <<turn, otherVars>> /\ ~IsChatStreaming /\ ~skillRun
        /\ patient => running = NoTask /\ queue = << >>
        /\ Append(queue, t) \in Seq(Tasks)
    BY <1>1, StartEffect
  <2>1. PICK tk \in Jobs :
          /\ InOrder(Append(queue, t), tk, running)
          /\ \/ running = NoTask /\ Pump(Append(queue, t), tk, slot)
             \/ running # NoTask /\ UNCHANGED <<running, step, nodesLeft, outcome, slot>>
    BY <1>1, StartEffect
  <2>2. CASE running # NoTask
    <3>1. ~patient' /\ ~skillRun'
      BY <2>0, <2>2 DEF otherVars
    <3> QED
      BY <3>1 DEF OneJobInv
  <2>3. CASE running = NoTask /\ Pump(Append(queue, t), tk, slot)
    BY <1>d, <1>f, <2>0, <2>1, <2>3, DispatchedJob
  <2> QED
    BY <2>1, <2>2, <2>3
<1>2. ASSUME NEW t \in Tasks, CancelDocTask(t) PROVE OneJobInv'
  <2>1. /\ UNCHANGED <<running, step, turn, otherVars>> /\ (slot' = slot \/ slot' = Torn(slot))
        /\ UNCHANGED queue \/ \E i \in 1 .. Len(queue) : queue' = Without(queue, i)
    BY <1>2 DEF CancelDocTask
  <2>2. queue = << >> => queue' = << >>
    BY <2>1, EmptySeq
  <2>3. slot'.holders = slot.holders
        /\ (slot'.promise = "resolved" => slot.promise = "resolved")
    BY <1>0, <2>1, TornEffect
  <2> QED
    BY <2>1, <2>2, <2>3 DEF OneJobInv, otherVars, IsChatStreaming, InFlight
<1>3. ASSUME NEW how \in Outcomes, Leave(how), step \in {"generating", "parked"}
      PROVE  OneJobInv'
  <2>1. /\ step' = "leaving" /\ UNCHANGED <<queue, running, otherVars>>
        /\ slot'.promise = "none" /\ slot'.holders = slot.holders
        /\ turn' = Woken(turn, slot) \/ UNCHANGED <<slot, turn>>
    BY <1>3, LeaveEffect
  <2>2. Counted(turn') = Counted(turn)
    BY <1>0, <1>b, <2>1, WokenEffect
  <2>3. ~skillRun
    BY <1>3, <1>f, <1>g
  <2> QED
    BY <2>1, <2>2, <2>3 DEF OneJobInv, otherVars
<1>4. CASE FinishTask \/ FailTask \/ CancelledTask \/ Unwind
  BY <1>3, <1>4 DEF FinishTask, FailTask, CancelledTask, Unwind, Generating, Outcomes
<1>5. CASE CommitNode
  <2>0. step = "generating" /\ running # NoTask /\ UNCHANGED <<queue, running, otherVars>>
    BY <1>5 DEF CommitNode, Generating
  <2>1. CASE UNCHANGED <<step, slot, turn>>
    BY <2>0, <2>1 DEF OneJobInv, otherVars, IsChatStreaming, InFlight
  <2>2. CASE step' = "parked" /\ slot' = Parked(slot) /\ turn' = Woken(turn, slot)
    <3>1. slot'.holders = slot.holders /\ slot'.promise = "pending"
      BY <1>0, <2>2, ParkEffect
    <3>2. /\ Counted(turn') = Counted(turn)
          /\ \A c \in Chats : turn'[c].phase = "streaming" => turn'[c] = turn[c]
      BY <1>0, <1>b, <2>2, WokenEffect
    <3>3. ~skillRun
      BY <1>g, <2>0
    <3>4. patient => AllCount(turn')
      BY <2>0, <3>2 DEF OneJobInv, Quiet, AllCount
    <3> QED
      BY <2>0, <2>2, <3>1, <3>2, <3>3, <3>4 DEF OneJobInv, otherVars
  <2> QED
    BY <1>5, <2>1, <2>2 DEF CommitNode
<1>6. CASE TakeSlotBack
  <2>1. CASE Leave("done") /\ step = "parked"
    BY <1>3, <2>1 DEF Outcomes
  <2>2. CASE /\ step = "parked" /\ slot.promise = "resolved" /\ step' = "generating"
             /\ slot' = [slot EXCEPT !.promise = "none"]
             /\ UNCHANGED <<queue, running, turn, otherVars>>
    <3>1. slot'.holders = slot.holders /\ slot'.promise = "none"
      BY <1>0, <2>2 DEF Slots
    <3> QED
      BY <2>2, <3>1 DEF OneJobInv, otherVars, IsChatStreaming, InFlight
  <2> QED
    BY <1>6, <2>1, <2>2 DEF TakeSlotBack
<1>7. CASE Settle
  <2>0. UNCHANGED <<turn, otherVars>> /\ running # NoTask /\ step = "leaving"
    BY <1>7, SettleEffect DEF Settle
  <2>1. PICK q \in Seq(Tasks), tk \in Jobs :
          /\ InOrder(q, tk, NoTask) /\ Pump(q, tk, slot)
          /\ \/ q = queue
             \/ workspace = "open" /\ ~IsChatStreaming /\ \E u \in Tasks : q = Append(queue, u)
    BY <1>7, SettleEffect
  <2>2. patient => queue = << >>
    BY DEF OneJobInv
  <2> QED
    BY <1>d, <1>g, <2>0, <2>1, <2>2, DispatchedJob
<1>8. ASSUME NEW c \in Chats, Ask(c) PROVE OneJobInv'
  <2>1. /\ UNCHANGED <<taskVars, otherVars>> /\ ~skillRun
        /\ running # NoTask => slot.build # NoTask
        /\ slot'.promise = slot.promise
        /\ turn[c].phase = "idle"
        /\ \A d \in Chats \ {c} : turn'[d] = turn[d]
        /\ \/ /\ slot.build = NoTask /\ turn'[c].phase = "streaming" /\ ~turn'[c].counted
              /\ slot' = slot
           \/ /\ slot.build # NoTask /\ slot.promise = "pending"
              /\ turn'[c].phase = "streaming" /\ turn'[c].counted
              /\ slot'.holders = slot.holders + 1
           \/ /\ slot.build # NoTask /\ slot.promise # "pending"
              /\ turn'[c].phase = "waiting" /\ turn'[c].counted
              /\ slot'.holders = slot.holders + 1
    BY <1>8, AskEffect
  <2>2. ~turn[c].counted
    BY <1>b, <2>1 DEF Marks
  <2>3. slot.holders = Cardinality(Counted(turn)) => slot'.holders = Cardinality(Counted(turn'))
    <3>1. CASE slot' = slot /\ ~turn'[c].counted
      <4>1. Counted(turn') = Counted(turn)
        BY <2>1, <2>2, <3>1 DEF Counted
      <4> QED
        BY <3>1, <4>1
    <3>2. CASE slot'.holders = slot.holders + 1 /\ turn'[c].counted
      <4>1. Counted(turn') = Counted(turn) \cup {c} /\ c \notin Counted(turn)
        BY <2>1, <2>2, <3>2 DEF Counted
      <4>2. Cardinality(Counted(turn')) = Cardinality(Counted(turn)) + 1
        BY <4>1, CountedFinite, FS_AddElement
      <4> QED
        BY <3>2, <4>2
    <3> QED
      BY <2>1, <3>1, <3>2
  <2>4. (step = "generating" \/ slot.promise = "resolved") /\ Quiet(turn) => Quiet(turn')
    <3>1. step = "generating" \/ slot.promise = "resolved" => turn'[c].phase = "waiting"
      BY <1>f, <2>1
    <3> QED
      BY <2>1, <3>1 DEF Quiet
  <2>5. step = "parked" /\ AllCount(turn) => AllCount(turn')
    <3>1. step = "parked" => turn'[c].counted
      BY <1>f, <2>1
    <3> QED
      BY <2>1, <3>1 DEF AllCount
  <2>6. UNCHANGED <<queue, running, step, skillRun, patient>>
    BY <2>1 DEF taskVars, otherVars
  <2> QED
    BY <1>0, <1>b, <1>d, <2>1, <2>3, <2>4, <2>5, <2>6, SameJob
<1>9. ASSUME NEW c \in Chats, GoOn(c) \/ EndTurn(c) PROVE OneJobInv'
  <2>1. /\ UNCHANGED <<taskVars, otherVars>>
        /\ slot'.promise # slot.promise =>
              slot.promise = "pending" /\ slot'.promise = "resolved" /\ slot'.holders = 0
        /\ \A d \in Chats \ {c} : turn'[d] = turn[d]
        /\ turn'[c].phase \notin {"waiting", "woken"}
        /\ turn'[c].phase = "streaming" => turn[c].phase = "woken" /\ turn'[c].counted
        /\ slot.holders = Cardinality(Counted(turn)) =>
              slot'.holders = Cardinality(Counted(turn'))
    BY <1>9, GiveBackEffect
  <2>2. UNCHANGED <<queue, running, step, skillRun, patient>>
    BY <2>1 DEF taskVars, otherVars
  <2>3. ~skillRun
    BY <1>9, <1>g DEF GoOn, EndTurn
  <2>4. Quiet(turn) => Quiet(turn')
    BY <2>1 DEF Quiet
  <2>5. AllCount(turn) => AllCount(turn')
    BY <2>1 DEF AllCount
  <2> QED
    BY <1>0, <1>b, <1>d, <2>1, <2>2, <2>3, <2>4, <2>5, SameJob
\* The steps that abort turns.
<1>e. ASSUME NEW s \in Slots, NEW C \in SUBSET Chats, Known(s, turn), Balance(s, turn),
             s.holders = slot.holders,
             s.promise = slot.promise \/ s.promise = "rejected",
             slot' = AfterAborts(s, turn, C) \/ slot' = Torn(AfterAborts(s, turn, C)),
             turn' = AbortedTurns(turn, C),
             UNCHANGED <<running, step, skillRun, patient>>,
             queue' = queue \/ queue' = << >>
      PROVE  OneJobInv'
  <2> DEFINE r == AfterAborts(s, turn, C)
  <2>1. /\ r \in Slots
        /\ r.promise # s.promise =>
              s.promise = "pending" /\ r.promise = "resolved" /\ r.holders = 0
        /\ s.holders = Cardinality(Counted(turn)) => r.holders = Cardinality(Counted(turn'))
    BY <1>0, <1>b, <1>e, AbortsEffect
  <2>2. (Quiet(turn) => Quiet(turn')) /\ (AllCount(turn) => AllCount(turn'))
    BY <1>0, <1>b, <1>e, AbortedEffect
  <2>3. skillRun => ~IsChatStreaming'
    <3>1. \A c \in Chats : turn[c].phase = "idle" => turn'[c] = turn[c]
      BY <1>e DEF AbortedTurns
    <3> QED
      BY <1>g, <3>1 DEF IsChatStreaming, InFlight
  <2>4. slot' = r \/ slot' = Torn(r)
    BY <1>e
  <2> HIDE DEF r
  <2>5. slot'.holders = r.holders /\ (slot'.promise = "resolved" => r.promise = "resolved")
    BY <2>1, <2>4, TornEffect
  <2>6. slot'.promise = "resolved" => slot.promise = "resolved"
                                      \/ (slot.promise = "pending" /\ slot'.holders = 0)
    BY <1>e, <2>1, <2>5
  <2>7. slot.holders = Cardinality(Counted(turn)) => slot'.holders = Cardinality(Counted(turn'))
    BY <1>e, <2>1, <2>5
  <2> QED
    BY <1>0, <1>b, <1>d, <1>e, <2>2, <2>3, <2>6, <2>7, SameJob
<1>10. ASSUME NEW c \in Chats, StopGeneration(c) PROVE OneJobInv'
  <2>1. turn' = AbortedTurns(turn, {c}) /\ slot' = AfterAborts(slot, turn, {c})
        /\ UNCHANGED <<queue, running, step, skillRun, patient>>
    BY <1>10 DEF StopGeneration, taskVars, otherVars
  <2> QED
    BY <1>0, <1>b, <1>e, <2>1
<1>11. CASE TimerFires \/ ParkGrowsOld
  <2>1. /\ UNCHANGED <<taskVars, turn, otherVars>> /\ slot'.holders = slot.holders
        /\ slot'.promise # slot.promise =>
              slot.promise = "pending" /\ slot'.promise = "resolved" /\ slot'.holders = 0
    BY <1>11, ClockEffect
  <2>2. UNCHANGED <<queue, running, step, skillRun, patient, turn>>
    BY <2>1 DEF taskVars, otherVars
  <2>3. skillRun => ~IsChatStreaming'
    BY <1>g, <2>2 DEF IsChatStreaming, InFlight
  <2> QED
    BY <1>0, <1>b, <1>d, <2>1, <2>2, <2>3, SameJob
<1>12. CASE \/ StartSkillRun \/ EndSkillRun \/ ModelGoes \/ StartModel \/ EndLock \/ Unlock
            \/ UNCHANGED vars
  <2>1. UNCHANGED <<taskVars, slot, turn, patient>>
        /\ (skillRun' => skillRun \/ (~IsChatStreaming /\ ~HasActiveTask))
    BY <1>12 DEF StartSkillRun, EndSkillRun, ModelGoes, StartModel, EndLock, Unlock, vars, otherVars
  <2> QED
    BY <2>1 DEF OneJobInv, taskVars, HasActiveTask, IsChatStreaming, InFlight
<1>13. CASE StopModel
  <2>1. turn' = AbortedTurns(turn, InFlight)
        /\ slot' = AfterAborts(IF BuildRuns THEN Torn(slot) ELSE slot, turn, InFlight)
        /\ UNCHANGED <<queue, running, step, skillRun, patient>>
    BY <1>13 DEF StopModel
  <2>2. ASSUME NEW s, s = slot \/ s = Torn(slot)
        PROVE  /\ s \in Slots /\ Known(s, turn) /\ Balance(s, turn) /\ s.holders = slot.holders
               /\ s.promise = slot.promise \/ s.promise = "rejected"
    BY <1>0, <1>b, <2>2, TornEffect DEF Known, Balance
  <2>3. InFlight \in SUBSET Chats
    BY DEF InFlight
  <2>4. CASE BuildRuns
    BY <1>e, <2>1, <2>2, <2>3, <2>4
  <2>5. CASE ~BuildRuns
    BY <1>e, <2>1, <2>2, <2>3, <2>5
  <2> QED
    BY <2>4, <2>5
<1>14. CASE BeginLock
  <2>1. /\ turn' = AbortedTurns(turn, InFlight) /\ queue' = << >>
        /\ slot' = AfterAborts(slot, turn, InFlight) \/ slot' = Torn(AfterAborts(slot, turn, InFlight))
        /\ UNCHANGED <<running, step, skillRun, patient>>
    BY <1>14 DEF BeginLock
  <2>2. InFlight \in SUBSET Chats
    BY DEF InFlight
  <2> QED
    BY <1>0, <1>b, <1>e, <2>1, <2>2
<1> QED
  BY <1>1, <1>2, <1>4, <1>5, <1>6, <1>7, <1>8, <1>9, <1>10, <1>11, <1>12, <1>13, <1>14 DEF Next

-----------------------------------------------------------------------------
(* The theorems. *)

SlotInv == TypeOK /\ LaneInv /\ HandoverInv /\ OneJobInv

LEMMA InitSlot == Init => SlotInv
<1> SUFFICES ASSUME Init PROVE SlotInv
  OBVIOUS
<1>1. /\ FreeSlot \in Slots /\ FreeSlot.build = NoTask /\ ~FreeSlot.pause /\ FreeSlot.waiters = {}
      /\ FreeSlot.holders = 0 /\ FreeSlot.promise = "none"
  BY DEF FreeSlot, Slots
<1>2. turn \in Turns /\ \A c \in Chats : turn[c].phase = "idle" /\ ~turn[c].counted
  BY DEF Init, Turns, Idle
<1>3. task \in Jobs /\ \A t \in Tasks : task[t].state = "ended"
  <2>1. Over(NoTask).state = "ended"
    BY DEF Over
  <2> QED
    BY <2>1, OverTyped DEF Init, Jobs
<1>4. << >> \in Seq(Tasks) /\ Len(<< >>) = 0
  BY EmptySeq
<1>5. InOrder(<< >>, task, NoTask)
  BY <1>3, <1>4 DEF InOrder
<1>6. TypeOK
  <2>1. queue \in Seq(Tasks) /\ running \in Tasks \cup {NoTask} /\ task \in Jobs
    BY <1>3, <1>4 DEF Init
  <2>2. /\ step \in {"none", "generating", "parked", "leaving"}
        /\ nodesLeft \in 0 .. Nodes /\ outcome \in Outcomes
    BY DEF Init, Outcomes
  <2>3. slot \in Slots /\ turn \in Turns
    BY <1>1, <1>2 DEF Init
  <2>4. /\ skillRun \in BOOLEAN /\ modelUp \in BOOLEAN /\ patient \in BOOLEAN
        /\ workspace \in {"open", "locking", "locked"}
    BY DEF Init
  <2> QED
    BY <2>1, <2>2, <2>3, <2>4, TypesNamed
<1>7. LaneInv
  BY <1>1, <1>5, LaneNamed DEF Init, LaneInv
<1>8. Marks(turn) /\ ~IsChatStreaming
  BY <1>2 DEF Marks, IsChatStreaming, InFlight
<1>9. HandoverInv
  BY <1>1, <1>2, <1>8, CountedFinite DEF Init, HandoverInv, Known, Balance
<1>10. OneJobInv
  BY <1>1, <1>8, NobodyAsks DEF Init, OneJobInv
<1> QED
  BY <1>6, <1>7, <1>9, <1>10 DEF SlotInv

LEMMA SlotInvStep == SlotInv /\ [Next]_vars => SlotInv'
<1> SUFFICES ASSUME SlotInv, [Next]_vars PROVE SlotInv'
  OBVIOUS
<1>1. TypeOK' /\ LaneInv'
  BY LaneStep DEF SlotInv
<1>2. HandoverInv'
  BY HandoverStep DEF SlotInv
<1>3. OneJobInv'
  BY <1>1, <1>2, OneJobStep DEF SlotInv
<1> QED
  BY <1>1, <1>2, <1>3 DEF SlotInv

\* Every reachable state of the model slot is well-typed, its queue and arbiter
\* agree (DocTaskManager, ModelSlotArbiter), and the count of holders is exact
\* where one task at a time is started.
THEOREM SlotStaysConsistent == Spec => []SlotInv
<1> QED
  BY InitSlot, SlotInvStep, PTL DEF Spec

\* Nothing is dispatched twice, nothing queued is lost, and only a running build
\* owns the slot (pump, run and registerBuild).
THEOREM LaneStaysConsistent == Spec => []LaneIsConsistent
<1>1. SlotInv => LaneIsConsistent
  BY DEF SlotInv, LaneInv
<1> QED
  BY <1>1, SlotStaysConsistent, PTL

\* An answer that waits in acquireForChat is known to a build that was asked to
\* pause, whatever aborts, cancels, locks and model stops come in between.
THEOREM WaitersAreKnown == Spec => []NoWaiterForgotten
<1>1. SlotInv => NoWaiterForgotten
  <2> SUFFICES ASSUME SlotInv PROVE NoWaiterForgotten
    OBVIOUS
  <2>1. Known(slot, turn) /\ (slot.build = NoTask => slot.waiters = {}) /\ running \in Tasks \cup {NoTask}
        /\ (slot.build # NoTask => slot.build = running)
    BY TypesNamed, LaneNamed DEF SlotInv, LaneInv, HandoverInv
  <2> QED
    BY <2>1 DEF NoWaiterForgotten, Known
<1> QED
  BY <1>1, SlotStaysConsistent, PTL

\* A parked build has a resume timer or a counted answer that will release it
\* (reacquire, releaseOneChat), although registerBuild resets the count.
THEOREM ParkedComesBack == Spec => []ParkedHasAWayBack
<1>1. SlotInv => ParkedHasAWayBack
  BY DEF SlotInv, HandoverInv, Balance, ParkedHasAWayBack, Counted
<1> QED
  BY <1>1, SlotStaysConsistent, PTL

\* As long as the user starts no task behind a running one, a task, an answer and
\* a skill run never call the model together.
THEOREM OneJobWhenPatient == Spec => []OneJobWithoutAQueue
<1>1. SlotInv => OneJobWithoutAQueue
  BY DEF SlotInv, OneJobInv, OneJobWithoutAQueue, OneJobAtATime, Generating, Quiet,
         AnAnswerStreams, Streams, IsChatStreaming, InFlight
<1> QED
  BY <1>1, SlotStaysConsistent, PTL

\* From the first act of a lock until the workspace is open again no task is
\* dispatched (cancelAllDocTasks empties the queue, startDocTask refuses).
THEOREM LockStartsNothing == Spec => NothingStartsUnderALock
<1>1. SlotInv /\ [Next]_vars => [workspace # "open" => running' \in {running, NoTask}]_vars
  <2> SUFFICES ASSUME SlotInv, Next, workspace # "open"
               PROVE  running' \in {running, NoTask}
    BY DEF vars
  <2>1. queue = << >>
    BY DEF SlotInv, LaneInv
  <2>2. CASE Settle
    <3>1. PICK q \in Seq(Tasks), tk \in Jobs : Pump(q, tk, slot) /\ q = queue
      BY <2>2, SettleEffect DEF SlotInv
    <3> QED
      BY <2>1, <3>1 DEF Pump
  <2>3. CASE \E t \in Tasks, k \in StartKinds, d \in Docs : StartDocTask(t, k, d)
    BY <2>3 DEF StartDocTask, MayStart
  <2>4. CASE \E t \in Tasks : CancelDocTask(t)
    BY <2>4 DEF CancelDocTask
  <2>5. CASE FinishTask \/ FailTask \/ CancelledTask \/ CommitNode \/ TakeSlotBack \/ Unwind
    BY <2>5 DEF FinishTask, FailTask, CancelledTask, CommitNode, TakeSlotBack, Unwind, Leave
  <2>6. CASE \E c \in Chats : Ask(c) \/ GoOn(c) \/ StopGeneration(c) \/ EndTurn(c)
    BY <2>6 DEF Ask, GoOn, StopGeneration, EndTurn, taskVars
  <2>7. CASE \/ TimerFires \/ ParkGrowsOld \/ StartSkillRun \/ EndSkillRun \/ StopModel
             \/ ModelGoes \/ StartModel \/ BeginLock \/ EndLock \/ Unlock
    BY <2>7 DEF TimerFires, ParkGrowsOld, StartSkillRun, EndSkillRun, StopModel,
                ModelGoes, StartModel, BeginLock, EndLock, Unlock, taskVars
  <2> QED
    BY <2>2, <2>3, <2>4, <2>5, <2>6, <2>7 DEF Next
<1> QED
  BY <1>1, SlotStaysConsistent, PTL DEF NothingStartsUnderALock, Spec
=============================================================================
