---------------------------- MODULE WorkerProofs ----------------------------
(***************************************************************************)
(* Theorems about Worker, for any set of messages and any bound: how the   *)
(* threads stand to each other, that messages are handled once and in      *)
(* order, and that the worker implements the mailbox.                      *)
(***************************************************************************)
EXTENDS Worker, SequenceTheorems, WellFoundedInduction, TLAPS

(* How the three threads stand to each other: the worker's exists when      *)
(* m_thread does, the timer's from the worker's start to before its end,    *)
(* and an owner that waits, waits for a thread that it has not joined.      *)
ThreadsAgree ==
  /\ thread = "null" <=> process = "none"
  /\ timer = "none" <=> process \in {"none", "starting"}
  /\ process = "done" => timer = "done"
  /\ owner \in {"exiting", "destroying"} => thread = "joinable"
  /\ owner = "destroyed" => thread # "joinable"
  /\ process \in {"none", "starting"} => message = <<>>

WInv == WorkerTypeOK /\ NoLostWakeup /\ ThreadsAgree

-----------------------------------------------------------------------------
(* A message that is pushed wakes the worker up.                            *)
LEMMA EnqueueFacts ==
  ASSUME WInv, NEW m \in AnyMessage, Enqueue(m)
  PROVE  /\ queue' \in Seq(AnyMessage)
         /\ process' # "waiting"
         /\ process' = process \/ (process = "waiting" /\ process' = "ready")
  BY DEF WInv, WorkerTypeOK, Enqueue, Notified

LEMMA CallersPreserve ==
  ASSUME WInv, (\E m \in Messages : PostMessage(m))
                 \/ (\E call \in {"exiting", "destroying"} : ExitThread(call))
  PROVE  WInv'
<1>1. CASE \E m \in Messages : PostMessage(m)
  <2>1. PICK m \in Messages : PostMessage(m)
    BY <1>1
  <2>2. UNCHANGED <<thread, timerExit, message, timer, owner, before>>
    BY <2>1 DEF PostMessage
  <2>3. CASE UNCHANGED <<queue, process>>
    BY <2>2, <2>3 DEF WInv, WorkerTypeOK, NoLostWakeup, ThreadsAgree
  <2>4. CASE Enqueue(m) /\ thread # "null"
    <3>1. /\ queue' \in Seq(AnyMessage)
          /\ process' # "waiting"
          /\ process' = process \/ (process = "waiting" /\ process' = "ready")
      BY <2>4, EnqueueFacts DEF AnyMessage
    <3>2. QED
      BY <2>2, <3>1 DEF WInv, WorkerTypeOK, NoLostWakeup, ThreadsAgree
  <2>5. QED
    BY <2>1, <2>3, <2>4 DEF PostMessage
<1>2. CASE \E call \in {"exiting", "destroying"} : ExitThread(call)
  <2>1. PICK call \in {"exiting", "destroying"} : ExitThread(call)
    BY <1>2
  <2>2. UNCHANGED <<thread, timerExit, message, timer>> /\ owner = "free"
    BY <2>1 DEF ExitThread
  <2>3. CASE thread = "null"
    BY <2>1, <2>2, <2>3 DEF ExitThread, WInv, WorkerTypeOK, NoLostWakeup, ThreadsAgree
  <2>4. CASE thread # "null"
    <3>1. Enqueue(ExitMessage)
      BY <2>1, <2>4 DEF ExitThread
    <3>2. /\ queue' \in Seq(AnyMessage)
          /\ process' # "waiting"
          /\ process' = process \/ (process = "waiting" /\ process' = "ready")
      BY <3>1, EnqueueFacts DEF AnyMessage
    <3>3. before' \in Nat
      <4>1. before' = before \/ before' = Len(accepted)
        BY <2>1, <2>4 DEF ExitThread
      <4>2. QED
        BY <4>1 DEF WInv, WorkerTypeOK
    <3>4. \/ thread = "joinable" /\ owner' = call
          \/ thread = "joined" /\ owner' \in {"terminated", "free"}
      BY <2>1, <2>2, <2>4 DEF ExitThread
    <3>5. QED
      BY <2>2, <3>2, <3>3, <3>4 DEF WInv, WorkerTypeOK, NoLostWakeup, ThreadsAgree
  <2>5. QED
    BY <2>3, <2>4
<1>3. QED
  BY <1>1, <1>2

LEMMA OwnerPreserves ==
  ASSUME WInv, CreateThread \/ ThreadJoined
  PROVE  WInv'
  BY DEF CreateThread, ThreadJoined, WInv, WorkerTypeOK, NoLostWakeup, ThreadsAgree

LEMMA ProcessPreserves ==
  ASSUME WInv, Process \/ SpuriousWakeup
  PROVE  WInv'
<1>1. CASE StartTimer
  BY <1>1 DEF StartTimer, WInv, WorkerTypeOK, NoLostWakeup, ThreadsAgree
<1>2. CASE Wait \/ SpuriousWakeup
  BY <1>2 DEF Wait, SpuriousWakeup, WInv, WorkerTypeOK, NoLostWakeup, ThreadsAgree
<1>3. CASE Take
  <2>1. /\ queue \in Seq(AnyMessage) /\ queue # <<>>
        /\ message' = <<Head(queue)>> /\ queue' = Tail(queue)
        /\ process = "ready" /\ process' = "handling"
        /\ UNCHANGED <<thread, timerExit, timer, owner, before>>
    BY <1>3 DEF Take, WInv, WorkerTypeOK
  <2>2. message' \in Seq(AnyMessage) /\ queue' \in Seq(AnyMessage) /\ message' # <<>>
    BY <2>1
  <2>3. QED
    BY <2>1, <2>2 DEF WInv, WorkerTypeOK, NoLostWakeup, ThreadsAgree
<1>4. CASE HandleMessage \/ HandleExit
  <2>1. <<>> \in Seq(AnyMessage)
    OBVIOUS
  <2>2. timerExit' \in BOOLEAN
    BY <1>4, Zenon DEF HandleMessage, HandleExit, WInv, WorkerTypeOK
  <2>3. /\ message' = <<>>
        /\ process = "handling" /\ process' \in {"ready", "joining"}
        /\ UNCHANGED <<thread, queue, timer, owner, before>>
    BY <1>4 DEF HandleMessage, HandleExit
  <2>4. QED
    BY <2>1, <2>2, <2>3 DEF WInv, WorkerTypeOK, NoLostWakeup, ThreadsAgree
<1>5. CASE Drain
  <2>1. <<>> \in Seq(AnyMessage)
    OBVIOUS
  <2>2. QED
    BY <1>5, <2>1 DEF Drain, WInv, WorkerTypeOK, NoLostWakeup, ThreadsAgree
<1>6. QED
  BY <1>1, <1>2, <1>3, <1>4, <1>5 DEF Process

LEMMA TimerPreserves ==
  ASSUME WInv, TimerThread
  PROVE  WInv'
<1>1. CASE TestTimerExit
  BY <1>1 DEF TestTimerExit, WInv, WorkerTypeOK, NoLostWakeup, ThreadsAgree
<1>2. CASE Tick
  <2>1. /\ Enqueue(TimerMessage)
        /\ timer = "sleeping" /\ timer' = "testing"
        /\ UNCHANGED <<thread, timerExit, message, owner, before>>
    BY <1>2 DEF Tick
  <2>2. /\ queue' \in Seq(AnyMessage)
        /\ process' # "waiting"
        /\ process' = process \/ (process = "waiting" /\ process' = "ready")
    BY <2>1, EnqueueFacts DEF AnyMessage
  <2>3. QED
    BY <2>1, <2>2 DEF WInv, WorkerTypeOK, NoLostWakeup, ThreadsAgree
<1>3. QED
  BY <1>1, <1>2 DEF TimerThread

-----------------------------------------------------------------------------
LEMMA InitWInv == WorkerInit => WInv
<1> SUFFICES ASSUME WorkerInit PROVE WInv
  OBVIOUS
<1>1. timerExit \in BOOLEAN
  BY Zenon DEF WorkerInit
<1>2. <<>> \in Seq(AnyMessage) /\ 0 \in Nat
  OBVIOUS
<1>3. QED
  BY <1>1, <1>2 DEF WorkerInit, WInv, WorkerTypeOK, NoLostWakeup, ThreadsAgree

LEMMA NextWInv == WInv /\ [WorkerNext]_workerVars => WInv'
<1> SUFFICES ASSUME WInv, [WorkerNext]_workerVars PROVE WInv'
  OBVIOUS
<1>1. CASE WorkerNext
  BY <1>1, CallersPreserve, OwnerPreserves, ProcessPreserves, TimerPreserves
  DEF WorkerNext
<1>2. CASE UNCHANGED workerVars
  BY <1>2 DEF workerVars, WInv, WorkerTypeOK, NoLostWakeup, ThreadsAgree
<1>3. QED
  BY <1>1, <1>2

(* The standing of the three threads to each other is inductive.            *)
THEOREM WorkerInvariant == WorkerSpec => []WInv
<1>1. QED
  BY InitWInv, NextWInv, PTL DEF WorkerSpec

(* Type correctness, for any messages and any bound.                       *)
THEOREM WorkerTypeCorrect == WorkerSpec => []WorkerTypeOK
<1>1. WInv => WorkerTypeOK
  BY DEF WInv
<1>2. QED
  BY <1>1, WorkerInvariant, PTL

(* The worker never sleeps while there is something in its queue.           *)
THEOREM WakeupsKept == WorkerSpec => []NoLostWakeup
<1>1. WInv => NoLostWakeup
  BY DEF WInv
<1>2. QED
  BY <1>1, WorkerInvariant, PTL

(* No timer is left to push into the queue of a destroyed object.           *)
THEOREM TimerEnds == WorkerSpec => []TimerEndsFirst
<1>1. WInv => TimerEndsFirst
  BY DEF WInv, WorkerTypeOK, ThreadsAgree, TimerEndsFirst
<1>2. QED
  BY <1>1, WorkerInvariant, PTL

-----------------------------------------------------------------------------
(* Induction by the smallest counterexample.                                *)
LEMMA SmallestMember ==
  ASSUME NEW T, T \subseteq Nat, T # {}
  PROVE  \E x \in T : \A y \in T : x <= y
<1>1. PICK x \in T : \A y \in T : ~(<<y, x>> \in OpToRel(<, Nat))
  BY WFMin, NatLessThanWellFounded
<1>2. ASSUME NEW y \in T PROVE x <= y
  <2>1. ~(<<y, x>> \in OpToRel(<, Nat))
    BY <1>1
  <2>2. ~(y < x)
    BY <2>1 DEF OpToRel
  <2>3. QED
    BY <2>2
<1>3. QED
  BY <1>2

(* What Kept computes, prefix by prefix.                                    *)
KeptUpTo(s, positions, k, f) ==
  /\ DOMAIN f = 0 .. k
  /\ f[0] = <<>>
  /\ \A n \in 1 .. k : f[n] = IF n \in positions THEN Append(f[n - 1], s[n])
                                                 ELSE f[n - 1]

(* s and t keep the same in their first k members; s keeps members of S.    *)
KeepSame(s, P, t, Q, k) ==
  \A n \in 1 .. k : (n \in P <=> n \in Q) /\ (n \in P => s[n] = t[n])

Shifted(P) == {i \in Nat : i + 1 \in P}

(* Concatenation under a name: the provers expand \o wherever they see it.  *)
Cat(a, b) == a \o b

(* f is what g is, with what f holds first in front of it.                  *)
FirstApart(f, g, k) == \A n \in 1 .. k : f[n] = Cat(f[1], g[n - 1])

KeepOf(S, s, P, k) == \A n \in 1 .. k : n \in P => s[n] \in S

(* There are such prefixes, however long the sequence is.                   *)
LEMMA KeptUpToExists ==
  ASSUME NEW s, NEW positions, NEW k \in Nat
  PROVE  \E f : KeptUpTo(s, positions, k, f)
<1> DEFINE T == {n \in Nat : ~\E f : KeptUpTo(s, positions, n, f)}
<1>1. SUFFICES ASSUME T # {} PROVE FALSE
  OBVIOUS
<1>2. PICK n \in T : \A m \in T : n <= m
  <2> HIDE DEF T
  <2>1. T \subseteq Nat
    BY DEF T
  <2>2. QED
    BY <1>1, <2>1, SmallestMember
<1>3. n \in Nat /\ ~\E f : KeptUpTo(s, positions, n, f)
  OBVIOUS
<1>4. CASE n = 0
  <2>1. KeptUpTo(s, positions, 0, [i \in 0 .. 0 |-> <<>>])
    BY DEF KeptUpTo
  <2>2. QED
    BY <1>3, <1>4, <2>1
<1>5. CASE n # 0
  <2>1. n - 1 \in Nat /\ ~(n <= n - 1)
    BY <1>3, <1>5
  <2>2. n - 1 \notin T
    BY <1>2, <2>1
  <2>3. PICK f : KeptUpTo(s, positions, n - 1, f)
    BY <2>1, <2>2
  <2> DEFINE g == [i \in 0 .. n |->
                     IF i # n THEN f[i]
                     ELSE IF n \in positions THEN Append(f[n - 1], s[n]) ELSE f[n - 1]]
  <2>4. g[0] = <<>>
    BY <1>3, <1>5, <2>3 DEF KeptUpTo
  <2>5. ASSUME NEW i \in 1 .. n
        PROVE  g[i] = IF i \in positions THEN Append(g[i - 1], s[i]) ELSE g[i - 1]
    <3>1. g[i - 1] = f[i - 1]
      BY <1>3
    <3>2. CASE i = n
      BY <1>3, <3>1, <3>2
    <3>3. CASE i # n
      <4>1. i \in 1 .. n - 1 /\ g[i] = f[i]
        BY <1>3, <3>3
      <4>2. QED
        BY <2>3, <3>1, <4>1 DEF KeptUpTo
    <3>4. QED
      BY <3>2, <3>3
  <2>6. DOMAIN g = 0 .. n
    OBVIOUS
  <2> HIDE DEF g
  <2>7. KeptUpTo(s, positions, n, g)
    BY <2>4, <2>5, <2>6 DEF KeptUpTo
  <2>8. QED
    BY <1>3, <2>7
<1>6. QED
  BY <1>4, <1>5

(* Kept is the last of them.                                                *)
LEMMA KeptValue ==
  ASSUME NEW s, NEW positions, Len(s) \in Nat
  PROVE  \E f : /\ KeptUpTo(s, positions, Len(s), f)
                /\ Kept(s, positions) = f[Len(s)]
<1> DEFINE Step(f) == [n \in 0 .. Len(s) |->
                         IF n = 0 THEN <<>>
                         ELSE IF n \in positions THEN Append(f[n - 1], s[n])
                                                 ELSE f[n - 1]]
           upTo == CHOOSE f : f = Step(f)
<1>1. PICK f : KeptUpTo(s, positions, Len(s), f)
  BY KeptUpToExists
<1>2. \E g : g = Step(g)
  <2> DEFINE g == [n \in 0 .. Len(s) |-> f[n]]
  <2>1. ASSUME NEW n \in 0 .. Len(s)
        PROVE  g[n] = Step(g)[n]
    <3>1. CASE n = 0
      BY <1>1, <3>1 DEF KeptUpTo
    <3>2. CASE n # 0
      <4>1. n \in 1 .. Len(s) /\ n - 1 \in 0 .. Len(s)
        BY <3>2
      <4>2. QED
        BY <1>1, <3>2, <4>1 DEF KeptUpTo
    <3>3. QED
      BY <3>1, <3>2
  <2>2. g = Step(g)
    BY <2>1
  <2>3. QED
    BY <2>2
<1>3. upTo = Step(upTo)
  <2> HIDE DEF Step
  <2>1. QED
    BY <1>2
<1>4. Kept(s, positions) = upTo[Len(s)]
  BY DEF Kept
<1> HIDE DEF upTo
<1>5. KeptUpTo(s, positions, Len(s), upTo)
  <2>1. ASSUME NEW n \in 0 .. Len(s)
        PROVE  upTo[n] = IF n = 0 THEN <<>>
                         ELSE IF n \in positions THEN Append(upTo[n - 1], s[n])
                                                 ELSE upTo[n - 1]
    <3>1. upTo[n] = Step(upTo)[n]
      BY <1>3
    <3>2. QED
      BY <3>1
  <2>2. DOMAIN upTo = 0 .. Len(s)
    <3>1. DOMAIN upTo = DOMAIN Step(upTo)
      BY <1>3
    <3>2. QED
      BY <3>1
  <2>3. upTo[0] = <<>>
    BY <2>1
  <2>4. ASSUME NEW n \in 1 .. Len(s)
        PROVE  upTo[n] = IF n \in positions THEN Append(upTo[n - 1], s[n])
                                            ELSE upTo[n - 1]
    <3>1. n \in 0 .. Len(s) /\ n # 0
      OBVIOUS
    <3>2. QED
      BY <2>1, <3>1
  <2>5. QED
    BY <2>2, <2>3, <2>4 DEF KeptUpTo
<1>6. QED
  BY <1>4, <1>5

(* What is appended to the second part is appended to the whole.            *)
LEMMA CatAppend ==
  ASSUME NEW S, NEW a \in Seq(S), NEW b \in Seq(S), NEW e \in S
  PROVE  Append(Cat(a, b), e) = Cat(a, Append(b, e))
<1>1. <<e>> \in Seq(S)
  OBVIOUS
<1>2. Append(b, e) = b \o <<e>>
  BY AppendIsConcat
<1>3. a \o b \in Seq(S)
  BY ConcatProperties
<1>4. Append(a \o b, e) = (a \o b) \o <<e>>
  BY <1>3, AppendIsConcat
<1>5. (a \o b) \o <<e>> = a \o (b \o <<e>>)
  BY <1>1, ConcatAssociative
<1>6. QED
  BY <1>2, <1>4, <1>5 DEF Cat

(* Prefixes that are the same keep the same.                                *)
LEMMA KeptUpToAgree ==
  ASSUME NEW s, NEW t, NEW P, NEW Q, NEW k \in Nat, NEW l \in Nat, k <= l,
         NEW f, NEW g, KeptUpTo(s, P, k, f), KeptUpTo(t, Q, l, g),
         KeepSame(s, P, t, Q, k)
  PROVE  \A n \in 0 .. k : f[n] = g[n]
<1> DEFINE T == {n \in 0 .. k : f[n] # g[n]}
<1>1. SUFFICES ASSUME T # {} PROVE FALSE
  OBVIOUS
<1>2. PICK n \in T : \A m \in T : n <= m
  <2>1. T \subseteq Nat
    OBVIOUS
  <2> HIDE DEF T
  <2>2. QED
    BY <1>1, <2>1, SmallestMember
<1>3. n # 0
  BY DEF KeptUpTo
<1>4. n \in 1 .. k /\ n \in 1 .. l /\ n - 1 \in 0 .. k /\ ~(n <= n - 1)
  BY <1>3
<1>5. f[n - 1] = g[n - 1]
  BY <1>2, <1>4
<1>6. f[n] = g[n]
  BY <1>4, <1>5 DEF KeptUpTo, KeepSame
<1>7. QED
  BY <1>6

(* What is kept of a sequence of S is a sequence of what is kept of S.      *)
LEMMA KeptUpToTyped ==
  ASSUME NEW S, NEW s, NEW P, NEW k \in Nat, NEW f, KeptUpTo(s, P, k, f),
         KeepOf(S, s, P, k)
  PROVE  \A n \in 0 .. k : f[n] \in Seq(S)
<1> DEFINE T == {n \in 0 .. k : f[n] \notin Seq(S)}
<1>1. SUFFICES ASSUME T # {} PROVE FALSE
  OBVIOUS
<1>2. PICK n \in T : \A m \in T : n <= m
  <2>1. T \subseteq Nat
    OBVIOUS
  <2> HIDE DEF T
  <2>2. QED
    BY <1>1, <2>1, SmallestMember
<1>3. n # 0
  <2>1. f[0] \in Seq(S)
    BY EmptySeq DEF KeptUpTo
  <2>2. QED
    BY <2>1
<1>4. n \in 1 .. k /\ n - 1 \in 0 .. k /\ ~(n <= n - 1)
  BY <1>3
<1>5. f[n - 1] \in Seq(S)
  BY <1>2, <1>4
<1>6. f[n] \in Seq(S)
  <2>1. f[n] = IF n \in P THEN Append(f[n - 1], s[n]) ELSE f[n - 1]
    BY <1>4 DEF KeptUpTo
  <2>2. n \in P => Append(f[n - 1], s[n]) \in Seq(S)
    BY <1>4, <1>5, AppendProperties DEF KeepOf
  <2>3. QED
    BY <1>5, <2>1, <2>2
<1>7. QED
  BY <1>6

(* The first member can be taken off.                                       *)
LEMMA KeptUpToShifted ==
  ASSUME NEW S, NEW s \in Seq(S), s # <<>>, NEW P, NEW f, NEW g,
         KeptUpTo(s, P, Len(s), f),
         KeptUpTo(Tail(s), Shifted(P), Len(s) - 1, g)
  PROVE  FirstApart(f, g, Len(s))
<1> DEFINE T == {n \in 1 .. Len(s) : f[n] # Cat(f[1], g[n - 1])}
<1>1. SUFFICES ASSUME T # {} PROVE FALSE
  BY DEF FirstApart
<1>2. PICK n \in T : \A m \in T : n <= m
  <2>1. T \subseteq Nat
    <3>1. T \subseteq 1 .. Len(s)
      OBVIOUS
    <3>2. 1 .. Len(s) \subseteq Nat
      BY LenProperties
    <3>3. QED
      BY <3>1, <3>2, Zenon
  <2> HIDE DEF T
  <2>2. QED
    BY <1>1, <2>1, SmallestMember
<1>3. /\ Len(s) \in Nat /\ Len(s) >= 1 /\ Len(Tail(s)) = Len(s) - 1
      /\ \A i \in 1 .. Len(s) : s[i] \in S
      /\ \A i \in 1 .. Len(s) - 1 : Tail(s)[i] = s[i + 1] /\ Tail(s)[i] \in S
  BY HeadTailProperties
<1>4. \A i \in 0 .. Len(s) : f[i] \in Seq(S)
  <2>1. KeepOf(S, s, P, Len(s))
    BY <1>3 DEF KeepOf
  <2>2. QED
    BY <1>3, <2>1, KeptUpToTyped
<1>5. \A i \in 0 .. Len(s) - 1 : g[i] \in Seq(S)
  <2>1. Len(s) - 1 \in Nat /\ KeepOf(S, Tail(s), Shifted(P), Len(s) - 1)
    BY <1>3 DEF KeepOf
  <2>2. QED
    BY <1>3, <2>1, KeptUpToTyped
<1>6. n # 1
  <2>1. Cat(f[1], <<>>) = f[1]
    BY <1>3, <1>4, ConcatEmptySeq DEF Cat
  <2>2. g[1 - 1] = <<>>
    BY DEF KeptUpTo
  <2>3. QED
    BY <2>1, <2>2
<1>7. n \in 2 .. Len(s) /\ n - 1 \in 1 .. Len(s) /\ n - 1 \in 1 .. Len(s) - 1
      /\ n - 2 \in 0 .. Len(s) - 1 /\ ~(n <= n - 1) /\ (n - 1) - 1 = n - 2
      /\ n \in 1 .. Len(s) /\ (n - 1) + 1 = n
  BY <1>3, <1>6
<1>8. f[n - 1] = Cat(f[1], g[n - 2])
  BY <1>2, <1>7
<1>9. n - 1 \in Shifted(P) <=> n \in P
  BY <1>7 DEF Shifted
<1>10. /\ f[n] = IF n \in P THEN Append(f[n - 1], s[n]) ELSE f[n - 1]
       /\ g[n - 1] = IF n - 1 \in Shifted(P) THEN Append(g[n - 2], s[n]) ELSE g[n - 2]
  BY <1>3, <1>7 DEF KeptUpTo
<1>11. f[n] = Cat(f[1], g[n - 1])
  <2>1. CASE n \in P
    <3>1. f[1] \in Seq(S) /\ g[n - 2] \in Seq(S) /\ s[n] \in S /\ <<s[n]>> \in Seq(S)
      BY <1>3, <1>4, <1>5, <1>7
    <3>2. Append(Cat(f[1], g[n - 2]), s[n]) = Cat(f[1], Append(g[n - 2], s[n]))
      <4> DEFINE a == f[1]
                 b == g[n - 2]
                 e == s[n]
      <4>1. a \in Seq(S) /\ b \in Seq(S) /\ e \in S
        BY <3>1
      <4> HIDE DEF a, b, e, T
      <4>2. Append(Cat(a, b), e) = Cat(a, Append(b, e))
        BY <4>1, CatAppend
      <4>3. QED
        BY <4>2 DEF a, b, e
    <3>3. QED
      BY <1>8, <1>9, <1>10, <2>1, <3>2
  <2>2. CASE n \notin P
    BY <1>8, <1>9, <1>10, <2>2
  <2>3. QED
    BY <2>1, <2>2
<1>12. QED
  BY <1>11

-----------------------------------------------------------------------------
(* Kept, by these prefixes.                                                 *)
LEMMA KeptSame ==
  ASSUME NEW s, NEW P, NEW Q, Len(s) \in Nat,
         \A n \in 1 .. Len(s) : n \in P <=> n \in Q
  PROVE  Kept(s, P) = Kept(s, Q)
<1>1. PICK f : KeptUpTo(s, P, Len(s), f) /\ Kept(s, P) = f[Len(s)]
  BY KeptValue
<1>2. PICK g : KeptUpTo(s, Q, Len(s), g) /\ Kept(s, Q) = g[Len(s)]
  BY KeptValue
<1>3. \A n \in 0 .. Len(s) : f[n] = g[n]
  <2>1. Len(s) <= Len(s) /\ KeepSame(s, P, s, Q, Len(s))
    BY DEF KeepSame
  <2>2. QED
    BY <1>1, <1>2, <2>1, KeptUpToAgree
<1>4. QED
  BY <1>1, <1>2, <1>3

(* What is kept of S makes a sequence of S.                                 *)
LEMMA KeptTyped ==
  ASSUME NEW S, NEW s, NEW P, Len(s) \in Nat,
         KeepOf(S, s, P, Len(s))
  PROVE  Kept(s, P) \in Seq(S)
<1>1. PICK f : KeptUpTo(s, P, Len(s), f) /\ Kept(s, P) = f[Len(s)]
  BY KeptValue
<1>2. \A n \in 0 .. Len(s) : f[n] \in Seq(S)
  BY <1>1, KeptUpToTyped
<1>3. QED
  BY <1>1, <1>2

(* Nothing is kept when no position is.                                     *)
LEMMA KeptNone ==
  ASSUME NEW s, NEW P, Len(s) \in Nat, \A n \in 1 .. Len(s) : n \notin P
  PROVE  Kept(s, P) = <<>>
<1>1. Kept(s, P) \in Seq({})
  <2>1. KeepOf({}, s, P, Len(s))
    BY DEF KeepOf
  <2>2. QED
    BY <2>1, KeptTyped
<1>2. Len(Kept(s, P)) = 0
  <2>1. Len(Kept(s, P)) \in Nat
    BY <1>1
  <2>2. \A i \in 1 .. Len(Kept(s, P)) : Kept(s, P)[i] \in {}
    BY <1>1, ElementOfSeq
  <2>3. QED
    BY <2>1, <2>2
<1>3. QED
  BY <1>1, <1>2, EmptySeq

(* An appended member is kept or not; the rest stays as it was.             *)
LEMMA KeptAppend ==
  ASSUME NEW S, NEW s \in Seq(S), NEW e \in S, NEW P
  PROVE  Kept(Append(s, e), P) = IF Len(s) + 1 \in P THEN Append(Kept(s, P), e)
                                                     ELSE Kept(s, P)
<1> DEFINE t == Append(s, e)
<1>1. /\ Len(s) \in Nat /\ Len(t) = Len(s) + 1 /\ Len(t) \in Nat
      /\ t[Len(s) + 1] = e
      /\ \A n \in 1 .. Len(s) : s[n] = t[n]
  BY AppendProperties, LenProperties
<1> HIDE DEF t
<1>2. PICK f : KeptUpTo(s, P, Len(s), f) /\ Kept(s, P) = f[Len(s)]
  BY <1>1, KeptValue
<1>3. PICK g : KeptUpTo(t, P, Len(t), g) /\ Kept(t, P) = g[Len(t)]
  BY <1>1, KeptValue
<1>4. \A n \in 0 .. Len(s) : f[n] = g[n]
  <2>1. /\ Len(s) <= Len(t) /\ Len(s) \in Nat /\ Len(t) \in Nat
        /\ KeepSame(s, P, t, P, Len(s))
    BY <1>1 DEF KeepSame
  <2>2. QED
    BY <1>2, <1>3, <2>1, KeptUpToAgree
<1>5. g[Len(s) + 1] = IF Len(s) + 1 \in P THEN Append(g[Len(s)], e) ELSE g[Len(s)]
  <2>1. Len(s) + 1 \in 1 .. Len(t) /\ Len(s) + 1 - 1 = Len(s)
    BY <1>1
  <2>2. QED
    BY <1>1, <1>3, <2>1 DEF KeptUpTo
<1>6. f[Len(s)] = g[Len(s)]
  BY <1>1, <1>4
<1>7. QED
  BY <1>1, <1>2, <1>3, <1>5, <1>6 DEF t

(* The first member is kept or not, then what the others keep.              *)
LEMMA KeptTail ==
  ASSUME NEW S, NEW s \in Seq(S), s # <<>>, NEW P
  PROVE  Kept(s, P) = Cat(IF 1 \in P THEN <<Head(s)>> ELSE <<>>,
                          Kept(Tail(s), Shifted(P)))
<1> DEFINE Q == Shifted(P)
<1>1. /\ Len(s) \in Nat /\ Len(s) >= 1 /\ Len(Tail(s)) = Len(s) - 1
      /\ Len(Tail(s)) \in Nat /\ Head(s) = s[1]
  BY HeadTailProperties
<1>2. PICK f : KeptUpTo(s, P, Len(s), f) /\ Kept(s, P) = f[Len(s)]
  BY <1>1, KeptValue
<1>3. PICK g : KeptUpTo(Tail(s), Q, Len(Tail(s)), g) /\ Kept(Tail(s), Q) = g[Len(Tail(s))]
  BY <1>1, KeptValue
<1>4. FirstApart(f, g, Len(s))
  <2>1. KeptUpTo(Tail(s), Shifted(P), Len(s) - 1, g)
    BY <1>1, <1>3
  <2>2. QED
    BY <1>2, <2>1, KeptUpToShifted
<1>5. f[1] = IF 1 \in P THEN <<Head(s)>> ELSE <<>>
  <2>1. 1 \in 1 .. Len(s)
    BY <1>1
  <2>2. f[1] = IF 1 \in P THEN Append(f[1 - 1], s[1]) ELSE f[1 - 1]
    BY <1>2, <2>1 DEF KeptUpTo
  <2>3. f[1 - 1] = <<>>
    BY <1>2 DEF KeptUpTo
  <2>4. QED
    BY <1>1, <2>2, <2>3
<1>6. f[Len(s)] = Cat(f[1], g[Len(s) - 1])
  <2>1. Len(s) \in 1 .. Len(s)
    BY <1>1
  <2>2. QED
    BY <1>4, <2>1 DEF FirstApart
<1>7. QED
  BY <1>1, <1>2, <1>3, <1>5, <1>6

-----------------------------------------------------------------------------
(* Concatenation stays in Seq(S), and the empty sequence is neutral.        *)
LEMMA CatFacts ==
  ASSUME NEW S, NEW a \in Seq(S), NEW b \in Seq(S)
  PROVE  /\ Cat(a, b) \in Seq(S)
         /\ Cat(a, <<>>) = a
         /\ Cat(<<>>, a) = a
  BY ConcatProperties, ConcatEmptySeq DEF Cat

(* To append is to concatenate a sequence of one.                           *)
LEMMA CatOne ==
  ASSUME NEW S, NEW a \in Seq(S), NEW e \in S
  PROVE  Cat(a, <<e>>) = Append(a, e)
  BY AppendIsConcat DEF Cat

(* Concatenation is associative.                                            *)
LEMMA CatAssociative ==
  ASSUME NEW S, NEW a \in Seq(S), NEW b \in Seq(S), NEW c \in Seq(S)
  PROVE  Cat(Cat(a, b), c) = Cat(a, Cat(b, c))
  BY ConcatAssociative DEF Cat

(* The first member handled and the rest left is the same order.            *)
LEMMA CatHead ==
  ASSUME NEW S, NEW a \in Seq(S), NEW b \in Seq(S), b # <<>>
  PROVE  Cat(Append(a, Head(b)), Tail(b)) = Cat(a, b)
<1>1. Head(b) \in S /\ Tail(b) \in Seq(S) /\ <<Head(b)>> \in Seq(S)
  BY HeadTailProperties
<1>2. Append(a, Head(b)) = Cat(a, <<Head(b)>>)
  BY <1>1, CatOne
<1>3. Cat(Cat(a, <<Head(b)>>), Tail(b)) = Cat(a, Cat(<<Head(b)>>, Tail(b)))
  <2> DEFINE h == <<Head(b)>>
             r == Tail(b)
  <2>1. h \in Seq(S) /\ r \in Seq(S)
    BY <1>1
  <2> HIDE DEF h, r
  <2>2. Cat(Cat(a, h), r) = Cat(a, Cat(h, r))
    BY <2>1, CatAssociative
  <2>3. QED
    BY <2>2 DEF h, r
<1>4. Cat(<<Head(b)>>, Tail(b)) = b
  BY <1>1 DEF Cat
<1>5. QED
  BY <1>2, <1>3, <1>4

-----------------------------------------------------------------------------
HasExit(s) == \E i \in DOMAIN s : s[i] = ExitMessage

(* User data are messages of callers.                                       *)
LEMMA UserDataTyped ==
  ASSUME NEW s \in Seq(AnyMessage)
  PROVE  UserData(s) \in Seq(Messages) /\ Deliverable(s) \in Seq(Messages)
<1>1. Len(s) \in Nat
  BY LenProperties
<1>2. /\ KeepOf(Messages, s, UserPositions(s), Len(s))
      /\ KeepOf(Messages, s, BeforeExit(s), Len(s))
  BY DEF KeepOf, UserPositions, BeforeExit
<1>3. QED
  BY <1>1, <1>2, KeptTyped DEF UserData, Deliverable

(* An empty queue holds no user data.                                       *)
LEMMA UserDataNone ==
  UserData(<<>>) = <<>> /\ Deliverable(<<>>) = <<>>
<1>1. Len(<<>>) = 0
  OBVIOUS
<1>2. Len(<<>>) \in Nat /\ \A P : \A n \in 1 .. Len(<<>>) : n \notin P
  BY <1>1
<1>3. QED
  BY <1>2, KeptNone DEF UserData, Deliverable

(* What a push adds to the user data, and to those before the exit message. *)
LEMMA UserDataAppend ==
  ASSUME NEW s \in Seq(AnyMessage), NEW m \in AnyMessage
  PROVE  /\ UserData(Append(s, m)) = IF m \in Messages THEN Append(UserData(s), m)
                                                       ELSE UserData(s)
         /\ Deliverable(Append(s, m)) = IF m \in Messages /\ ~HasExit(s)
                                        THEN Append(Deliverable(s), m)
                                        ELSE Deliverable(s)
         /\ HasExit(Append(s, m)) <=> HasExit(s) \/ m = ExitMessage
<1> DEFINE t == Append(s, m)
<1>1. /\ Len(s) \in Nat /\ Len(t) = Len(s) + 1
      /\ DOMAIN s = 1 .. Len(s) /\ DOMAIN t = 1 .. Len(s) + 1
      /\ t[Len(s) + 1] = m /\ t \in Seq(AnyMessage)
      /\ \A n \in 1 .. Len(s) : t[n] = s[n]
  BY AppendProperties, LenProperties
<1> HIDE DEF t
<1>2. /\ Kept(t, UserPositions(t)) = IF Len(s) + 1 \in UserPositions(t)
                                     THEN Append(Kept(s, UserPositions(t)), m)
                                     ELSE Kept(s, UserPositions(t))
      /\ Kept(t, BeforeExit(t)) = IF Len(s) + 1 \in BeforeExit(t)
                                  THEN Append(Kept(s, BeforeExit(t)), m)
                                  ELSE Kept(s, BeforeExit(t))
  BY KeptAppend DEF t
<1>3. Kept(s, UserPositions(t)) = Kept(s, UserPositions(s))
  <2>1. \A n \in 1 .. Len(s) : n \in UserPositions(t) <=> n \in UserPositions(s)
    BY <1>1 DEF UserPositions
  <2>2. QED
    BY <1>1, <2>1, KeptSame
<1>4. Kept(s, BeforeExit(t)) = Kept(s, BeforeExit(s))
  <2>1. \A n \in 1 .. Len(s) : n \in BeforeExit(t) <=> n \in BeforeExit(s)
    BY <1>1 DEF BeforeExit, UserPositions
  <2>2. QED
    BY <1>1, <2>1, KeptSame
<1>5. Len(s) + 1 \in UserPositions(t) <=> m \in Messages
  BY <1>1 DEF UserPositions
<1>6. HasExit(t) <=> HasExit(s) \/ m = ExitMessage
  BY <1>1 DEF HasExit
<1>7. Len(s) + 1 \in BeforeExit(t) <=> m \in Messages /\ ~HasExit(s)
  <2>1. \A n \in 1 .. Len(s) + 1 : n \in 1 .. Len(s) \/ n = Len(s) + 1
    BY <1>1
  <2>2. (\A j \in 1 .. Len(s) + 1 : t[j] # ExitMessage) <=> ~HasExit(t)
    BY <1>1 DEF HasExit
  <2>3. m \in Messages => m # ExitMessage
    BY MessagesAssumption
  <2>4. QED
    BY <1>5, <1>6, <2>2, <2>3 DEF BeforeExit
<1>8. QED
  BY <1>2, <1>3, <1>4, <1>5, <1>6, <1>7 DEF t, UserData, Deliverable

(* The user data of one message.                                            *)
LEMMA UserDataOne ==
  ASSUME NEW m \in AnyMessage
  PROVE  UserData(<<m>>) = IF m \in Messages THEN <<m>> ELSE <<>>
<1>1. <<>> \in Seq(AnyMessage) /\ <<m>> = Append(<<>>, m)
  OBVIOUS
<1>2. UserData(Append(<<>>, m)) = IF m \in Messages THEN Append(UserData(<<>>), m)
                                                    ELSE UserData(<<>>)
  BY <1>1, UserDataAppend
<1>3. QED
  BY <1>1, <1>2, UserDataNone

(* What a pop takes away from them.                                         *)
LEMMA UserDataTail ==
  ASSUME NEW s \in Seq(AnyMessage), s # <<>>
  PROVE  /\ UserData(s) = Cat(UserData(<<Head(s)>>), UserData(Tail(s)))
         /\ Deliverable(s) = IF Head(s) = ExitMessage THEN <<>>
                             ELSE Cat(UserData(<<Head(s)>>), Deliverable(Tail(s)))
         /\ HasExit(s) <=> Head(s) = ExitMessage \/ HasExit(Tail(s))
<1> DEFINE t == Tail(s)
<1>1. /\ Len(s) \in Nat /\ Len(s) >= 1 /\ Head(s) \in AnyMessage /\ Head(s) = s[1]
      /\ t \in Seq(AnyMessage) /\ Len(t) = Len(s) - 1 /\ Len(t) \in Nat
      /\ DOMAIN s = 1 .. Len(s) /\ DOMAIN t = 1 .. Len(t)
      /\ \A i \in 1 .. Len(t) : t[i] = s[i + 1]
  BY HeadTailProperties, LenProperties
<1>2. /\ Kept(s, UserPositions(s)) =
           Cat(IF 1 \in UserPositions(s) THEN <<Head(s)>> ELSE <<>>,
               Kept(t, Shifted(UserPositions(s))))
      /\ Kept(s, BeforeExit(s)) =
           Cat(IF 1 \in BeforeExit(s) THEN <<Head(s)>> ELSE <<>>,
               Kept(t, Shifted(BeforeExit(s))))
  BY KeptTail
<1> HIDE DEF t
<1>3. Kept(t, Shifted(UserPositions(s))) = UserData(t)
  <2>1. \A n \in 1 .. Len(t) : n \in Shifted(UserPositions(s)) <=> n \in UserPositions(t)
    BY <1>1 DEF Shifted, UserPositions
  <2>2. QED
    BY <1>1, <2>1, KeptSame DEF UserData
<1>4. UserData(<<Head(s)>>) = IF 1 \in UserPositions(s) THEN <<Head(s)>> ELSE <<>>
  BY <1>1, UserDataOne DEF UserPositions
<1>5. HasExit(s) <=> Head(s) = ExitMessage \/ HasExit(t)
  <2>1. ASSUME HasExit(s) PROVE Head(s) = ExitMessage \/ HasExit(t)
    <3>1. PICK i \in 1 .. Len(s) : s[i] = ExitMessage
      BY <1>1, <2>1 DEF HasExit
    <3>2. CASE i # 1
      <4>1. i - 1 \in 1 .. Len(t) /\ t[i - 1] = ExitMessage
        BY <1>1, <3>1, <3>2
      <4>2. QED
        BY <1>1, <4>1 DEF HasExit
    <3>3. QED
      BY <1>1, <3>1, <3>2
  <2>2. ASSUME HasExit(t) PROVE HasExit(s)
    <3>1. PICK i \in 1 .. Len(t) : t[i] = ExitMessage
      BY <1>1, <2>2 DEF HasExit
    <3>2. i + 1 \in 1 .. Len(s) /\ s[i + 1] = ExitMessage
      BY <1>1, <3>1
    <3>3. QED
      BY <1>1, <3>2 DEF HasExit
  <2>3. ASSUME Head(s) = ExitMessage PROVE HasExit(s)
    <3>1. 1 \in 1 .. Len(s)
      BY <1>1
    <3>2. QED
      BY <1>1, <2>3, <3>1 DEF HasExit
  <2>4. QED
    BY <2>1, <2>2, <2>3
<1>6. CASE Head(s) = ExitMessage
  <2>1. \A n \in 1 .. Len(s) : n \notin BeforeExit(s)
    BY <1>1, <1>6 DEF BeforeExit
  <2>2. Deliverable(s) = <<>>
    BY <1>1, <2>1, KeptNone DEF Deliverable
  <2>3. QED
    BY <1>2, <1>3, <1>4, <1>5, <1>6, <2>2 DEF t, UserData
<1>7. CASE Head(s) # ExitMessage
  <2>1. ASSUME NEW n \in 1 .. Len(t)
        PROVE  n \in Shifted(BeforeExit(s)) <=> n \in BeforeExit(t)
    <3>1. n + 1 \in UserPositions(s) <=> n \in UserPositions(t)
      BY <1>1 DEF UserPositions
    <3>2. (\A j \in 1 .. n + 1 : s[j] # ExitMessage)
            <=> (\A j \in 1 .. n : t[j] # ExitMessage)
      <4>1. \A j \in 1 .. n + 1 : j = 1 \/ (j - 1 \in 1 .. n /\ s[j] = t[j - 1])
        BY <1>1
      <4>2. \A j \in 1 .. n : j + 1 \in 1 .. n + 1 /\ s[j + 1] = t[j]
        BY <1>1
      <4>3. QED
        BY <1>1, <1>7, <4>1, <4>2
    <3>3. QED
      BY <3>1, <3>2 DEF Shifted, BeforeExit
  <2>2. Kept(t, Shifted(BeforeExit(s))) = Deliverable(t)
    BY <1>1, <2>1, KeptSame DEF Deliverable
  <2>3. 1 \in BeforeExit(s) <=> 1 \in UserPositions(s)
    BY <1>1, <1>7 DEF BeforeExit
  <2>4. Deliverable(s) = Cat(UserData(<<Head(s)>>), Deliverable(t))
    BY <1>2, <1>4, <2>2, <2>3 DEF Deliverable
  <2>5. QED
    BY <1>2, <1>3, <1>4, <1>5, <1>7, <2>4 DEF t, UserData
<1>8. QED
  BY <1>6, <1>7

(* Without an exit message in the queue, all of its user data will be       *)
(* handled.                                                                 *)
LEMMA AllDeliverable ==
  ASSUME NEW s \in Seq(AnyMessage), ~HasExit(s)
  PROVE  Deliverable(s) = UserData(s)
<1>1. Len(s) \in Nat /\ DOMAIN s = 1 .. Len(s)
  BY LenProperties
<1>2. \A n \in 1 .. Len(s) : n \in BeforeExit(s) <=> n \in UserPositions(s)
  BY <1>1 DEF HasExit, BeforeExit
<1>3. QED
  BY <1>1, <1>2, KeptSame DEF Deliverable, UserData

-----------------------------------------------------------------------------
(* The order of the messages.                                               *)

ExitPosted == owner \in {"exiting", "destroying"} \/ thread = "joined"

Exiting == process \in {"joining", "done"}

(* The worker holds one message while it handles it; before the thread      *)
(* nothing is posted; the exit message is the one of the owner that waits.  *)
ExitAgrees ==
  /\ IF process = "handling" THEN message = <<Head(message)>> ELSE message = <<>>
  /\ thread = "null" => queue = <<>> /\ accepted = <<>> /\ handled = <<>>
  /\ owner = "terminated" => thread = "joined"
  /\ thread = "joinable" /\ ~ExitPosted =>
       ~HasExit(queue) /\ message # <<ExitMessage>> /\ ~Exiting
  /\ thread = "joinable" /\ ExitPosted /\ ~Exiting =>
       HasExit(queue) \/ message = <<ExitMessage>>

(* Of what was accepted, all is in its place until the worker exits; once   *)
(* the exit message is posted, what was posted before it is.                *)
OrderKept ==
  /\ accepted \in Seq(Messages) /\ handled \in Seq(Messages)
  /\ ~Exiting =>
       accepted = Cat(Cat(handled, UserData(message)), UserData(queue))
  /\ ExitPosted =>
       /\ before \in 0 .. Len(accepted)
       /\ Cat(handled, Undelivered) = SubSeq(accepted, 1, before)

OInv == WInv /\ ExitAgrees /\ OrderKept

-----------------------------------------------------------------------------
(* What a step does to the messages that will be handled.                   *)
LEMMA UndeliveredTyped ==
  ASSUME OInv
  PROVE  /\ Undelivered \in Seq(Messages)
         /\ UserData(message) \in Seq(Messages) /\ UserData(queue) \in Seq(Messages)
         /\ Deliverable(queue) \in Seq(Messages)
         /\ Undelivered = IF Exiting \/ message = <<ExitMessage>> THEN <<>>
                          ELSE Cat(UserData(message), Deliverable(queue))
<1>1. message \in Seq(AnyMessage) /\ queue \in Seq(AnyMessage)
  BY DEF OInv, WInv, WorkerTypeOK
<1>2. /\ UserData(message) \in Seq(Messages) /\ UserData(queue) \in Seq(Messages)
      /\ Deliverable(queue) \in Seq(Messages)
  BY <1>1, UserDataTyped
<1>3. Cat(UserData(message), Deliverable(queue)) \in Seq(Messages)
  BY <1>2, CatFacts
<1>4. Undelivered = IF Exiting \/ message = <<ExitMessage>> THEN <<>>
                    ELSE Cat(UserData(message), Deliverable(queue))
  BY DEF Undelivered, Exiting, Cat
<1>5. QED
  BY <1>2, <1>3, <1>4

(* A message pushed after the exit message, or that is no user data, is not *)
(* one that will be handled.                                                *)
LEMMA EnqueueDelivers ==
  ASSUME OInv, NEW m \in AnyMessage, Enqueue(m), message' = message,
         thread # "null"
  PROVE  /\ UserData(queue') = IF m \in Messages THEN Append(UserData(queue), m)
                                                 ELSE UserData(queue)
         /\ HasExit(queue') <=> HasExit(queue) \/ m = ExitMessage
         /\ Exiting' = Exiting
         /\ Undelivered' = IF m \in Messages /\ thread = "joinable" /\ ~ExitPosted
                           THEN Append(Undelivered, m) ELSE Undelivered
<1>1. queue \in Seq(AnyMessage) /\ queue' = Append(queue, m)
  BY DEF OInv, WInv, WorkerTypeOK, Enqueue
<1>2. /\ UserData(queue') = IF m \in Messages THEN Append(UserData(queue), m)
                                              ELSE UserData(queue)
      /\ Deliverable(queue') = IF m \in Messages /\ ~HasExit(queue)
                               THEN Append(Deliverable(queue), m)
                               ELSE Deliverable(queue)
      /\ HasExit(queue') <=> HasExit(queue) \/ m = ExitMessage
  BY <1>1, UserDataAppend
<1>3. Exiting' = Exiting
  BY DEF Enqueue, Notified, Exiting
<1>4. Undelivered' = IF Exiting \/ message = <<ExitMessage>> THEN <<>>
                     ELSE Cat(UserData(message), Deliverable(queue'))
  BY <1>3 DEF Undelivered, Exiting, Cat
<1>5. CASE Exiting \/ message = <<ExitMessage>>
  <2>1. ~(thread = "joinable" /\ ~ExitPosted)
    BY <1>5 DEF OInv, ExitAgrees
  <2>2. QED
    BY <1>2, <1>3, <1>4, <1>5, <2>1, UndeliveredTyped
<1>6. CASE ~Exiting /\ message # <<ExitMessage>>
  <2>1. thread = "joinable"
    BY <1>6 DEF OInv, WInv, WorkerTypeOK, Exiting
  <2>2. HasExit(queue) <=> ExitPosted
    BY <1>6, <2>1 DEF OInv, ExitAgrees
  <2>3. m \in Messages => Append(Cat(UserData(message), Deliverable(queue)), m)
                            = Cat(UserData(message), Append(Deliverable(queue), m))
    <3> DEFINE u == UserData(message)
               d == Deliverable(queue)
    <3>1. u \in Seq(Messages) /\ d \in Seq(Messages)
      BY UndeliveredTyped
    <3> HIDE DEF u, d
    <3>2. m \in Messages => Append(Cat(u, d), m) = Cat(u, Append(d, m))
      BY <3>1, CatAppend
    <3>3. QED
      BY <3>2 DEF u, d
  <2>4. QED
    BY <1>2, <1>3, <1>4, <1>6, <2>1, <2>2, <2>3, UndeliveredTyped
<1>7. QED
  BY <1>5, <1>6

(* Taking a message out of the queue moves it, and handling user data takes *)
(* the first of them.                                                       *)
LEMMA TakeDelivers ==
  ASSUME OInv, Take
  PROVE  /\ Undelivered' = Undelivered
         /\ Cat(UserData(message'), UserData(queue'))
              = Cat(UserData(message), UserData(queue))
<1>1. /\ queue \in Seq(AnyMessage) /\ queue # <<>>
      /\ message = <<>> /\ message' = <<Head(queue)>> /\ queue' = Tail(queue)
      /\ process = "ready" /\ process' = "handling"
  BY DEF OInv, WInv, WorkerTypeOK, ExitAgrees, Take
<1>2. /\ UserData(queue) = Cat(UserData(<<Head(queue)>>), UserData(Tail(queue)))
      /\ Deliverable(queue) = IF Head(queue) = ExitMessage THEN <<>>
           ELSE Cat(UserData(<<Head(queue)>>), Deliverable(Tail(queue)))
  BY <1>1, UserDataTail
<1>3. UserData(message) = <<>>
  BY <1>1, UserDataNone
<1>4. /\ Cat(UserData(message), UserData(queue)) = UserData(queue)
      /\ Cat(UserData(message), Deliverable(queue)) = Deliverable(queue)
  BY <1>3, UndeliveredTyped, CatFacts
<1>5. <<Head(queue)>> = <<ExitMessage>> <=> Head(queue) = ExitMessage
  OBVIOUS
<1>6. Undelivered' = IF <<Head(queue)>> = <<ExitMessage>> THEN <<>>
                     ELSE Cat(UserData(<<Head(queue)>>), Deliverable(Tail(queue)))
  BY <1>1 DEF Undelivered, Cat
<1>7. Undelivered = Deliverable(queue)
  BY <1>1, <1>4, UndeliveredTyped DEF Exiting
<1>8. QED
  BY <1>1, <1>2, <1>4, <1>5, <1>6, <1>7

LEMMA HandleDelivers ==
  ASSUME OInv, HandleMessage
  PROVE  /\ Cat(Cat(handled', UserData(message')), UserData(queue'))
              = Cat(Cat(handled, UserData(message)), UserData(queue))
         /\ \/ handled' = handled /\ Undelivered' = Undelivered
            \/ /\ Undelivered # <<>>
               /\ handled' = Append(handled, Head(Undelivered))
               /\ Undelivered' = Tail(Undelivered)
<1> DEFINE m == Head(message)
<1>1. /\ message = <<m>> /\ m # ExitMessage /\ m \in AnyMessage
      /\ message' = <<>> /\ queue' = queue
      /\ process = "handling" /\ process' = "ready"
      /\ handled' = IF m = TimerMessage THEN handled ELSE Append(handled, m)
      /\ handled \in Seq(Messages)
  BY DEF OInv, WInv, WorkerTypeOK, ExitAgrees, OrderKept, HandleMessage
<1>2. message # <<ExitMessage>>
  BY <1>1
<1> HIDE DEF m
<1>3. UserData(message) = IF m \in Messages THEN <<m>> ELSE <<>>
  BY <1>1, UserDataOne
<1>4. UserData(message') = <<>>
  BY <1>1, UserDataNone
<1>5. /\ Undelivered = Cat(UserData(message), Deliverable(queue))
      /\ UserData(queue) \in Seq(Messages) /\ Deliverable(queue) \in Seq(Messages)
  BY <1>1, <1>2, UndeliveredTyped DEF Exiting
<1>6. Undelivered' = Deliverable(queue)
  <2>1. Undelivered' = Cat(UserData(message'), Deliverable(queue))
    BY <1>1 DEF Undelivered, Cat
  <2>2. QED
    BY <1>4, <1>5, <2>1, CatFacts
<1>7. CASE m = TimerMessage
  <2>1. m \notin Messages
    BY <1>7, MessagesAssumption
  <2>2. handled' = handled /\ UserData(message) = <<>>
    BY <1>1, <1>3, <1>7, <2>1
  <2>3. Cat(<<>>, Deliverable(queue)) = Deliverable(queue)
    BY <1>5, CatFacts
  <2>4. QED
    BY <1>1, <1>4, <1>5, <1>6, <2>2, <2>3
<1>8. CASE m # TimerMessage
  <2>1. m \in Messages
    BY <1>1, <1>8 DEF AnyMessage
  <2>2. handled' = Append(handled, m) /\ UserData(message) = <<m>>
    BY <1>1, <1>3, <1>8, <2>1
  <2>3. Cat(handled', UserData(message')) = Cat(handled, UserData(message))
    <3>1. Append(handled, m) \in Seq(Messages)
      BY <1>1, <2>1
    <3>2. Cat(Append(handled, m), <<>>) = Append(handled, m)
      BY <3>1, CatFacts
    <3>3. Cat(handled, <<m>>) = Append(handled, m)
      BY <1>1, <2>1, CatOne
    <3>4. QED
      BY <1>4, <2>2, <3>2, <3>3
  <2>4. /\ Cat(<<m>>, Deliverable(queue)) # <<>>
        /\ Head(Cat(<<m>>, Deliverable(queue))) = m
        /\ Tail(Cat(<<m>>, Deliverable(queue))) = Deliverable(queue)
    BY <1>5, <2>1 DEF Cat
  <2>5. QED
    BY <1>1, <1>5, <1>6, <2>2, <2>3, <2>4
<1>9. QED
  BY <1>7, <1>8

-----------------------------------------------------------------------------
(* The messages stay in order.                                              *)

(* A step that posts nothing the worker is to handle, and handles nothing.  *)
LEMMA OrderUnchanged ==
  ASSUME OInv, UNCHANGED <<accepted, handled, before>>,
         ExitPosted' => ExitPosted, Undelivered' = Undelivered,
         ~Exiting' => ~Exiting,
         ~Exiting' => Cat(Cat(handled, UserData(message')), UserData(queue'))
                        = Cat(Cat(handled, UserData(message)), UserData(queue))
  PROVE  OrderKept'
  BY DEF OInv, OrderKept

LEMMA PostKeepsOrder ==
  ASSUME OInv, NEW m \in Messages, PostMessage(m)
  PROVE  ExitAgrees' /\ OrderKept'
<1>1. UNCHANGED <<thread, message, owner, handled, before>>
  BY DEF PostMessage
<1>2. CASE thread = "null"
  <2>1. UNCHANGED <<queue, process, accepted>>
    BY <1>2 DEF PostMessage
  <2>2. QED
    BY <1>1, <2>1 DEF OInv, ExitAgrees, OrderKept, ExitPosted, Exiting, Undelivered
<1>3. CASE thread # "null"
  <2>1. Enqueue(m) /\ accepted' = Append(accepted, m) /\ m \in AnyMessage
    BY <1>3 DEF PostMessage, AnyMessage
  <2>2. /\ UserData(queue') = Append(UserData(queue), m)
        /\ HasExit(queue') <=> HasExit(queue) \/ m = ExitMessage
        /\ Exiting' = Exiting
        /\ Undelivered' = IF thread = "joinable" /\ ~ExitPosted
                          THEN Append(Undelivered, m) ELSE Undelivered
    BY <1>1, <1>3, <2>1, EnqueueDelivers
  <2>3. m # ExitMessage
    BY MessagesAssumption
  <2>4. ExitPosted' = ExitPosted
    BY <1>1 DEF ExitPosted
  <2>5. process' = process \/ (process = "waiting" /\ process' = "ready")
    BY <2>1 DEF Enqueue, Notified
  <2>6. ExitAgrees'
    BY <1>1, <1>3, <2>2, <2>3, <2>4, <2>5 DEF OInv, ExitAgrees
  <2>7. accepted' \in Seq(Messages)
    BY <2>1 DEF OInv, OrderKept
  <2>8. ~Exiting' =>
          accepted' = Cat(Cat(handled', UserData(message')), UserData(queue'))
    <3>1. SUFFICES ASSUME ~Exiting
                   PROVE  accepted' = Cat(Cat(handled, UserData(message)),
                                          Append(UserData(queue), m))
      BY <1>1, <2>2
    <3> DEFINE h == Cat(handled, UserData(message))
               u == UserData(queue)
    <3>2. h \in Seq(Messages) /\ u \in Seq(Messages)
      BY UndeliveredTyped, CatFacts DEF OInv, OrderKept
    <3>3. accepted' = Append(Cat(h, u), m)
      BY <2>1, <3>1 DEF OInv, OrderKept
    <3> HIDE DEF h, u
    <3>4. Append(Cat(h, u), m) = Cat(h, Append(u, m))
      BY <3>2, CatAppend
    <3>5. QED
      BY <3>3, <3>4 DEF h, u
  <2>9. ExitPosted' => /\ before' \in 0 .. Len(accepted')
                       /\ Cat(handled', Undelivered') = SubSeq(accepted', 1, before')
    <3>1. SUFFICES ASSUME ExitPosted
                   PROVE  /\ before \in 0 .. Len(accepted')
                          /\ Cat(handled, Undelivered) = SubSeq(accepted', 1, before)
      BY <1>1, <2>2, <2>4
    <3>2. /\ before \in 0 .. Len(accepted) /\ accepted \in Seq(Messages)
          /\ Cat(handled, Undelivered) = SubSeq(accepted, 1, before)
      BY <3>1 DEF OInv, OrderKept
    <3>3. /\ before \in 0 .. Len(accepted')
          /\ SubSeq(accepted', 1, before) = SubSeq(accepted, 1, before)
      BY <2>1, <3>2
    <3>4. QED
      BY <3>2, <3>3
  <2>10. QED
    BY <1>1, <2>6, <2>7, <2>8, <2>9 DEF OInv, OrderKept
<1>4. QED
  BY <1>2, <1>3

LEMMA CreateKeepsOrder ==
  ASSUME OInv, CreateThread
  PROVE  ExitAgrees' /\ OrderKept' /\ Undelivered' = <<>>
<1>1. /\ thread = "null" /\ thread' = "joinable" /\ owner = "free"
      /\ process = "none" /\ process' = "starting"
      /\ UNCHANGED <<queue, message, owner, accepted, handled, before>>
      /\ queue = <<>> /\ message = <<>>
  BY DEF CreateThread, OInv, WInv, ThreadsAgree, ExitAgrees
<1>2. ExitPosted' = FALSE /\ Exiting' = FALSE /\ Exiting = FALSE
  BY <1>1 DEF ExitPosted, Exiting
<1>3. ~HasExit(queue)
  BY <1>1 DEF HasExit
<1>4. ExitAgrees'
  BY <1>1, <1>2, <1>3 DEF ExitAgrees
<1>5. OrderKept'
  BY <1>1, <1>2 DEF OInv, OrderKept
<1>6. Undelivered' = <<>>
  <2>1. Undelivered' = Cat(UserData(<<>>), Deliverable(<<>>))
    BY <1>1 DEF Undelivered, Cat
  <2>2. Cat(<<>>, <<>>) = <<>>
    BY EmptySeq, CatFacts
  <2>3. QED
    BY <2>1, <2>2, UserDataNone
<1>7. QED
  BY <1>4, <1>5, <1>6

LEMMA ExitKeepsOrder ==
  ASSUME OInv, NEW call \in {"exiting", "destroying"}, ExitThread(call)
  PROVE  ExitAgrees' /\ OrderKept' /\ Undelivered' = Undelivered
<1>1. owner = "free" /\ UNCHANGED <<thread, message, accepted, handled>>
      /\ thread \in {"null", "joinable", "joined"}
  BY DEF ExitThread, OInv, WInv, WorkerTypeOK
<1>2. CASE thread = "null"
  <2>1. /\ UNCHANGED <<queue, process, before>>
        /\ owner' \in {"destroyed", "free"}
    BY <1>2 DEF ExitThread
  <2>2. ExitAgrees'
    BY <1>1, <1>2, <2>1 DEF OInv, ExitAgrees, ExitPosted, Exiting
  <2>3. Undelivered' = Undelivered /\ Exiting' = Exiting
    BY <1>1, <2>1 DEF Undelivered, Exiting
  <2>4. OrderKept'
    BY <1>1, <1>2, <2>1, <2>3 DEF OInv, OrderKept, ExitPosted
  <2>5. QED
    BY <2>2, <2>3, <2>4
<1>3. CASE thread # "null"
  <2>1. Enqueue(ExitMessage) /\ ExitMessage \in AnyMessage /\ ExitMessage \notin Messages
    BY <1>1, <1>3, MessagesAssumption DEF ExitThread, AnyMessage
  <2>2. /\ UserData(queue') = UserData(queue)
        /\ HasExit(queue')
        /\ Exiting' = Exiting
        /\ Undelivered' = Undelivered
    BY <1>1, <1>3, <2>1, EnqueueDelivers
  <2>3. process' = process \/ (process = "waiting" /\ process' = "ready")
    BY <2>1 DEF Enqueue, Notified
  <2>4. /\ thread = "joinable" => owner' = call /\ before' = Len(accepted)
        /\ thread = "joined" => owner' \in {"terminated", "free"} /\ before' = before
    BY DEF ExitThread
  <2>5. ExitAgrees'
    BY <1>1, <1>3, <2>2, <2>3, <2>4 DEF OInv, ExitAgrees, ExitPosted
  <2>6. CASE thread = "joined"
    <3>1. ExitPosted /\ before' = before
      BY <2>4, <2>6 DEF ExitPosted
    <3>2. QED
      BY <1>1, <2>2, <2>5, <3>1 DEF OInv, OrderKept
  <2>7. CASE thread = "joinable"
    <3>1. ~ExitPosted /\ before' = Len(accepted)
      BY <1>1, <2>4, <2>7 DEF ExitPosted
    <3>2. ~HasExit(queue) /\ message # <<ExitMessage>> /\ ~Exiting
      BY <2>7, <3>1 DEF OInv, ExitAgrees
    <3>3. accepted = Cat(Cat(handled, UserData(message)), UserData(queue))
          /\ accepted \in Seq(Messages) /\ handled \in Seq(Messages)
      BY <3>2 DEF OInv, OrderKept
    <3>4. queue \in Seq(AnyMessage)
      BY DEF OInv, WInv, WorkerTypeOK
    <3>5. Undelivered = Cat(UserData(message), UserData(queue))
      BY <3>2, <3>4, UndeliveredTyped, AllDeliverable
    <3>6. Cat(handled, Undelivered) = accepted
      <4> DEFINE u == UserData(message)
                 d == UserData(queue)
      <4>1. u \in Seq(Messages) /\ d \in Seq(Messages)
        BY UndeliveredTyped
      <4> HIDE DEF u, d
      <4>2. Cat(Cat(handled, u), d) = Cat(handled, Cat(u, d))
        BY <3>3, <4>1, CatAssociative
      <4>3. QED
        BY <3>3, <3>5, <4>2 DEF u, d
    <3>7. SubSeq(accepted, 1, Len(accepted)) = accepted /\ Len(accepted) \in Nat
      BY <3>3, SubSeqFull, LenProperties
    <3>8. Len(accepted) \in 0 .. Len(accepted)
      BY <3>7
    <3>9. OrderKept'
      BY <1>1, <2>2, <3>1, <3>3, <3>6, <3>7, <3>8 DEF OrderKept
    <3>10. QED
      BY <2>2, <2>5, <3>9
  <2>8. QED
    BY <1>1, <1>3, <2>6, <2>7
<1>4. QED
  BY <1>2, <1>3

LEMMA JoinKeepsOrder ==
  ASSUME OInv, ThreadJoined
  PROVE  ExitAgrees' /\ OrderKept' /\ Undelivered' = Undelivered
<1>1. /\ owner \in {"exiting", "destroying"} /\ process = "done"
      /\ thread' = "joined"
      /\ UNCHANGED <<queue, process, message, accepted, handled, before>>
  BY DEF ThreadJoined
<1>2. ExitPosted /\ ExitPosted' /\ Exiting /\ Exiting'
  BY <1>1 DEF ExitPosted, Exiting
<1>3. Undelivered' = Undelivered
  BY <1>1 DEF Undelivered
<1>4. ExitAgrees'
  BY <1>1, <1>2 DEF OInv, ExitAgrees
<1>5. OrderKept'
  BY <1>1, <1>2, <1>3 DEF OInv, OrderKept
<1>6. QED
  BY <1>3, <1>4, <1>5

(* The steps of the threads between two messages.                           *)
LEMMA IdleKeepsOrder ==
  ASSUME OInv, StartTimer \/ Wait \/ SpuriousWakeup \/ TestTimerExit
  PROVE  ExitAgrees' /\ OrderKept' /\ Undelivered' = Undelivered
<1>1. /\ UNCHANGED <<thread, queue, message, owner, accepted, handled, before>>
      /\ process' = process \/ (process # "handling" /\ process' # "handling")
      /\ Exiting' = Exiting
  BY DEF StartTimer, Wait, SpuriousWakeup, TestTimerExit, Exiting
<1>2. ExitPosted' = ExitPosted
  BY <1>1 DEF ExitPosted
<1>3. Undelivered' = Undelivered
  BY <1>1 DEF Undelivered, Exiting
<1>4. ExitAgrees'
  BY <1>1, <1>2 DEF OInv, ExitAgrees
<1>5. OrderKept'
  BY <1>1, <1>2, <1>3 DEF OInv, OrderKept
<1>6. QED
  BY <1>3, <1>4, <1>5

LEMMA TickKeepsOrder ==
  ASSUME OInv, Tick
  PROVE  ExitAgrees' /\ OrderKept' /\ Undelivered' = Undelivered
<1>1. /\ Enqueue(TimerMessage) /\ TimerMessage \in AnyMessage
      /\ TimerMessage \notin Messages /\ TimerMessage # ExitMessage
      /\ UNCHANGED <<thread, message, owner, accepted, handled, before>>
      /\ thread # "null"
  BY MessagesAssumption DEF Tick, AnyMessage, OInv, WInv, ThreadsAgree
<1>2. /\ UserData(queue') = UserData(queue)
      /\ HasExit(queue') <=> HasExit(queue)
      /\ Exiting' = Exiting
      /\ Undelivered' = Undelivered
  BY <1>1, EnqueueDelivers
<1>3. process' = process \/ (process = "waiting" /\ process' = "ready")
  BY <1>1 DEF Enqueue, Notified
<1>4. ExitPosted' = ExitPosted
  BY <1>1 DEF ExitPosted
<1>5. ExitAgrees'
  BY <1>1, <1>2, <1>3, <1>4 DEF OInv, ExitAgrees
<1>6. OrderKept'
  BY <1>1, <1>2, <1>4 DEF OInv, OrderKept
<1>7. QED
  BY <1>2, <1>5, <1>6

LEMMA TakeKeepsOrder ==
  ASSUME OInv, Take
  PROVE  ExitAgrees' /\ OrderKept' /\ Undelivered' = Undelivered
<1>1. /\ queue \in Seq(AnyMessage) /\ queue # <<>>
      /\ message = <<>> /\ message' = <<Head(queue)>> /\ queue' = Tail(queue)
      /\ process = "ready" /\ process' = "handling"
      /\ UNCHANGED <<thread, owner, accepted, handled, before>>
      /\ thread # "null"
  BY DEF OInv, WInv, WorkerTypeOK, ThreadsAgree, ExitAgrees, Take
<1>2. /\ Undelivered' = Undelivered
      /\ Cat(UserData(message'), UserData(queue'))
           = Cat(UserData(message), UserData(queue))
  BY TakeDelivers
<1>3. HasExit(queue) <=> Head(queue) = ExitMessage \/ HasExit(Tail(queue))
  BY <1>1, UserDataTail
<1>4. ExitPosted' = ExitPosted /\ Exiting' = Exiting
  BY <1>1 DEF ExitPosted, Exiting
<1>5. /\ <<Head(queue)>> = <<ExitMessage>> <=> Head(queue) = ExitMessage
      /\ message # <<ExitMessage>>
      /\ Head(message') = Head(queue)
  BY <1>1
<1>6. ExitAgrees'
  BY <1>1, <1>3, <1>4, <1>5 DEF OInv, ExitAgrees
<1>7. Cat(Cat(handled, UserData(message')), UserData(queue'))
        = Cat(Cat(handled, UserData(message)), UserData(queue))
  <2> DEFINE u == UserData(message)
             d == UserData(queue)
             v == UserData(message')
             e == UserData(queue')
  <2>1. /\ u \in Seq(Messages) /\ d \in Seq(Messages) /\ handled \in Seq(Messages)
        /\ v \in Seq(Messages) /\ e \in Seq(Messages)
    <3>1. Head(queue) \in AnyMessage /\ Tail(queue) \in Seq(AnyMessage)
          /\ <<Head(queue)>> \in Seq(AnyMessage)
      BY <1>1, HeadTailProperties
    <3>2. v \in Seq(Messages) /\ e \in Seq(Messages)
      BY <1>1, <3>1, UserDataTyped
    <3>3. QED
      BY <3>2, UndeliveredTyped DEF OInv, OrderKept
  <2>2. Cat(v, e) = Cat(u, d)
    BY <1>2
  <2> HIDE DEF u, d, v, e
  <2>3. /\ Cat(Cat(handled, v), e) = Cat(handled, Cat(v, e))
        /\ Cat(Cat(handled, u), d) = Cat(handled, Cat(u, d))
    BY <2>1, CatAssociative
  <2>4. Cat(Cat(handled, v), e) = Cat(Cat(handled, u), d)
    BY <2>2, <2>3
  <2>5. QED
    BY <2>4 DEF u, d, v, e
<1>8. OrderKept'
  BY <1>1, <1>2, <1>4, <1>7 DEF OInv, OrderKept
<1>9. QED
  BY <1>2, <1>6, <1>8

LEMMA HandleKeepsOrder ==
  ASSUME OInv, HandleMessage
  PROVE  ExitAgrees' /\ OrderKept'
<1>1. /\ message' = <<>> /\ message # <<ExitMessage>>
      /\ process = "handling" /\ process' = "ready"
      /\ UNCHANGED <<thread, queue, owner, accepted, before>>
      /\ thread # "null"
  BY DEF OInv, WInv, ThreadsAgree, ExitAgrees, HandleMessage
<1>2. ExitPosted' = ExitPosted /\ Exiting' = Exiting
  BY <1>1 DEF ExitPosted, Exiting
<1>3. ExitAgrees'
  BY <1>1, <1>2 DEF OInv, ExitAgrees
<1>4. /\ Cat(Cat(handled', UserData(message')), UserData(queue'))
           = Cat(Cat(handled, UserData(message)), UserData(queue))
      /\ \/ handled' = handled /\ Undelivered' = Undelivered
         \/ /\ Undelivered # <<>>
            /\ handled' = Append(handled, Head(Undelivered))
            /\ Undelivered' = Tail(Undelivered)
  BY HandleDelivers
<1>5. handled' \in Seq(Messages) /\ Cat(handled', Undelivered') = Cat(handled, Undelivered)
  <2>1. handled \in Seq(Messages) /\ Undelivered \in Seq(Messages)
    BY UndeliveredTyped DEF OInv, OrderKept
  <2>2. CASE handled' = handled /\ Undelivered' = Undelivered
    BY <2>1, <2>2
  <2>3. CASE /\ Undelivered # <<>>
             /\ handled' = Append(handled, Head(Undelivered))
             /\ Undelivered' = Tail(Undelivered)
    <3> DEFINE u == Undelivered
    <3>1. u \in Seq(Messages) /\ u # <<>>
      BY <2>1, <2>3
    <3> HIDE DEF u
    <3>2. Cat(Append(handled, Head(u)), Tail(u)) = Cat(handled, u)
      BY <2>1, <3>1, CatHead
    <3>3. Head(u) \in Messages
      BY <3>1, HeadTailProperties
    <3>4. Append(handled, Head(u)) \in Seq(Messages)
      BY <2>1, <3>3
    <3>5. QED
      BY <2>3, <3>2, <3>4 DEF u
  <2>4. QED
    BY <1>4, <2>2, <2>3
<1>6. OrderKept'
  BY <1>1, <1>2, <1>4, <1>5 DEF OInv, OrderKept
<1>7. QED
  BY <1>3, <1>6

LEMMA EndKeepsOrder ==
  ASSUME OInv, HandleExit \/ Drain
  PROVE  /\ ExitAgrees' /\ OrderKept'
         /\ Undelivered = <<>> /\ Undelivered' = <<>>
         /\ ExitPosted /\ thread = "joinable"
<1>1. /\ process \in {"handling", "joining"} /\ process' \in {"joining", "done"}
      /\ UNCHANGED <<thread, owner, accepted, handled, before>>
      /\ thread = "joinable"
  BY DEF HandleExit, Drain, OInv, WInv, WorkerTypeOK, ThreadsAgree
<1>2. Undelivered = <<>> /\ ExitPosted /\ message' = <<>>
  <2>1. CASE HandleExit
    <3>1. message = <<ExitMessage>> /\ message' = <<>>
      BY <2>1 DEF HandleExit, OInv, ExitAgrees
    <3>2. QED
      BY <1>1, <3>1, UndeliveredTyped DEF OInv, ExitAgrees
  <2>2. CASE Drain
    <3>1. Exiting /\ message' = <<>>
      BY <2>2 DEF Drain, Exiting, OInv, ExitAgrees
    <3>2. QED
      BY <1>1, <3>1, UndeliveredTyped DEF OInv, ExitAgrees
  <2>3. QED
    BY <2>1, <2>2
<1>3. ExitPosted' /\ Exiting'
  BY <1>1, <1>2 DEF ExitPosted, Exiting
<1>4. Undelivered' = <<>>
  BY <1>1 DEF Undelivered
<1>5. ExitAgrees'
  BY <1>1, <1>2, <1>3 DEF OInv, ExitAgrees
<1>6. OrderKept'
  BY <1>1, <1>2, <1>3, <1>4 DEF OInv, OrderKept
<1>7. QED
  BY <1>1, <1>2, <1>4, <1>5, <1>6

-----------------------------------------------------------------------------
LEMMA InitOInv == WorkerInit => OInv
<1> SUFFICES ASSUME WorkerInit PROVE OInv
  OBVIOUS
<1>1. WInv
  BY InitWInv
<1>2. ExitAgrees
  BY DEF WorkerInit, ExitAgrees, ExitPosted, Exiting
<1>3. OrderKept
  <2>1. <<>> \in Seq(Messages)
    OBVIOUS
  <2>2. Cat(Cat(<<>>, UserData(<<>>)), UserData(<<>>)) = <<>>
    BY <2>1, UserDataNone, CatFacts
  <2>3. QED
    BY <2>1, <2>2 DEF WorkerInit, OrderKept, ExitPosted
<1>4. QED
  BY <1>1, <1>2, <1>3 DEF OInv

LEMMA NextOInv == OInv /\ [WorkerNext]_workerVars => OInv'
<1> SUFFICES ASSUME OInv, [WorkerNext]_workerVars PROVE OInv'
  OBVIOUS
<1>1. WInv'
  BY NextWInv DEF OInv
<1>2. ExitAgrees' /\ OrderKept'
  <2>1. CASE \E m \in Messages : PostMessage(m)
    BY <2>1, PostKeepsOrder
  <2>2. CASE CreateThread
    BY <2>2, CreateKeepsOrder
  <2>3. CASE \E call \in {"exiting", "destroying"} : ExitThread(call)
    BY <2>3, ExitKeepsOrder
  <2>4. CASE ThreadJoined
    BY <2>4, JoinKeepsOrder
  <2>5. CASE StartTimer \/ Wait \/ SpuriousWakeup \/ TestTimerExit
    BY <2>5, IdleKeepsOrder
  <2>6. CASE Tick
    BY <2>6, TickKeepsOrder
  <2>7. CASE Take
    BY <2>7, TakeKeepsOrder
  <2>8. CASE HandleMessage
    BY <2>8, HandleKeepsOrder
  <2>9. CASE HandleExit \/ Drain
    BY <2>9, EndKeepsOrder
  <2>10. CASE UNCHANGED workerVars
    BY <2>10 DEF workerVars, OInv, ExitAgrees, OrderKept, ExitPosted, Exiting,
       Undelivered
  <2>11. QED
    BY <2>1, <2>2, <2>3, <2>4, <2>5, <2>6, <2>7, <2>8, <2>9, <2>10
    DEF WorkerNext, Process, TimerThread
<1>3. QED
  BY <1>1, <1>2 DEF OInv

(* The order of the messages with what it rests on.                         *)
THEOREM OrderInvariant == WorkerSpec => []OInv
<1>1. QED
  BY InitOInv, NextOInv, PTL DEF WorkerSpec

(* What was accepted is handled once and in order, up to what was posted    *)
(* before the exit message and not beyond it.                               *)
THEOREM HandledInOrder == WorkerSpec => []InOrder
<1>1. OInv => InOrder
  <2> SUFFICES ASSUME OInv PROVE InOrder
    OBVIOUS
  <2>1. CASE process \in {"joining", "done"}
    <3>1. Exiting /\ Undelivered = <<>>
      BY <2>1, UndeliveredTyped DEF Exiting
    <3>2. ExitPosted
      <4>1. thread \in {"joinable", "joined"}
        BY <2>1 DEF OInv, WInv, WorkerTypeOK, ThreadsAgree
      <4>2. thread = "joined" => ExitPosted
        BY DEF ExitPosted
      <4>3. thread = "joinable" => ExitPosted
        BY <3>1 DEF OInv, ExitAgrees
      <4>4. QED
        BY <4>1, <4>2, <4>3
    <3>3. Cat(handled, <<>>) = handled
      BY CatFacts DEF OInv, OrderKept
    <3>4. handled = SubSeq(accepted, 1, before)
      BY <3>1, <3>2, <3>3 DEF OInv, OrderKept
    <3>5. QED
      BY <2>1, <3>4 DEF InOrder
  <2>2. CASE process \notin {"joining", "done"}
    BY <2>2 DEF OInv, OrderKept, Exiting, InOrder, Cat
  <2>3. QED
    BY <2>1, <2>2
<1>2. QED
  BY <1>1, OrderInvariant, PTL

-----------------------------------------------------------------------------
(* The worker implements the mailbox, step by step.                         *)

(* A step that is none of the mailbox's.                                    *)
LEMMA MailboxStutters ==
  ASSUME Undelivered' = Undelivered, handled' = handled,
         MailboxState' = MailboxState
  PROVE  [Promised!MailboxNext]_(Promised!mailboxVars)
  BY DEF Promised!mailboxVars

LEMMA MailboxSteps ==
  OInv /\ [WorkerNext]_workerVars => [Promised!MailboxNext]_(Promised!mailboxVars)
<1> SUFFICES ASSUME OInv, [WorkerNext]_workerVars
             PROVE  [Promised!MailboxNext]_(Promised!mailboxVars)
  OBVIOUS
<1>1. CASE \E m \in Messages : PostMessage(m)
  <2>1. PICK m \in Messages : PostMessage(m)
    BY <1>1
  <2>2. UNCHANGED <<thread, message, owner, handled>>
    BY <2>1 DEF PostMessage
  <2>3. CASE thread = "null"
    <3>1. UNCHANGED <<queue, process>>
      BY <2>1, <2>3 DEF PostMessage
    <3>2. Undelivered' = Undelivered /\ MailboxState' = MailboxState
      BY <2>2, <3>1 DEF Undelivered, MailboxState
    <3>3. QED
      BY <2>2, <3>2, MailboxStutters
  <2>4. CASE thread # "null"
    <3>1. Enqueue(m) /\ m \in AnyMessage
      BY <2>1, <2>4 DEF PostMessage, AnyMessage
    <3>2. Undelivered' = IF thread = "joinable" /\ ~ExitPosted
                         THEN Append(Undelivered, m) ELSE Undelivered
      BY <2>2, <2>4, <3>1, EnqueueDelivers
    <3>3. MailboxState' = MailboxState
      BY <2>2, <3>1 DEF MailboxState, Enqueue, Notified
    <3>4. CASE thread = "joinable" /\ ~ExitPosted
      <4>1. MailboxState = "open"
        BY <2>1, <3>4 DEF MailboxState, OInv, WInv, WorkerTypeOK, ThreadsAgree,
           ExitAgrees, ExitPosted, Exiting, PostMessage
      <4>2. Promised!Put(m)
        BY <2>2, <3>2, <3>3, <3>4, <4>1 DEF Promised!Put
      <4>3. QED
        BY <4>2 DEF Promised!MailboxNext
    <3>5. CASE ~(thread = "joinable" /\ ~ExitPosted)
      BY <2>2, <3>2, <3>3, <3>5, MailboxStutters
    <3>6. QED
      BY <3>4, <3>5
  <2>5. QED
    BY <2>3, <2>4
<1>2. CASE CreateThread
  <2>1. /\ MailboxState = "new" /\ MailboxState' = "open"
        /\ handled' = handled
    BY <1>2 DEF CreateThread, MailboxState
  <2>2. Undelivered = <<>>
    <3>1. thread = "null" /\ process = "none" /\ queue = <<>> /\ message = <<>>
      BY <1>2 DEF CreateThread, OInv, WInv, ThreadsAgree, ExitAgrees
    <3>2. Undelivered = Cat(UserData(<<>>), Deliverable(<<>>))
      BY <3>1 DEF Undelivered, Cat
    <3>3. Cat(<<>>, <<>>) = <<>>
      BY EmptySeq, CatFacts
    <3>4. QED
      BY <3>2, <3>3, UserDataNone
  <2>3. Undelivered' = <<>>
    BY <1>2, CreateKeepsOrder
  <2>4. QED
    BY <2>1, <2>2, <2>3 DEF Promised!MailboxNext, Promised!Open
<1>3. CASE \E call \in {"exiting", "destroying"} : ExitThread(call)
  <2>1. PICK call \in {"exiting", "destroying"} : ExitThread(call)
    BY <1>3
  <2>2. Undelivered' = Undelivered /\ handled' = handled /\ thread' = thread
        /\ owner = "free" /\ thread \in {"null", "joinable", "joined"}
    BY <2>1, ExitKeepsOrder DEF ExitThread, OInv, WInv, WorkerTypeOK
  <2>3. CASE thread = "joinable"
    <3>1. MailboxState = "open"
      BY <2>2, <2>3 DEF MailboxState, OInv, ExitAgrees, ExitPosted, Exiting
    <3>2. MailboxState' = "closing"
      BY <2>1, <2>2, <2>3, <3>1 DEF MailboxState, ExitThread, Enqueue, Notified
    <3>3. QED
      BY <2>2, <3>1, <3>2 DEF Promised!MailboxNext, Promised!Close
  <2>4. CASE thread = "joined"
    <3>1. process = "done" /\ process' = "done"
      BY <2>1, <2>4 DEF OInv, WInv, WorkerTypeOK, ExitThread, Enqueue, Notified
    <3>2. QED
      BY <2>2, <2>4, <3>1, MailboxStutters DEF MailboxState
  <2>5. CASE thread = "null"
    BY <2>2, <2>5, MailboxStutters DEF MailboxState
  <2>6. QED
    BY <2>2, <2>3, <2>4, <2>5
<1>4. CASE ThreadJoined
  <2>1. Undelivered' = Undelivered
    BY <1>4, JoinKeepsOrder
  <2>2. handled' = handled /\ MailboxState = "closed" /\ MailboxState' = "closed"
    BY <1>4 DEF ThreadJoined, MailboxState, OInv, WInv, ThreadsAgree
  <2>3. QED
    BY <2>1, <2>2, MailboxStutters
<1>5. CASE StartTimer \/ Wait \/ SpuriousWakeup \/ TestTimerExit
  <2>1. Undelivered' = Undelivered
    BY <1>5, IdleKeepsOrder
  <2>2. handled' = handled /\ MailboxState' = MailboxState
    BY <1>5 DEF StartTimer, Wait, SpuriousWakeup, TestTimerExit, MailboxState
  <2>3. QED
    BY <2>1, <2>2, MailboxStutters
<1>6. CASE Tick
  <2>1. Undelivered' = Undelivered
    BY <1>6, TickKeepsOrder
  <2>2. handled' = handled /\ MailboxState' = MailboxState
    BY <1>6 DEF Tick, Enqueue, Notified, MailboxState
  <2>3. QED
    BY <2>1, <2>2, MailboxStutters
<1>7. CASE Take
  <2>1. Undelivered' = Undelivered
    BY <1>7, TakeKeepsOrder
  <2>2. handled' = handled /\ MailboxState' = MailboxState
    BY <1>7 DEF Take, MailboxState
  <2>3. QED
    BY <2>1, <2>2, MailboxStutters
<1>8. CASE HandleMessage
  <2>1. MailboxState' = MailboxState
    BY <1>8 DEF HandleMessage, MailboxState
  <2>2. \/ handled' = handled /\ Undelivered' = Undelivered
        \/ /\ Undelivered # <<>>
           /\ handled' = Append(handled, Head(Undelivered))
           /\ Undelivered' = Tail(Undelivered)
    BY <1>8, HandleDelivers
  <2>3. QED
    BY <2>1, <2>2, MailboxStutters DEF Promised!MailboxNext, Promised!Get
<1>9. CASE HandleExit \/ Drain
  <2>1. /\ Undelivered = <<>> /\ Undelivered' = <<>>
        /\ ExitPosted /\ thread = "joinable"
    BY <1>9, EndKeepsOrder
  <2>2. /\ handled' = handled /\ UNCHANGED <<thread, owner>>
        /\ process \in {"handling", "joining"}
    BY <1>9 DEF HandleExit, Drain
  <2>3. MailboxState = "closing"
    BY <2>1, <2>2 DEF MailboxState, ExitPosted
  <2>4. MailboxState' \in {"closing", "closed"}
    BY <2>1, <2>2 DEF MailboxState, ExitPosted
  <2>5. QED
    BY <2>1, <2>2, <2>3, <2>4, MailboxStutters DEF Promised!MailboxNext, Promised!Finish
<1>10. CASE UNCHANGED workerVars
  <2>1. Undelivered' = Undelivered /\ handled' = handled
        /\ MailboxState' = MailboxState
    BY <1>10 DEF workerVars, Undelivered, MailboxState
  <2>2. QED
    BY <2>1, MailboxStutters
<1>11. QED
  BY <1>1, <1>2, <1>3, <1>4, <1>5, <1>6, <1>7, <1>8, <1>9, <1>10
  DEF WorkerNext, Process, TimerThread

(* The safety of worker.h's promise: every step of the worker is a step of  *)
(* the mailbox or none of its.                                              *)
THEOREM WorkerIsMailbox == WorkerSpec => Promised!MailboxSafety
<1>1. WorkerInit => Promised!MailboxInit
  <2> SUFFICES ASSUME WorkerInit PROVE Promised!MailboxInit
    OBVIOUS
  <2>1. Undelivered = Cat(UserData(<<>>), Deliverable(<<>>))
    BY DEF WorkerInit, Undelivered, Cat
  <2>2. Cat(<<>>, <<>>) = <<>>
    BY EmptySeq, CatFacts
  <2>3. QED
    BY <2>1, <2>2, UserDataNone DEF WorkerInit, Promised!MailboxInit, MailboxState
<1>2. QED
  BY <1>1, OrderInvariant, MailboxSteps, PTL DEF WorkerSpec, Promised!MailboxSafety
=============================================================================
