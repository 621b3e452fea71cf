------------------------------- MODULE Worker -------------------------------
(***************************************************************************)
(* class worker: a thread that handles the messages of a queue, a timer    *)
(* thread that posts to the same queue, callers that post, and the thread  *)
(* that owns the object.  A step is a critical section of m_mutex or what  *)
(* a thread does between two of them.                                      *)
(***************************************************************************)
EXTENDS Naturals, Sequences, FiniteSets

CONSTANTS
  Messages,    (* the user data callers post, each allocated for one post   *)
  ExitMessage, (* MSG_EXIT_THREAD                                           *)
  TimerMessage,(* MSG_TIMER                                                 *)
  MaxCopies    (* bound: timer messages, and exit messages after the first, *)
               (* in the queue at once                                      *)

ASSUME MessagesAssumption ==
  ExitMessage \notin Messages /\ TimerMessage \notin Messages
    /\ ExitMessage # TimerMessage
ASSUME MaxCopiesAssumption == MaxCopies \in Nat \ {0}

VARIABLES
  thread,     (* m_thread: "null", "joinable", or "joined" (never reset)    *)
  queue,      (* m_queue                                                    *)
  timerExit,  (* m_timerExit                                                *)
  process,    (* where the worker thread stands                             *)
  message,    (* the messages it took out of the queue: none or one         *)
  timer,      (* where the timer thread stands                              *)
  owner,      (* what the owner is doing                                    *)
  accepted,   (* history: user data posted, in the order of the queue       *)
  refused,    (* history: user data postMessage threw for                   *)
  handled,    (* history: user data handled, in order                       *)
  before      (* history: how many were accepted before the exit message    *)

workerVars == <<thread, queue, timerExit, process, message, timer, owner,
                accepted, refused, handled, before>>

AnyMessage == Messages \cup {ExitMessage, TimerMessage}

-----------------------------------------------------------------------------
Copies(m) == Cardinality({i \in DOMAIN queue : queue[i] = m})

(* Mutant: notify_one is missing.                                           *)
NotifiedNever == process

(* notify_one: the one thread that waits on the condition variable.         *)
Notified == IF process = "waiting" THEN "ready" ELSE process

(* Mutant: the message jumps the queue.                                     *)
EnqueueFront(m) ==
  /\ queue' = <<m>> \o queue
  /\ process' = Notified

Enqueue(m) ==
  /\ queue' = Append(queue, m)
  /\ process' = Notified

-----------------------------------------------------------------------------
(* Callers.                                                                *)

(* m_thread is read before the mutex is taken; it never becomes null again, *)
(* so the test stays true until the push.                                   *)
PostMessage(m) ==
  /\ owner \notin {"destroyed", "terminated"}
  /\ m \notin refused
  /\ \A i \in DOMAIN accepted : accepted[i] # m
  /\ \/ /\ thread = "null"
        /\ refused' = refused \cup {m}
        /\ UNCHANGED <<queue, process, accepted>>
     \/ /\ thread # "null"
        /\ Enqueue(m)
        /\ accepted' = Append(accepted, m)
        /\ UNCHANGED refused
  /\ UNCHANGED <<thread, timerExit, message, timer, owner, handled, before>>

-----------------------------------------------------------------------------
(* The owner.                                                              *)

CreateThread ==
  /\ owner = "free"
  /\ thread = "null"
  /\ thread' = "joinable"
  /\ process' = "starting"
  /\ UNCHANGED <<queue, timerExit, message, timer, owner, accepted, refused,
                 handled, before>>

(* exitThread, called by the owner or by the destructor, up to the join.    *)
ExitThread(call) ==
  /\ owner = "free"
  /\ \/ /\ thread = "null"
        /\ owner' = IF call = "destroying" THEN "destroyed" ELSE "free"
        /\ UNCHANGED <<queue, process, before>>
     \/ /\ thread = "joinable"
        /\ Enqueue(ExitMessage)
        /\ before' = Len(accepted)
        /\ owner' = call
     \/ /\ thread = "joined"
        /\ Copies(ExitMessage) < MaxCopies
        /\ Enqueue(ExitMessage)
        /\ owner' = IF call = "destroying" THEN "terminated" ELSE "free"
        /\ UNCHANGED before
  /\ UNCHANGED <<thread, timerExit, message, timer, accepted, refused, handled>>

(* Mutant: the thread is detached instead of joined.                        *)
ThreadDetached ==
  /\ owner \in {"exiting", "destroying"}
  /\ thread' = "joined"
  /\ owner' = IF owner = "destroying" THEN "destroyed" ELSE "free"
  /\ UNCHANGED <<queue, timerExit, process, message, timer, accepted, refused,
                 handled, before>>

(* join returns, the thread object is destroyed and m_thread still points   *)
(* to it: joining it again throws, which a destructor does not survive.     *)
ThreadJoined ==
  /\ owner \in {"exiting", "destroying"}
  /\ process = "done"
  /\ thread' = "joined"
  /\ owner' = IF owner = "destroying" THEN "destroyed" ELSE "free"
  /\ UNCHANGED <<queue, timerExit, process, message, timer, accepted, refused,
                 handled, before>>

-----------------------------------------------------------------------------
(* The worker thread.                                                      *)

StartTimer ==
  /\ process = "starting"
  /\ timerExit' = FALSE
  /\ timer' = "testing"
  /\ process' = "ready"
  /\ UNCHANGED <<thread, queue, message, owner, accepted, refused, handled,
                 before>>

Wait ==
  /\ process = "ready"
  /\ queue = <<>>
  /\ process' = "waiting"
  /\ UNCHANGED <<thread, queue, timerExit, message, timer, owner, accepted,
                 refused, handled, before>>

SpuriousWakeup ==
  /\ process = "waiting"
  /\ process' = "ready"
  /\ UNCHANGED <<thread, queue, timerExit, message, timer, owner, accepted,
                 refused, handled, before>>

Take ==
  /\ process = "ready"
  /\ queue # <<>>
  /\ message' = <<Head(queue)>>
  /\ queue' = Tail(queue)
  /\ process' = "handling"
  /\ UNCHANGED <<thread, timerExit, timer, owner, accepted, refused, handled,
                 before>>

(* MSG_POST_USER_DATA deletes the data, MSG_TIMER does nothing.             *)
HandleMessage ==
  /\ process = "handling"
  /\ Head(message) # ExitMessage
  /\ handled' = IF Head(message) = TimerMessage THEN handled
                ELSE Append(handled, Head(message))
  /\ message' = <<>>
  /\ process' = "ready"
  /\ UNCHANGED <<thread, queue, timerExit, timer, owner, accepted, refused,
                 before>>

(* Mutant: the timer is not told to end.                                    *)
HandleExitAlone ==
  /\ process = "handling"
  /\ Head(message) = ExitMessage
  /\ message' = <<>>
  /\ process' = "joining"
  /\ UNCHANGED <<thread, queue, timerExit, timer, owner, accepted, refused,
                 handled, before>>

HandleExit ==
  /\ process = "handling"
  /\ Head(message) = ExitMessage
  /\ timerExit' = TRUE
  /\ message' = <<>>
  /\ process' = "joining"
  /\ UNCHANGED <<thread, queue, timer, owner, accepted, refused, handled,
                 before>>

(* Mutant: the timer's thread is not joined.                                *)
DrainAtOnce ==
  /\ process = "joining"
  /\ queue' = <<>>
  /\ process' = "done"
  /\ UNCHANGED <<thread, timerExit, message, timer, owner, accepted, refused,
                 handled, before>>

(* The timer's thread is joined; what is left in the queue is dropped.      *)
Drain ==
  /\ process = "joining"
  /\ timer = "done"
  /\ queue' = <<>>
  /\ process' = "done"
  /\ UNCHANGED <<thread, timerExit, message, timer, owner, accepted, refused,
                 handled, before>>

-----------------------------------------------------------------------------
(* The timer thread.                                                       *)

TestTimerExit ==
  /\ timer = "testing"
  /\ timer' = IF timerExit THEN "done" ELSE "sleeping"
  /\ UNCHANGED <<thread, queue, timerExit, process, message, owner, accepted,
                 refused, handled, before>>

(* The bound never holds the timer back once it is told to end.             *)
Tick ==
  /\ timer = "sleeping"
  /\ Copies(TimerMessage) < MaxCopies \/ timerExit
  /\ Enqueue(TimerMessage)
  /\ timer' = "testing"
  /\ UNCHANGED <<thread, timerExit, message, owner, accepted, refused, handled,
                 before>>

-----------------------------------------------------------------------------
WorkerInit ==
  /\ thread = "null"
  /\ queue = <<>>
  /\ timerExit = FALSE
  /\ process = "none"
  /\ message = <<>>
  /\ timer = "none"
  /\ owner = "free"
  /\ accepted = <<>>
  /\ refused = {}
  /\ handled = <<>>
  /\ before = 0

Process == StartTimer \/ Wait \/ Take \/ HandleMessage \/ HandleExit \/ Drain

TimerThread == TestTimerExit \/ Tick

WorkerNext ==
  \/ \E m \in Messages : PostMessage(m)
  \/ CreateThread
  \/ \E call \in {"exiting", "destroying"} : ExitThread(call)
  \/ ThreadJoined
  \/ Process
  \/ SpuriousWakeup
  \/ TimerThread

WorkerSpec == WorkerInit /\ [][WorkerNext]_workerVars

(* The scheduler runs every thread; nobody is obliged to post or to exit.   *)
FairWorkerSpec ==
  /\ WorkerSpec
  /\ WF_workerVars(Process)
  /\ WF_workerVars(TimerThread)
  /\ WF_workerVars(ThreadJoined)

-----------------------------------------------------------------------------
(* Properties.                                                             *)

(* Types; a thread that was joined has ended, and one that handles a        *)
(* message has one.                                                         *)
WorkerTypeOK ==
  /\ thread \in {"null", "joinable", "joined"}
  /\ queue \in Seq(AnyMessage)
  /\ timerExit \in BOOLEAN
  /\ process \in {"none", "starting", "ready", "waiting", "handling",
                  "joining", "done"}
  /\ message \in Seq(AnyMessage)
  /\ timer \in {"none", "testing", "sleeping", "done"}
  /\ owner \in {"free", "exiting", "destroying", "destroyed", "terminated"}
  /\ before \in Nat
  /\ thread = "joined" => process = "done"
  /\ process = "handling" => message # <<>>

(* The worker sleeps on its condition variable only while there is nothing  *)
(* in the queue: no push falls between its test of the queue and its sleep. *)
NoLostWakeup == process = "waiting" => queue = <<>>

(* The members of s at the positions that are kept, in order.               *)
Kept(s, positions) ==
  LET upTo[n \in 0 .. Len(s)] ==
        IF n = 0 THEN <<>>
        ELSE IF n \in positions THEN Append(upTo[n - 1], s[n]) ELSE upTo[n - 1]
  IN upTo[Len(s)]

UserPositions(s) == {i \in DOMAIN s : s[i] \in Messages}

UserData(s) == Kept(s, UserPositions(s))

(* Until the exit message is handled, what was accepted is what was         *)
(* handled, then what is being handled, then what is in the queue: nothing  *)
(* is lost, handled twice or out of order.  When the worker exits it has    *)
(* handled what was posted before the exit message, and nothing that was    *)
(* posted after.                                                            *)
InOrder ==
  IF process \in {"joining", "done"}
  THEN handled = SubSeq(accepted, 1, before)
  ELSE accepted = handled \o UserData(message) \o UserData(queue)

(* The thread ends after its timer: no timer is left to push into the queue *)
(* of an object that is destroyed.                                          *)
TimerEndsFirst == owner = "destroyed" => timer \in {"none", "done"}

(* exitThread returns, whatever the timer and the callers are doing.        *)
ExitReturns == owner \in {"exiting", "destroying"} ~>
                 owner \notin {"exiting", "destroying"}

(* User data in front of the exit message.                                  *)
BeforeExit(s) == {i \in UserPositions(s) : \A j \in 1 .. i : s[j] # ExitMessage}

Deliverable(s) == Kept(s, BeforeExit(s))

Undelivered ==
  IF process \in {"joining", "done"} \/ message = <<ExitMessage>> THEN <<>>
  ELSE UserData(message) \o Deliverable(queue)

MailboxState ==
  IF thread = "null" THEN "new"
  ELSE IF process = "done" THEN "closed"
  ELSE IF owner = "free" /\ thread = "joinable" THEN "open"
  ELSE "closing"

Promised == INSTANCE Mailbox WITH box <- Undelivered, state <- MailboxState

(* The worker implements the mailbox.                                       *)
ImplementsMailbox == Promised!MailboxSpec

(* postMessage throws "no thread is running" when there is none: what it    *)
(* accepts is accepted while there is a thread.                             *)
PostNeedsThread ==
  [][accepted' # accepted => thread = "joinable" /\ process # "done"]_workerVars

(* exitThread is "called once a program exit to exit the worker thread",    *)
(* and the destructor still runs after it.                                  *)
DestructorReturns == owner # "terminated"
=============================================================================
