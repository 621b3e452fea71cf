------------------------------ MODULE Mailbox ------------------------------
(***************************************************************************)
(* What worker.h promises its users: once the thread is created, messages  *)
(* are handled one at a time in the order they were posted; once the       *)
(* thread is asked to exit, those posted before are still handled and none *)
(* posted after is.                                                        *)
(***************************************************************************)
EXTENDS Naturals, Sequences

CONSTANT Messages

VARIABLES
  box,        (* messages that will be handled                              *)
  handled,    (* messages that were, in order                               *)
  state       (* "new", "open", "closing" or "closed"                       *)

mailboxVars == <<box, handled, state>>

MailboxInit ==
  /\ box = <<>>
  /\ handled = <<>>
  /\ state = "new"

Open ==
  /\ state = "new"
  /\ state' = "open"
  /\ UNCHANGED <<box, handled>>

Put(m) ==
  /\ state = "open"
  /\ box' = Append(box, m)
  /\ UNCHANGED <<handled, state>>

Get ==
  /\ box # <<>>
  /\ handled' = Append(handled, Head(box))
  /\ box' = Tail(box)
  /\ UNCHANGED state

Close ==
  /\ state = "open"
  /\ state' = "closing"
  /\ UNCHANGED <<box, handled>>

Finish ==
  /\ state = "closing"
  /\ box = <<>>
  /\ state' = "closed"
  /\ UNCHANGED <<box, handled>>

MailboxNext ==
  Open \/ (\E m \in Messages : Put(m)) \/ Get \/ Close \/ Finish

(* What may happen to a mailbox.                                            *)
MailboxSafety == MailboxInit /\ [][MailboxNext]_mailboxVars

(* What was put is handled, and closing comes to an end.                    *)
MailboxSpec ==
  /\ MailboxSafety
  /\ WF_mailboxVars(Get)
  /\ WF_mailboxVars(Finish)
=============================================================================
