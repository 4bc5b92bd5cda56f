------------------------------- MODULE Notices -------------------------------
(* Messages to buyers: raised with the sale or by a sign-in, queued under  *)
(* a key, rendered when they are sent, and sent to a mail or a message     *)
(* provider that collapses repetitions of a key.                           *)
EXTENDS Integers, FiniteSets

CONSTANTS
    Notes,
    KeyOf, Template, Channel,   \* functions of the notes
    Senders,                    \* channels somebody sends on
    Admissions,                 \* of the order the receipt is for
    MaxDeliveryAttempts, MaxSends, MaxFaults,
    Nobody

NoticesAssumption == Nobody \notin Notes /\ MaxDeliveryAttempts \in Nat /\ MaxSends \in Nat /\ MaxFaults \in Nat

VARIABLES
    row,        \* note -> its job
    hand,       \* note -> the attempt under way
    accepted,   \* the provider's: key -> the note it was first used for
    inbox,      \* note -> what its reader has
    token, good,    \* the access token kept, and the one that is let in
    void,       \* admissions voided so far
    faults

Templates == {"order_pending", "order_confirmed", "sign_in_code"}
Keys == {KeyOf[n] : n \in Notes}
Idle == [at |-> "none", sends |-> 0, again |-> FALSE, token |-> 0, tickets |-> {}, void |-> {}]
Nothing == [times |-> 0, tickets |-> {}, void |-> {}]

Init ==
    /\ row = [n \in Notes |-> [at |-> "none", tries |-> 0]]
    /\ hand = [n \in Notes |-> Idle]
    /\ accepted = [k \in Keys |-> Nobody]
    /\ inbox = [n \in Notes |-> Nothing]
    /\ token = 0 /\ good = 1 /\ void = {} /\ faults = 0

(* A note without a sender is declined, and one whose key is in use is a   *)
(* duplicate; whoever signs in is told that nothing was sent.              *)
Open(n) == row[n].at \in {"due", "working"}
Duplicate(n) == \E m \in Notes : KeyOf[m] = KeyOf[n] /\ Open(m)
Enqueue(n) ==
    /\ row[n].at = "none"
    /\ row' = [row EXCEPT ![n].at = IF Channel[n] \notin Senders \/ Duplicate(n) THEN "declined" ELSE "due"]
    /\ UNCHANGED <<hand, accepted, inbox, token, good, void, faults>>

(* Tickets are read when the receipt is sent, and left out if they cannot  *)
(* be; what they say cannot be known later.                                *)
ForReceiptAll == Admissions
ForReceipt == Admissions \ void
First(n) == IF Channel[n] = "whatsapp" /\ token = 0 THEN "login" ELSE "send"
Fault == faults < MaxFaults /\ faults' = faults + 1
Attempt(n, tickets) ==
    /\ row[n].at = "due"
    /\ row' = [row EXCEPT ![n].at = "working", ![n].tries = @ + 1]
    /\ hand' = [hand EXCEPT ![n] = [Idle EXCEPT !.at = First(n), !.sends = 1, !.token = token,
                                                !.tickets = tickets, !.void = void]]
    /\ UNCHANGED <<accepted, inbox, token, good, void>>
Deliver(n) == Attempt(n, IF Template[n] = "order_confirmed" THEN ForReceipt ELSE {}) /\ UNCHANGED faults
DeliverBare(n) == Template[n] = "order_confirmed" /\ Fault /\ Attempt(n, {})

Ends(n, at) == row' = [row EXCEPT ![n].at = at] /\ hand' = [hand EXCEPT ![n] = Idle]
Fails(n) == Ends(n, IF row[n].tries >= MaxDeliveryAttempts THEN "parked" ELSE "due")
(* A send is tried again within the attempt before the attempt fails.      *)
Misses(n) ==
    IF hand[n].sends < MaxSends
    THEN /\ hand' = [hand EXCEPT ![n].sends = @ + 1, ![n].again = FALSE, ![n].at = First(n), ![n].token = token]
         /\ UNCHANGED row
    ELSE Fails(n)

(* Signing in: nothing can be sent while the account is turned away.       *)
Login(n) ==
    /\ hand[n].at = "login"
    /\ \/ /\ token' = good /\ hand' = [hand EXCEPT ![n].at = "send", ![n].token = good]
          /\ UNCHANGED <<row, faults>>
       \/ Misses(n) /\ Fault /\ UNCHANGED token
       \/ Ends(n, "parked") /\ Fault /\ UNCHANGED token
    /\ UNCHANGED <<accepted, inbox, good, void>>

LetIn(n) == Channel[n] # "whatsapp" \/ hand[n].token = good
Unauthorized(n) ==
    /\ hand[n].at = "send" /\ ~LetIn(n)
    /\ IF hand[n].again THEN Misses(n)
       ELSE hand' = [hand EXCEPT ![n].at = "login", ![n].again = TRUE] /\ UNCHANGED row
    /\ UNCHANGED <<accepted, inbox, token, good, void, faults>>

(* The provider takes a key once and answers a repetition the same.        *)
NewUnkeyed(n) == TRUE
New(n) == accepted[KeyOf[n]] = Nobody
Accepts(n) ==
    /\ hand[n].at = "send" /\ LetIn(n)
    /\ accepted' = IF New(n) THEN [accepted EXCEPT ![KeyOf[n]] = n] ELSE accepted
    /\ inbox' = IF New(n)
                THEN [inbox EXCEPT ![n] = [times |-> @.times + 1, tickets |-> hand[n].tickets, void |-> hand[n].void]]
                ELSE inbox
    /\ UNCHANGED <<token, good, void>>
Send(n) == Accepts(n) /\ Ends(n, "done") /\ UNCHANGED faults
SendUnanswered(n) == Accepts(n) /\ Misses(n) /\ Fault
SendLost(n) ==
    /\ hand[n].at = "send" /\ Misses(n) /\ Fault
    /\ UNCHANGED <<accepted, inbox, token, good, void>>
(* A refusal is final on WhatsApp; mail does not tell one from an outage.  *)
SendRefused(n) ==
    /\ hand[n].at = "send" /\ LetIn(n) /\ Fault
    /\ IF Channel[n] = "whatsapp" THEN Ends(n, "parked") ELSE Fails(n)
    /\ UNCHANGED <<accepted, inbox, token, good, void>>

(* The worker dies, or its bookkeeping fails; the sweep hands the job on.  *)
Crash(n) ==
    /\ row[n].at = "working" /\ Fault /\ Ends(n, "due")
    /\ UNCHANGED <<accepted, inbox, token, good, void>>
TokenExpires ==
    /\ good' = good + 1 /\ Fault
    /\ UNCHANGED <<row, hand, accepted, inbox, token, void>>
VoidForOrder ==
    /\ void # Admissions /\ void' = Admissions
    /\ UNCHANGED <<row, hand, accepted, inbox, token, good, faults>>

Next ==
    \/ \E n \in Notes : \/ Enqueue(n) \/ Deliver(n) \/ DeliverBare(n) \/ Login(n) \/ Unauthorized(n)
                        \/ Send(n) \/ SendUnanswered(n) \/ SendLost(n) \/ SendRefused(n) \/ Crash(n)
    \/ TokenExpires \/ VoidForOrder

-----------------------------------------------------------------------------
TypeOK ==
    /\ \A n \in Notes : row[n].at \in {"none", "declined", "due", "working", "done", "parked"}
    /\ \A n \in Notes : hand[n].at # "none" <=> row[n].at = "working"
    /\ token \in 0..good

(* Lost answers, retries and dead workers never send a message twice.      *)
OneMessage == \A n \in Notes : inbox[n].times <= 1

(* What the queue counts as sent is with its reader, unless the provider   *)
(* had taken the key for somebody else's message.                          *)
SentIsReceived == \A n \in Notes :
    row[n].at = "done" => inbox[n].times = 1 \/ accepted[KeyOf[n]] \notin {n, Nobody}

(* A receipt never carries a ticket that was void when it was written.     *)
NoVoidTicketSent == \A n \in Notes : inbox[n].tickets \cap inbox[n].void = {}

(* A mail is given up only after all its attempts.                         *)
MailIsPatient == \A n \in Notes :
    row[n].at = "parked" /\ Channel[n] = "email" => row[n].tries >= MaxDeliveryAttempts

NoticesSound == OneMessage /\ SentIsReceived /\ NoVoidTicketSent /\ MailIsPatient
=============================================================================
