--------------------------- MODULE BackstageProofs ---------------------------
(***************************************************************************)
(* Theorems about Backstage.  Each part that has one keeps an inductive    *)
(* invariant of its own while it moves; the parts without stand in         *)
(* TellingSound, that only TLC checks.  At the provider, every charge but  *)
(* the newest is dead and what a void deleted is out of every payment's    *)
(* reach; at the broker, a reference that is out is either on a line or    *)
(* owed by a row; at the gate, the gauge counts those inside and the       *)
(* answers still owed; a start that goes on has rewritten the rows it      *)
(* passed; a buyer's row opens with a key every process in charge has, and *)
(* an edit that nobody overtook carries what its owner last sent; a        *)
(* message's key says which answer it may still get.                       *)
(***************************************************************************)
EXTENDS Backstage, TLAPS, FiniteSetTheorems, WellFoundedInduction

(* The parts count finite sets as everyone does.                           *)
LEMMA CountedAlike ==
  /\ \A S : Wire!IsFiniteSet(S) <=> IsFiniteSet(S)
  /\ \A S : Wire!Cardinality(S) = Cardinality(S)
  /\ \A S : Turnstile!IsFiniteSet(S) <=> IsFiniteSet(S)
  /\ \A S : Turnstile!Cardinality(S) = Cardinality(S)
  /\ \A S : Keys!IsFiniteSet(S) <=> IsFiniteSet(S)
  <1>1. ASSUME NEW S
        PROVE  /\ Wire!IsFiniteSet(S) <=> IsFiniteSet(S)
               /\ Turnstile!IsFiniteSet(S) <=> IsFiniteSet(S)
               /\ Keys!IsFiniteSet(S) <=> IsFiniteSet(S)
    BY DEF Wire!IsFiniteSet, Turnstile!IsFiniteSet, Keys!IsFiniteSet, IsFiniteSet
  <1>2. ASSUME NEW S PROVE Wire!Cardinality(S) = Cardinality(S)
    BY DEF Wire!Cardinality, Cardinality
  <1>3. ASSUME NEW S PROVE Turnstile!Cardinality(S) = Cardinality(S)
    BY DEF Turnstile!Cardinality, Cardinality
  <1> QED
    BY <1>1, <1>2, <1>3

-----------------------------------------------------------------------------
(* Messages.  A note is with its reader exactly if the provider used its   *)
(* key for it, and what an attempt carries was not void when it began.     *)
NoteRows == [at : {"none", "declined", "due", "working", "done", "parked"}, tries : Nat]
NoteHands ==
    [at : {"none", "login", "send"}, sends : Nat, again : BOOLEAN, token : Nat,
     tickets : SUBSET Admissions, void : SUBSET Admissions]
Letters == [times : Nat, tickets : SUBSET Admissions, void : SUBSET Admissions]
PostShape ==
    /\ row \in [Notes -> NoteRows] /\ hand \in [Notes -> NoteHands]
    /\ accepted \in [Post!Keys -> Notes \cup {idle}] /\ inbox \in [Notes -> Letters]
    /\ token \in Nat /\ good \in Nat /\ token <= good /\ void \in SUBSET Admissions
RowFits(n, r, h) ==
    /\ h.at # "none" <=> r.at = "working"
    /\ h.at = "login" => Channel[n] = "whatsapp"
    /\ h.tickets \cap h.void = {}
    /\ r.at = "parked" /\ Channel[n] = "email" => r.tries >= MaxDeliveryAttempts
ReadFits(n, taker, i) ==
    /\ i.times = IF taker = n THEN 1 ELSE 0
    /\ i.tickets \cap i.void = {}
NoteOK(n) ==
    /\ RowFits(n, row[n], hand[n])
    /\ ReadFits(n, accepted[KeyOf[n]], inbox[n])
    /\ row[n].at = "done" => accepted[KeyOf[n]] # idle
PostInv == PostShape /\ \A n \in Notes : NoteOK(n)

LEMMA PostStarts == Post!Init => PostInv
  <1> SUFFICES ASSUME Post!Init PROVE PostInv
    OBVIOUS
  <1>1. PostShape
    BY DEF PostShape, NoteRows, NoteHands, Letters, Post!Init, Post!Idle, Post!Nothing
  <1>2. ASSUME NEW n \in Notes PROVE NoteOK(n)
    BY BackstageAssumption
       DEF NoteOK, RowFits, ReadFits, Post!Init, Post!Idle, Post!Nothing, Post!Keys, Post!NoticesAssumption
  <1> QED
    BY <1>1, <1>2 DEF PostInv

(* One note's job moves and nothing reaches a reader.                      *)
LEMMA NoteMoves ==
  ASSUME PostInv, NEW n \in Notes, NEW r \in NoteRows, NEW h \in NoteHands,
         row' = [row EXCEPT ![n] = r], hand' = [hand EXCEPT ![n] = h],
         RowFits(n, r, h), r.at = "done" => accepted[KeyOf[n]] # idle,
         UNCHANGED <<accepted, inbox>>, token' \in Nat, good' \in Nat, token' <= good', UNCHANGED void
  PROVE  PostInv'
  <1>1. PostShape'
    BY DEF PostInv, PostShape
  <1>2. row'[n] = r /\ hand'[n] = h /\ \A m \in Notes : m # n => row'[m] = row[m] /\ hand'[m] = hand[m]
    BY DEF PostInv, PostShape
  <1>3. ASSUME NEW m \in Notes PROVE NoteOK(m)'
    BY <1>2 DEF PostInv, NoteOK, RowFits, ReadFits
  <1> QED
    BY <1>1, <1>3 DEF PostInv

(* The attempt ends, or its call is tried once more.                       *)
LEMMA NoteEnds ==
  ASSUME PostInv, NEW n \in Notes, NEW at \in {"due", "done", "parked"}, Post!Ends(n, at),
         at = "done" => accepted[KeyOf[n]] # idle,
         at = "parked" => Channel[n] # "email" \/ row[n].tries >= MaxDeliveryAttempts,
         UNCHANGED <<accepted, inbox>>, token' \in Nat, good' \in Nat, token' <= good', UNCHANGED void
  PROVE  PostInv'
  <1> DEFINE r == [row[n] EXCEPT !.at = at]
  <1>1. r \in NoteRows /\ r.at = at /\ r.tries = row[n].tries
    BY DEF PostInv, PostShape, NoteRows
  <1>2. Post!Idle \in NoteHands /\ RowFits(n, r, Post!Idle)
    BY <1>1 DEF NoteHands, Post!Idle, RowFits
  <1>3. row' = [row EXCEPT ![n] = r] /\ hand' = [hand EXCEPT ![n] = Post!Idle]
    BY DEF Post!Ends
  <1> HIDE DEF r
  <1> QED
    BY <1>1, <1>2, <1>3, NoteMoves

LEMMA NoteFails ==
  ASSUME PostInv, NEW n \in Notes, Post!Fails(n),
         UNCHANGED <<accepted, inbox>>, token' \in Nat, good' \in Nat, token' <= good', UNCHANGED void
  PROVE  PostInv'
  <1>1. CASE row[n].tries >= MaxDeliveryAttempts
    <2>1. Post!Ends(n, "parked")
      BY <1>1 DEF Post!Fails
    <2> QED
      BY <1>1, <2>1, NoteEnds
  <1>2. CASE ~(row[n].tries >= MaxDeliveryAttempts)
    <2>1. Post!Ends(n, "due")
      BY <1>2 DEF Post!Fails
    <2> QED
      BY <2>1, NoteEnds
  <1> QED
    BY <1>1, <1>2

(* A send tried once more within its attempt.                              *)
LEMMA TriedAgain ==
  ASSUME NEW n \in Notes, hand[n] \in NoteHands, token \in Nat, hand[n].at # "none", RowFits(n, row[n], hand[n])
  PROVE  LET h == [hand[n] EXCEPT !.sends = @ + 1, !.again = FALSE, !.at = Post!First(n), !.token = token]
         IN  h \in NoteHands /\ RowFits(n, row[n], h)
  <1> DEFINE h == [hand[n] EXCEPT !.sends = @ + 1, !.again = FALSE, !.at = Post!First(n), !.token = token]
  <1>1. Post!First(n) \in {"login", "send"} /\ (Post!First(n) = "login" => Channel[n] = "whatsapp")
    BY DEF Post!First
  <1>2. PICK sent : sent = [hand[n] EXCEPT !.sends = @ + 1]
    OBVIOUS
  <1>2a. sent \in NoteHands /\ sent.tickets = hand[n].tickets /\ sent.void = hand[n].void
    BY <1>2 DEF NoteHands
  <1>2b. PICK more : more = [sent EXCEPT !.again = FALSE]
    OBVIOUS
  <1>3. more \in NoteHands /\ more.tickets = sent.tickets /\ more.void = sent.void
    BY <1>2a, <1>2b DEF NoteHands
  <1>4. PICK first : first = Post!First(n)
    OBVIOUS
  <1>5. h = [more EXCEPT !.at = first, !.token = token]
    BY <1>2, <1>2b, <1>4
  <1> HIDE DEF h
  <1>5a. h \in NoteHands /\ h.at = first /\ h.tickets = more.tickets /\ h.void = more.void
    BY <1>1, <1>3, <1>4, <1>5 DEF NoteHands
  <1>6. RowFits(n, row[n], h)
    BY <1>1, <1>2a, <1>3, <1>4, <1>5a DEF RowFits
  <1> QED
    BY <1>5a, <1>6 DEF h

LEMMA NoteMisses ==
  ASSUME PostInv, NEW n \in Notes, hand[n].at # "none", Post!Misses(n),
         UNCHANGED <<accepted, inbox>>, token' \in Nat, good' \in Nat, token' <= good', UNCHANGED void
  PROVE  PostInv'
  <1>1. CASE hand[n].sends < MaxSends
    <2> DEFINE h == [hand[n] EXCEPT !.sends = @ + 1, !.again = FALSE, !.at = Post!First(n), !.token = token]
    <2>0. hand[n] \in NoteHands /\ row[n] \in NoteRows /\ token \in Nat /\ NoteOK(n)
      BY DEF PostInv, PostShape
    <2>2. h \in NoteHands /\ RowFits(n, row[n], h)
      BY <2>0, TriedAgain DEF NoteOK
    <2>4. row[n].at # "done"
      BY <2>0 DEF NoteOK, RowFits
    <2>5. row' = [row EXCEPT ![n] = row[n]] /\ hand' = [hand EXCEPT ![n] = h]
      BY <1>1 DEF Post!Misses, PostInv, PostShape
    <2> HIDE DEF h
    <2> QED
      BY <2>0, <2>2, <2>4, <2>5, NoteMoves
  <1>2. CASE ~(hand[n].sends < MaxSends)
    BY <1>2, NoteFails DEF Post!Misses
  <1> QED
    BY <1>1, <1>2

LEMMA PostEnqueue ==
  ASSUME PostInv, NEW n \in Notes, Post!Enqueue(n)
  PROVE  PostInv'
  <1> DEFINE at == IF Channel[n] \notin Senders \/ Post!Duplicate(n) THEN "declined" ELSE "due"
             r == [row[n] EXCEPT !.at = at]
  <1>0. row[n] \in NoteRows /\ hand[n] \in NoteHands /\ NoteOK(n) /\ row[n].at = "none"
    BY DEF PostInv, PostShape, Post!Enqueue
  <1>1. r \in NoteRows /\ r.at \in {"declined", "due"} /\ r.at # "working" /\ r.at # "parked" /\ r.at # "done"
    BY <1>0 DEF NoteRows
  <1>2. row' = [row EXCEPT ![n] = r] /\ hand' = [hand EXCEPT ![n] = hand[n]]
    BY DEF Post!Enqueue, PostInv, PostShape
  <1>3. UNCHANGED <<accepted, inbox, token, good, void>>
    BY DEF Post!Enqueue
  <1>4. RowFits(n, r, hand[n])
    BY <1>0, <1>1 DEF NoteOK, RowFits
  <1> HIDE DEF r
  <1>5. token' \in Nat /\ good' \in Nat /\ token' <= good'
    BY <1>3 DEF PostInv, PostShape
  <1> QED
    BY <1>0, <1>1, <1>2, <1>3, <1>4, <1>5, NoteMoves

LEMMA PostAttempt ==
  ASSUME PostInv, NEW n \in Notes, NEW tickets \in SUBSET Admissions, tickets \cap void = {}, Post!Attempt(n, tickets)
  PROVE  PostInv'
  <1> DEFINE r == [row[n] EXCEPT !.at = "working", !.tries = @ + 1]
             h == [Post!Idle EXCEPT !.at = Post!First(n), !.sends = 1, !.token = token,
                                    !.tickets = tickets, !.void = void]
  <1>0. row[n] \in NoteRows /\ token \in Nat /\ void \in SUBSET Admissions
    BY DEF PostInv, PostShape
  <1>1. Post!First(n) \in {"login", "send"} /\ (Post!First(n) = "login" => Channel[n] = "whatsapp")
    BY DEF Post!First
  <1>2. r \in NoteRows /\ r.at = "working"
    <2>1. PICK tried : tried = [row[n] EXCEPT !.tries = @ + 1]
      OBVIOUS
    <2>2. tried \in NoteRows
      BY <1>0, <2>1 DEF NoteRows
    <2>3. r = [tried EXCEPT !.at = "working"]
      BY <2>1
    <2> HIDE DEF r
    <2> QED
      BY <2>2, <2>3 DEF NoteRows
  <1>3. h \in NoteHands /\ h.at = Post!First(n) /\ h.tickets = tickets /\ h.void = void
    <2>1. PICK first : first = Post!First(n)
      OBVIOUS
    <2>2. PICK fresh : fresh = Post!Idle
      OBVIOUS
    <2>2z. /\ fresh = [at |-> "none", sends |-> 0, again |-> FALSE, token |-> 0, tickets |-> {}, void |-> {}]
          /\ 0 \in Nat /\ {} \in SUBSET Admissions
      BY <2>2 DEF Post!Idle
    <2>2a. fresh \in NoteHands
      BY <2>2z, ZenonT(30) DEF NoteHands
    <2>2b. PICK begun : begun = [fresh EXCEPT !.at = first, !.sends = 1]
      OBVIOUS
    <2>3. begun \in NoteHands /\ begun.at = first
      BY <1>1, <2>1, <2>2a, <2>2b DEF NoteHands
    <2>4. h = [begun EXCEPT !.token = token, !.tickets = tickets, !.void = void]
      BY <2>1, <2>2, <2>2b
    <2> HIDE DEF h
    <2> QED
      BY <1>0, <2>1, <2>3, <2>4 DEF NoteHands
  <1>4. RowFits(n, r, h)
    BY <1>1, <1>2, <1>3 DEF RowFits
  <1>5. row' = [row EXCEPT ![n] = r] /\ hand' = [hand EXCEPT ![n] = h]
    BY DEF Post!Attempt, PostInv, PostShape
  <1>6. UNCHANGED <<accepted, inbox, token, good, void>>
    BY DEF Post!Attempt
  <1> HIDE DEF r, h
  <1>7. token' \in Nat /\ good' \in Nat /\ token' <= good'
    BY <1>6 DEF PostInv, PostShape
  <1> QED
    BY <1>2, <1>3, <1>4, <1>5, <1>6, <1>7, NoteMoves

LEMMA PostDeliver ==
  ASSUME PostInv, NEW n \in Notes, Post!Deliver(n) \/ Post!DeliverBare(n)
  PROVE  PostInv'
  <1>1. Post!ForReceipt \in SUBSET Admissions /\ Post!ForReceipt \cap void = {}
    BY DEF Post!ForReceipt
  <1>2. CASE Post!Deliver(n)
    <2>1. PICK tickets \in {Post!ForReceipt, {}} : Post!Attempt(n, tickets)
      BY <1>2 DEF Post!Deliver
    <2> QED
      BY <1>1, <2>1, PostAttempt
  <1>3. CASE Post!DeliverBare(n)
    <2>1. Post!Attempt(n, {})
      BY <1>3 DEF Post!DeliverBare
    <2> QED
      BY <2>1, PostAttempt
  <1> QED
    BY <1>2, <1>3

LEMMA PostLogin ==
  ASSUME PostInv, NEW n \in Notes, Post!Login(n)
  PROVE  PostInv'
  <1>0. row[n] \in NoteRows /\ hand[n] \in NoteHands /\ NoteOK(n) /\ token \in Nat /\ good \in Nat /\ token <= good
    BY DEF PostInv, PostShape
  <1>1. hand[n].at = "login" /\ UNCHANGED <<accepted, inbox, good, void>>
    BY DEF Post!Login
  <1>2. Channel[n] = "whatsapp" /\ row[n].at = "working"
    BY <1>0, <1>1 DEF NoteOK, RowFits
  <1>3. CASE token' = good /\ hand' = [hand EXCEPT ![n].at = "send", ![n].token = good] /\ UNCHANGED row
    <2> DEFINE h == [hand[n] EXCEPT !.at = "send", !.token = good]
    <2>1. h \in NoteHands /\ h.at = "send" /\ h.tickets = hand[n].tickets /\ h.void = hand[n].void
      BY <1>0 DEF NoteHands
    <2>2. RowFits(n, row[n], h)
      BY <1>0, <1>2, <2>1 DEF NoteOK, RowFits
    <2>3. row' = [row EXCEPT ![n] = row[n]] /\ hand' = [hand EXCEPT ![n] = h]
      BY <1>3 DEF PostInv, PostShape
    <2> HIDE DEF h
    <2>4. token' \in Nat /\ good' \in Nat /\ token' <= good'
      BY <1>0, <1>1, <1>3
    <2> QED
      BY <1>0, <1>1, <1>2, <2>1, <2>2, <2>3, <2>4, NoteMoves
  <1>4. CASE Post!Misses(n) /\ UNCHANGED token
    <2>1. token' \in Nat /\ good' \in Nat /\ token' <= good'
      BY <1>0, <1>1, <1>4
    <2> QED
      BY <1>1, <1>4, <2>1, NoteMisses
  <1>5. CASE Post!Ends(n, "parked") /\ UNCHANGED token
    <2>1. token' \in Nat /\ good' \in Nat /\ token' <= good'
      BY <1>0, <1>1, <1>5
    <2> QED
      BY <1>1, <1>2, <1>5, <2>1, NoteEnds
  <1> QED
    BY <1>3, <1>4, <1>5 DEF Post!Login

LEMMA PostUnauthorized ==
  ASSUME PostInv, NEW n \in Notes, Post!Unauthorized(n)
  PROVE  PostInv'
  <1>0. row[n] \in NoteRows /\ hand[n] \in NoteHands /\ NoteOK(n)
    BY DEF PostInv, PostShape
  <1>1. hand[n].at = "send" /\ Channel[n] = "whatsapp" /\ UNCHANGED <<accepted, inbox, token, good, void>>
    BY DEF Post!Unauthorized, Post!LetIn
  <1>2. token' \in Nat /\ good' \in Nat /\ token' <= good'
    BY <1>1 DEF PostInv, PostShape
  <1>3. CASE hand[n].again
    BY <1>1, <1>2, <1>3, NoteMisses DEF Post!Unauthorized
  <1>4. CASE ~hand[n].again
    <2> DEFINE h == [hand[n] EXCEPT !.at = "login", !.again = TRUE]
    <2>1. h \in NoteHands /\ h.at = "login" /\ h.tickets = hand[n].tickets /\ h.void = hand[n].void
      BY <1>0 DEF NoteHands
    <2>2. RowFits(n, row[n], h) /\ row[n].at # "done"
      BY <1>0, <1>1, <2>1 DEF NoteOK, RowFits
    <2>3. row' = [row EXCEPT ![n] = row[n]] /\ hand' = [hand EXCEPT ![n] = h]
      BY <1>4 DEF Post!Unauthorized, PostInv, PostShape
    <2> HIDE DEF h
    <2> QED
      BY <1>0, <1>1, <1>2, <2>1, <2>2, <2>3, NoteMoves
  <1> QED
    BY <1>3, <1>4

(* A key is taken once.  Whoever took it has the message.                  *)
LEMMA PostAccepts ==
  ASSUME PostInv, NEW n \in Notes, Post!Accepts(n)
  PROVE  /\ accepted' \in [Post!Keys -> Notes \cup {idle}] /\ inbox' \in [Notes -> Letters]
         /\ accepted'[KeyOf[n]] # idle
         /\ \A m \in Notes : accepted[KeyOf[m]] # idle => accepted'[KeyOf[m]] # idle
         /\ \A m \in Notes : ReadFits(m, accepted'[KeyOf[m]], inbox'[m])
  <1>0. hand[n] \in NoteHands /\ inbox[n] \in Letters /\ NoteOK(n) /\ KeyOf[n] \in Post!Keys /\ n # idle
    BY BackstageAssumption DEF PostInv, PostShape, Post!Keys, Post!NoticesAssumption
  <1>1. \A m \in Notes : KeyOf[m] \in Post!Keys
    BY DEF Post!Keys
  <1>2. CASE Post!New(n)
    <2> DEFINE i == [times |-> inbox[n].times + 1, tickets |-> hand[n].tickets, void |-> hand[n].void]
    <2>1. accepted' = [accepted EXCEPT ![KeyOf[n]] = n] /\ inbox' = [inbox EXCEPT ![n] = i]
      BY <1>2 DEF Post!Accepts
    <2>2. i \in Letters /\ i.times = inbox[n].times + 1 /\ i.tickets \cap i.void = {}
      BY <1>0 DEF Letters, NoteHands, NoteOK, RowFits
    <2>3. inbox[n].times = 0
      BY <1>0, <1>2 DEF NoteOK, ReadFits, Post!New
    <2> HIDE DEF i
    <2>4. inbox'[n] = i /\ accepted'[KeyOf[n]] = n
      BY <1>0, <2>1 DEF PostInv, PostShape
    <2>5. ReadFits(n, accepted'[KeyOf[n]], inbox'[n])
      BY <2>2, <2>3, <2>4 DEF ReadFits
    <2>6. ASSUME NEW m \in Notes, m # n PROVE ReadFits(m, accepted'[KeyOf[m]], inbox'[m])
      <3>1. inbox'[m] = inbox[m] /\ NoteOK(m)
        BY <2>1, <2>6 DEF PostInv, PostShape
      <3>2. CASE KeyOf[m] = KeyOf[n]
        <4>1. accepted[KeyOf[m]] # m /\ accepted'[KeyOf[m]] # m
          BY <1>2, <2>4, <2>6, <3>2, BackstageAssumption DEF Post!New, Post!NoticesAssumption
        <4> QED
          BY <3>1, <4>1 DEF NoteOK, ReadFits
      <3>3. CASE KeyOf[m] # KeyOf[n]
        <4>1. accepted'[KeyOf[m]] = accepted[KeyOf[m]]
          BY <1>1, <2>1, <3>3 DEF PostInv, PostShape
        <4> QED
          BY <3>1, <4>1 DEF NoteOK
      <3> QED
        BY <3>2, <3>3
    <2> QED
      BY <1>0, <1>1, <2>1, <2>2, <2>4, <2>5, <2>6 DEF PostInv, PostShape
  <1>3. CASE ~Post!New(n)
    BY <1>0, <1>3 DEF Post!Accepts, Post!New, PostInv, PostShape, NoteOK
  <1> QED
    BY <1>2, <1>3

LEMMA PostSends ==
  ASSUME PostInv, NEW n \in Notes, Post!Send(n) \/ Post!SendUnanswered(n)
  PROVE  PostInv'
  <1>0. Post!Accepts(n) /\ UNCHANGED <<token, good, void>>
    BY DEF Post!Send, Post!SendUnanswered, Post!Accepts
  <1>1. /\ accepted' \in [Post!Keys -> Notes \cup {idle}] /\ inbox' \in [Notes -> Letters]
        /\ accepted'[KeyOf[n]] # idle
        /\ \A m \in Notes : accepted[KeyOf[m]] # idle => accepted'[KeyOf[m]] # idle
        /\ \A m \in Notes : ReadFits(m, accepted'[KeyOf[m]], inbox'[m])
    BY <1>0, PostAccepts
  <1>2. hand[n].at = "send" /\ row[n] \in NoteRows /\ hand[n] \in NoteHands /\ NoteOK(n)
    BY <1>0 DEF Post!Accepts, PostInv, PostShape
  <1>3. ASSUME NEW r \in NoteRows, NEW h \in NoteHands, RowFits(n, r, h),
               row' = [row EXCEPT ![n] = r], hand' = [hand EXCEPT ![n] = h]
        PROVE  PostInv'
    <2>1. PostShape'
      BY <1>0, <1>1, <1>3 DEF PostInv, PostShape
    <2>2. row'[n] = r /\ hand'[n] = h /\ \A m \in Notes : m # n => row'[m] = row[m] /\ hand'[m] = hand[m]
      BY <1>3 DEF PostInv, PostShape
    <2>3. ASSUME NEW m \in Notes PROVE NoteOK(m)'
      BY <1>1, <1>3, <2>2 DEF PostInv, NoteOK
    <2> QED
      BY <2>1, <2>3 DEF PostInv
  <1>4. ASSUME NEW at \in {"due", "done", "parked"}, Post!Ends(n, at),
               at = "parked" => Channel[n] # "email" \/ row[n].tries >= MaxDeliveryAttempts
        PROVE  PostInv'
    <2> DEFINE r == [row[n] EXCEPT !.at = at]
    <2>1. r \in NoteRows /\ r.at = at /\ r.tries = row[n].tries
      BY <1>2, <1>4 DEF NoteRows
    <2>2. Post!Idle \in NoteHands /\ RowFits(n, r, Post!Idle)
      BY <1>4, <2>1 DEF NoteHands, Post!Idle, RowFits
    <2>3. row' = [row EXCEPT ![n] = r] /\ hand' = [hand EXCEPT ![n] = Post!Idle]
      BY <1>4 DEF Post!Ends
    <2> HIDE DEF r
    <2> QED
      BY <1>3, <2>1, <2>2, <2>3
  <1>5. CASE Post!Send(n)
    BY <1>4, <1>5 DEF Post!Send
  <1>6. CASE Post!SendUnanswered(n) /\ hand[n].sends < MaxSends
    <2> DEFINE h == [hand[n] EXCEPT !.sends = @ + 1, !.again = FALSE, !.at = Post!First(n), !.token = token]
    <2>1. row' = [row EXCEPT ![n] = row[n]] /\ hand' = [hand EXCEPT ![n] = h]
      BY <1>6 DEF Post!SendUnanswered, Post!Misses, PostInv, PostShape
    <2>2. h \in NoteHands /\ RowFits(n, row[n], h)
      BY <1>2, TriedAgain DEF NoteOK, PostInv, PostShape
    <2> HIDE DEF h
    <2> QED
      BY <1>2, <1>3, <2>1, <2>2
  <1>7. CASE Post!SendUnanswered(n) /\ ~(hand[n].sends < MaxSends)
    <2>1. Post!Fails(n)
      BY <1>7 DEF Post!SendUnanswered, Post!Misses
    <2>2. CASE row[n].tries >= MaxDeliveryAttempts
      BY <1>4, <2>1, <2>2 DEF Post!Fails
    <2>3. CASE ~(row[n].tries >= MaxDeliveryAttempts)
      BY <1>4, <2>1, <2>3 DEF Post!Fails
    <2> QED
      BY <2>2, <2>3
  <1> QED
    BY <1>5, <1>6, <1>7

LEMMA PostGoesWrong ==
  ASSUME PostInv, NEW n \in Notes, Post!SendLost(n) \/ Post!SendRefused(n) \/ Post!Crash(n)
  PROVE  PostInv'
  <1>0. row[n] \in NoteRows /\ hand[n] \in NoteHands /\ NoteOK(n)
    BY DEF PostInv, PostShape
  <1>1. UNCHANGED <<accepted, inbox, token, good, void>>
    BY DEF Post!SendLost, Post!SendRefused, Post!Crash
  <1>2. token' \in Nat /\ good' \in Nat /\ token' <= good'
    BY <1>1 DEF PostInv, PostShape
  <1>3. CASE Post!SendLost(n)
    BY <1>1, <1>2, <1>3, NoteMisses DEF Post!SendLost
  <1>4. CASE Post!SendRefused(n) /\ Channel[n] = "whatsapp"
    <2>1. Post!Ends(n, "parked")
      BY <1>4 DEF Post!SendRefused
    <2> QED
      BY <1>1, <1>2, <1>4, <2>1, NoteEnds
  <1>5. CASE Post!SendRefused(n) /\ Channel[n] # "whatsapp"
    BY <1>1, <1>2, <1>5, NoteFails DEF Post!SendRefused
  <1>6. CASE Post!Crash(n)
    <2>1. Post!Ends(n, "due")
      BY <1>6 DEF Post!Crash
    <2> QED
      BY <1>1, <1>2, <2>1, NoteEnds
  <1> QED
    BY <1>3, <1>4, <1>5, <1>6

LEMMA PostKept ==
  ASSUME PostInv, [Post!Next]_postVars
  PROVE  PostInv'
  <1>1. ASSUME NEW n \in Notes, Post!Enqueue(n) \/ Post!Deliver(n) \/ Post!DeliverBare(n) \/ Post!Login(n)
                                \/ Post!Unauthorized(n) \/ Post!Send(n) \/ Post!SendUnanswered(n)
                                \/ Post!SendLost(n) \/ Post!SendRefused(n) \/ Post!Crash(n)
        PROVE  PostInv'
    BY <1>1, PostEnqueue, PostDeliver, PostLogin, PostUnauthorized, PostSends, PostGoesWrong
  <1>2. CASE Post!TokenExpires
    BY <1>2 DEF Post!TokenExpires, PostInv, PostShape, NoteOK
  <1>3. CASE Post!VoidForOrder
    BY <1>3 DEF Post!VoidForOrder, PostInv, PostShape, NoteOK
  <1>4. CASE UNCHANGED postVars
    BY <1>4 DEF postVars, PostInv, PostShape, NoteOK, Post!Keys
  <1> QED
    BY <1>1, <1>2, <1>3, <1>4 DEF Post!Next

LEMMA PostSafe == PostInv => Post!TypeOK /\ Post!NoticesSound
  <1> SUFFICES ASSUME PostInv PROVE Post!TypeOK /\ Post!NoticesSound
    OBVIOUS
  <1>1. Post!TypeOK
    BY DEF PostInv, PostShape, NoteRows, NoteOK, RowFits, Post!TypeOK
  <1>2. Post!OneMessage /\ Post!NoVoidTicketSent
    BY DEF PostInv, NoteOK, ReadFits, Post!OneMessage, Post!NoVoidTicketSent
  <1>3. Post!SentIsReceived
    BY DEF PostInv, NoteOK, ReadFits, Post!SentIsReceived
  <1>4. Post!MailIsPatient
    BY DEF PostInv, NoteOK, RowFits, Post!MailIsPatient
  <1> QED
    BY <1>1, <1>2, <1>3, <1>4 DEF Post!NoticesSound

-----------------------------------------------------------------------------
(* The broker.  What a process has in hand came over the one connection    *)
(* its consumer is on; a connection just dialled carries nothing yet; what *)
(* the broker stored is queued, in a hand it will take it back from, or    *)
(* handled; and a job that is marked has its delivery, its poller, or no   *)
(* time left.                                                              *)
HandsTogether ==
    /\ \A h \in parcels : h.on = consume.on
    /\ consume.at \notin {"consumes", "drains"} => parcels = {}
    /\ IsFiniteSet(parcels) /\ Cardinality(parcels) <= Prefetch
NewLineUnused ==
    watch.at = "declares" =>
        watch.on # 0 /\ watch.on # broker /\ watch.on # consume.on /\ \A h \in parcels : h.on # watch.on
Owed(m) == \E h \in parcels : h.message = m /\ h.on \in open
Kept(m) == m \in work \/ m \in dead \/ m \in handled \/ Owed(m)
StoredIsKept == \A m \in Messages : published[m].at \in {"stored", "confirmed"} => Kept(m)
MarksExplained ==
    /\ \A h \in parcels : delivered[h.message] > 0 /\ (h.stage = "handled" => h.message \in handled)
    /\ \A m \in Messages : chore[m] = "processing" => m \in polled \/ delivered[m] > 0 \/ spent
    /\ process \in {"up", "stopping"} => ~spent
    /\ process \notin {"up", "stopping"} /\ ~spent => polled = {}
WireInv == Wire!TypeOK /\ HandsTogether /\ NewLineUnused /\ StoredIsKept /\ MarksExplained

LEMMA WireStarts == Wire!Init => WireInv
  <1> SUFFICES ASSUME Wire!Init PROVE WireInv
    OBVIOUS
  <1>1. Wire!TypeOK
    <2>1. dials \in 1..MaxConnections /\ broker \in 0..dials /\ open \subseteq 1..dials /\ 0 \in 0..dials
      BY BackstageAssumption DEF Wire!Init, Wire!BrokerAssumption
    <2>2. delivered \in [Messages -> 0..MaxDeliveries] /\ chore \in [Messages -> {"pending", "processing", "done"}]
      BY BackstageAssumption DEF Wire!Init, Wire!BrokerAssumption
    <2>3. Wire!Idle \in [at : {"none", "dispatched", "sent", "stored", "confirmed", "lost"}, on : 0..dials]
      BY <2>1 DEF Wire!Idle
    <2>4. published \in [Messages -> [at : {"none", "dispatched", "sent", "stored", "confirmed", "lost"}, on : 0..dials]]
      BY <2>3 DEF Wire!Init
    <2>5. /\ watch \in [at : {"starts", "listens", "sleeps", "declares", "gone"}, on : 0..dials]
          /\ consume \in [at : {"starts", "pauses", "consumes", "drains", "over"}, on : 0..dials]
      BY <2>1 DEF Wire!Init
    <2>6. /\ process \in {"up", "stopping", "disconnected", "closed", "gone"} /\ spent \in BOOLEAN
          /\ spoiled \subseteq Messages /\ work = {} /\ dead = {} /\ handled = {} /\ polled = {} /\ parcels = {}
      BY DEF Wire!Init
    <2> QED
      BY <2>1, <2>2, <2>4, <2>5, <2>6 DEF Wire!TypeOK
  <1>2. HandsTogether
    BY FS_EmptySet, BackstageAssumption DEF HandsTogether, Wire!Init, Wire!BrokerAssumption
  <1>3. NewLineUnused
    BY DEF NewLineUnused, Wire!Init
  <1>4. StoredIsKept
    BY DEF StoredIsKept, Wire!Init, Wire!Idle
  <1>5. MarksExplained
    BY DEF MarksExplained, Wire!Init
  <1> QED
    BY <1>1, <1>2, <1>3, <1>4, <1>5 DEF WireInv

(* A step of the publications, which leaves the consumer alone.            *)
LEMMA WirePublishes ==
  ASSUME WireInv, NEW m \in Messages,
         \/ Wire!Dispatch(m) \/ Wire!Publish(m) \/ Wire!Stores(m) \/ Wire!Confirmed(m) \/ Wire!Unconfirmed(m)
  PROVE  WireInv'
  <1>0. /\ UNCHANGED <<open, dials, broker, watch, dead, consume, parcels, delivered, chore, handled>>
        /\ UNCHANGED <<spoiled, polled, process, spent>>
    BY DEF Wire!Dispatch, Wire!Publish, Wire!Stores, Wire!Confirmed, Wire!Unconfirmed, Wire!life
  <1>1. /\ work \subseteq work' /\ work' \subseteq Messages
        /\ \E at \in {"none", "dispatched", "sent", "stored", "confirmed", "lost"}, on \in 0..dials :
              /\ published' = [published EXCEPT ![m] = [at |-> at, on |-> on]]
              /\ at = "stored" => m \in work'
              /\ at = "confirmed" => published[m].at = "stored"
    BY DEF WireInv, Wire!TypeOK, Wire!Dispatch, Wire!Publish, Wire!Stores, Wire!Confirmed, Wire!Unconfirmed,
           Wire!Goes, Wire!At
  <1>2. Wire!TypeOK'
    BY <1>0, <1>1 DEF WireInv, Wire!TypeOK
  <1>3. HandsTogether' /\ NewLineUnused' /\ MarksExplained'
    BY <1>0 DEF WireInv, HandsTogether, NewLineUnused, MarksExplained
  <1>4. StoredIsKept'
    BY <1>0, <1>1 DEF WireInv, Wire!TypeOK, StoredIsKept, Kept, Owed
  <1> QED
    BY <1>2, <1>3, <1>4 DEF WireInv

LEMMA WireConnects ==
  ASSUME WireInv,
         \/ (\E c \in open : Wire!ConnectionLost(c)) \/ Wire!WatchStarts \/ Wire!HearsClose \/ Wire!Wakes
         \/ Wire!Dials \/ Wire!connect
  PROVE  WireInv'
  <1>0. /\ UNCHANGED <<published, dead, consume, parcels, delivered, chore, handled>>
        /\ UNCHANGED <<spoiled, polled, process, spent>>
    BY DEF Wire!ConnectionLost, Wire!WatchStarts, Wire!HearsClose, Wire!Wakes, Wire!Dials, Wire!connect, Wire!life
  <1>1. HandsTogether' /\ MarksExplained'
    BY <1>0 DEF WireInv, HandsTogether, MarksExplained
  <1>2. CASE \E c \in open : Wire!ConnectionLost(c)
    <2>1. Wire!TypeOK'
      BY <1>0, <1>2 DEF WireInv, Wire!TypeOK, Wire!ConnectionLost, Wire!Given
    <2>2. NewLineUnused'
      BY <1>0, <1>2 DEF WireInv, NewLineUnused, Wire!ConnectionLost
    <2>3. ASSUME NEW m \in Messages, Kept(m) PROVE Kept(m)'
      BY <1>0, <1>2, <2>3 DEF Kept, Owed, Wire!ConnectionLost, Wire!Given
    <2> QED
      BY <1>0, <1>1, <2>1, <2>2, <2>3 DEF WireInv, StoredIsKept
  <1>3. CASE Wire!WatchStarts \/ Wire!HearsClose \/ Wire!Wakes
    <2>1. UNCHANGED <<open, dials, broker, work>> /\ watch'.at # "declares"
      BY <1>3 DEF Wire!WatchStarts, Wire!HearsClose, Wire!Wakes, Wire!Watches
    <2>2. Wire!TypeOK'
      <3>1. watch' \in [at : {"starts", "listens", "sleeps", "declares", "gone"}, on : 0..dials]
        <4>1. 0 \in 0..dials /\ broker \in 0..dials
          BY DEF WireInv, Wire!TypeOK
        <4>2. PICK at \in {"gone", "listens", "sleeps"}, on \in 0..dials : watch' = [at |-> at, on |-> on]
          BY <1>3, <4>1 DEF Wire!WatchStarts, Wire!HearsClose, Wire!Wakes, Wire!Watches
        <4> QED
          BY <4>2
      <3> QED
        BY <1>0, <2>1, <3>1 DEF WireInv, Wire!TypeOK
    <2>3. NewLineUnused' /\ StoredIsKept'
      BY <1>0, <2>1 DEF WireInv, NewLineUnused, StoredIsKept, Kept, Owed
    <2> QED
      BY <1>1, <2>2, <2>3 DEF WireInv
  <1>4. CASE Wire!Dials
    <2>1. Wire!TypeOK'
      BY <1>0, <1>4, BackstageAssumption DEF WireInv, Wire!TypeOK, Wire!Dials, Wire!Watches, Wire!BrokerAssumption
    <2>2. NewLineUnused'
      BY <1>0, <1>4 DEF WireInv, Wire!TypeOK, NewLineUnused, Wire!Dials, Wire!Watches
    <2>3. StoredIsKept'
      BY <1>0, <1>4 DEF WireInv, StoredIsKept, Kept, Owed, Wire!Dials
    <2> QED
      BY <1>1, <2>1, <2>2, <2>3 DEF WireInv
  <1>5. CASE Wire!connect
    <2>1. Wire!TypeOK'
      <3>1. 0 \in 0..dials /\ watch.on \in 0..dials /\ open' \subseteq open /\ dials' = dials /\ work' = work
        BY <1>5 DEF WireInv, Wire!TypeOK, Wire!connect
      <3>2. watch' \in [at : {"starts", "listens", "sleeps", "declares", "gone"}, on : 0..dials]
        BY <1>5, <3>1 DEF Wire!connect, Wire!Watches
      <3>3. broker' \in 0..dials
        BY <1>5, <3>1 DEF WireInv, Wire!TypeOK, Wire!connect
      <3> QED
        BY <1>0, <3>1, <3>2, <3>3 DEF WireInv, Wire!TypeOK
    <2>2. NewLineUnused'
      BY <1>0, <1>5 DEF NewLineUnused, Wire!connect, Wire!Watches
    <2>3. StoredIsKept'
      BY <1>0, <1>5 DEF WireInv, NewLineUnused, StoredIsKept, Kept, Owed, Wire!connect
    <2> QED
      BY <1>1, <2>1, <2>2, <2>3 DEF WireInv
  <1> QED
    BY <1>2, <1>3, <1>4, <1>5

LEMMA WireConsumes ==
  ASSUME WireInv, Wire!Consume \/ Wire!Pause \/ Wire!Leave
  PROVE  WireInv'
  <1>0. /\ UNCHANGED <<open, dials, broker, watch, published, work, dead, parcels, delivered, chore, handled>>
        /\ UNCHANGED <<spoiled, polled, process, spent>>
    BY DEF Wire!Consume, Wire!Pause, Wire!Leave, Wire!life
  <1>1. Wire!TypeOK'
    BY <1>0 DEF WireInv, Wire!TypeOK, Wire!Consume, Wire!Pause, Wire!Leave, Wire!Consumer
  <1>2. HandsTogether'
    BY <1>0 DEF WireInv, HandsTogether, Wire!Consume, Wire!Pause, Wire!Leave, Wire!Consumer
  <1>3. NewLineUnused'
    BY <1>0 DEF WireInv, Wire!TypeOK, NewLineUnused, Wire!Consume, Wire!Pause, Wire!Leave, Wire!Consumer
  <1>4. StoredIsKept' /\ MarksExplained'
    BY <1>0 DEF WireInv, StoredIsKept, Kept, Owed, MarksExplained
  <1> QED
    BY <1>1, <1>2, <1>3, <1>4 DEF WireInv

LEMMA WireReturns ==
  ASSUME WireInv, Wire!Return
  PROVE  WireInv'
  <1>0. /\ UNCHANGED <<open, dials, broker, watch, published, dead, delivered, chore, handled>>
        /\ UNCHANGED <<spoiled, polled, process, spent>>
    BY DEF Wire!Return, Wire!life
  <1>1. parcels' = {}
    BY DEF Wire!Return, WireInv, HandsTogether, Wire!Unacked
  <1>2. work' = work \cup {h.message : h \in {h \in parcels : h.on \in open}}
    BY DEF Wire!Return, WireInv, HandsTogether, Wire!Unacked
  <1>3. consume' \in [at : {"starts", "pauses", "consumes", "drains", "over"}, on : 0..dials]
        /\ consume'.at \notin {"consumes", "drains"} /\ consume'.on = 0
    <2>1. 0 \in 0..dials
      BY DEF WireInv, Wire!TypeOK
    <2> QED
      BY <2>1 DEF Wire!Return, Wire!Consumer
  <1>4. Wire!TypeOK'
    BY <1>0, <1>1, <1>2, <1>3 DEF WireInv, Wire!TypeOK
  <1>5. HandsTogether'
    BY <1>1, <1>3, FS_EmptySet, BackstageAssumption DEF HandsTogether, Wire!BrokerAssumption
  <1>6. NewLineUnused' /\ MarksExplained'
    BY <1>0, <1>1, <1>3 DEF WireInv, NewLineUnused, MarksExplained
  <1>7. StoredIsKept'
    BY <1>0, <1>2 DEF WireInv, StoredIsKept, Kept, Owed
  <1> QED
    BY <1>4, <1>5, <1>6, <1>7 DEF WireInv

Parcels == [message : Messages, on : 1..dials, stage : {"pushed", "runs", "handled"}]
LEMMA WireDelivers ==
  ASSUME WireInv, NEW m \in Messages, Wire!Delivers(m)
  PROVE  WireInv'
  <1> DEFINE d == [message |-> m, on |-> consume.on, stage |-> "pushed"]
  <1>0. /\ UNCHANGED <<open, dials, broker, watch, published, dead, consume, chore, handled>>
        /\ UNCHANGED <<spoiled, polled, process, spent>>
    BY DEF Wire!Delivers, Wire!life
  <1>1. /\ work' = work \ {m} /\ parcels' = parcels \cup {d}
        /\ consume.at \in {"consumes", "drains"} /\ consume.on \in open
    BY DEF Wire!Delivers
  <1>2. d.message = m /\ d.on = consume.on /\ d.stage = "pushed" /\ d \in Parcels
    BY <1>1 DEF WireInv, Wire!TypeOK, Parcels
  <1>3. delivered' \in [Messages -> 0..MaxDeliveries] /\ delivered'[m] > 0
        /\ \A n \in Messages : delivered[n] > 0 => delivered'[n] > 0
    BY BackstageAssumption DEF WireInv, Wire!TypeOK, Wire!Delivers, Wire!BrokerAssumption
  <1> HIDE DEF d
  <1>4. Wire!TypeOK'
    BY <1>0, <1>1, <1>2, <1>3 DEF WireInv, Wire!TypeOK, Parcels
  <1>5. HandsTogether'
    <2>1. Wire!Unacked(consume.on) = parcels
      BY DEF Wire!Unacked, WireInv, HandsTogether
    <2>2. IsFiniteSet(parcels) /\ Cardinality(parcels) < Prefetch
      BY <2>1, CountedAlike DEF Wire!Delivers, WireInv, HandsTogether
    <2>3. IsFiniteSet(parcels') /\ Cardinality(parcels') <= Prefetch
      <3>1. /\ IsFiniteSet(parcels \cup {d})
            /\ Cardinality(parcels \cup {d}) = Cardinality(parcels) \/ Cardinality(parcels \cup {d}) = Cardinality(parcels) + 1
        BY <2>2, FS_AddElement
      <3>2. Cardinality(parcels) \in Nat
        BY <2>2, FS_CardinalityType
      <3> QED
        BY <1>1, <2>2, <3>1, <3>2, BackstageAssumption DEF Wire!BrokerAssumption
    <2> QED
      BY <1>0, <1>1, <1>2, <2>3 DEF WireInv, HandsTogether
  <1>6. NewLineUnused'
    BY <1>0, <1>1, <1>2 DEF WireInv, NewLineUnused
  <1>7. StoredIsKept'
    BY <1>0, <1>1, <1>2 DEF WireInv, StoredIsKept, Kept, Owed
  <1>8. MarksExplained'
    <2>1. \A h \in parcels : h.message \in Messages
      BY DEF WireInv, Wire!TypeOK
    <2> QED
      BY <1>0, <1>1, <1>2, <1>3, <2>1 DEF WireInv, MarksExplained
  <1> QED
    BY <1>4, <1>5, <1>6, <1>7, <1>8 DEF WireInv

(* One delivery leaves the hand or goes on in it.                          *)
LEMMA HandsLeave ==
  ASSUME WireInv, NEW h \in parcels, NEW rest, parcels' = (parcels \ {h}) \cup rest,
         rest = {} \/ \E g \in Parcels : rest = {g} /\ g.on = h.on /\ g.message = h.message,
         UNCHANGED consume
  PROVE  HandsTogether'
  <1>1. IsFiniteSet(parcels \ {h}) /\ Cardinality(parcels \ {h}) = Cardinality(parcels) - 1
        /\ Cardinality(parcels) \in Nat
    BY FS_RemoveElement, FS_CardinalityType DEF WireInv, HandsTogether
  <1>2. IsFiniteSet(parcels') /\ Cardinality(parcels') <= Prefetch
    <2>1. CASE rest = {}
      BY <1>1, <2>1, BackstageAssumption DEF WireInv, HandsTogether, Wire!BrokerAssumption
    <2>2. CASE \E g \in Parcels : rest = {g}
      BY <1>1, <2>2, FS_AddElement, FS_CardinalityType, BackstageAssumption, SMTT(30) DEF WireInv, HandsTogether, Wire!BrokerAssumption
    <2> QED
      BY <2>1, <2>2
  <1> QED
    BY <1>2 DEF WireInv, HandsTogether

LEMMA WireMovesOn ==
  ASSUME WireInv, NEW h \in parcels, NEW stage \in {"runs", "handled"}, Wire!Moves(h, stage)
  PROVE  /\ HandsTogether' \/ ~UNCHANGED consume
         /\ parcels' \subseteq Parcels
         /\ \A g \in parcels' : g \in parcels \/ (g.message = h.message /\ g.on = h.on /\ g.stage = stage)
         /\ \A g \in parcels : \E f \in parcels' : f.message = g.message /\ f.on = g.on
  <1>1. h \in Parcels
    BY DEF WireInv, Wire!TypeOK, Parcels
  <1>2. PICK g : g = [h EXCEPT !.stage = stage]
    OBVIOUS
  <1>3. g \in Parcels /\ g.message = h.message /\ g.on = h.on /\ g.stage = stage
    BY <1>1, <1>2 DEF Parcels
  <1>4. parcels' = (parcels \ {h}) \cup {g}
    BY <1>2 DEF Wire!Moves
  <1>5. parcels' \subseteq Parcels
    BY <1>3, <1>4 DEF WireInv, Wire!TypeOK, Parcels
  <1>6. HandsTogether' \/ ~UNCHANGED consume
    BY <1>3, <1>4, HandsLeave
  <1> QED
    BY <1>3, <1>4, <1>5, <1>6

LEMMA WireTakes ==
  ASSUME WireInv, NEW h \in parcels, Wire!Take(h)
  PROVE  WireInv'
  <1>0. /\ UNCHANGED <<open, dials, broker, watch, published, work, consume, delivered>>
        /\ UNCHANGED <<spoiled, polled, process, spent>>
    BY DEF Wire!Take, Wire!life
  <1>1. h \in Parcels /\ h.message \in Messages /\ h.on = consume.on
    BY DEF WireInv, Wire!TypeOK, Parcels, HandsTogether
  <1>2. CASE h.message \in spoiled
    <2>1. parcels' = parcels \ {h} /\ UNCHANGED <<chore, handled>>
          /\ dead' = IF h.on \in open THEN dead \cup {h.message} ELSE dead
      BY <1>2 DEF Wire!Take
    <2>2. Wire!TypeOK'
      BY <1>0, <1>1, <2>1 DEF WireInv, Wire!TypeOK
    <2>3. HandsTogether'
      BY <1>0, <2>1, HandsLeave
    <2>4. NewLineUnused' /\ MarksExplained'
      BY <1>0, <2>1 DEF WireInv, NewLineUnused, MarksExplained
    <2>5. StoredIsKept'
      BY <1>0, <2>1 DEF WireInv, StoredIsKept, Kept, Owed
    <2> QED
      BY <2>2, <2>3, <2>4, <2>5 DEF WireInv
  <1>3. CASE h.message \notin spoiled
    <2>1. PICK stage \in {"runs", "handled"} :
            /\ Wire!Moves(h, stage) /\ UNCHANGED dead
            /\ stage = "runs" => chore' = [chore EXCEPT ![h.message] = "processing"] /\ handled' = handled
            /\ stage = "handled" => chore' = chore /\ handled' = handled \cup {h.message}
      BY <1>3 DEF Wire!Take
    <2>2. /\ HandsTogether'
          /\ parcels' \subseteq Parcels
          /\ \A g \in parcels' : g \in parcels \/ (g.message = h.message /\ g.on = h.on /\ g.stage = stage)
          /\ \A g \in parcels : \E f \in parcels' : f.message = g.message /\ f.on = g.on
      BY <1>0, <2>1, WireMovesOn
    <2>3. Wire!TypeOK'
      BY <1>0, <1>1, <2>1, <2>2, ZenonT(60) DEF WireInv, Wire!TypeOK, Parcels
    <2>4. NewLineUnused'
      BY <1>0, <2>2 DEF WireInv, NewLineUnused
    <2>5. StoredIsKept'
      BY <1>0, <2>1, <2>2 DEF WireInv, StoredIsKept, Kept, Owed
    <2>6. MarksExplained'
      BY <1>0, <1>1, <2>1, <2>2 DEF WireInv, Wire!TypeOK, MarksExplained
    <2> QED
      BY <2>2, <2>3, <2>4, <2>5, <2>6 DEF WireInv
  <1> QED
    BY <1>2, <1>3

LEMMA WireEnds ==
  ASSUME WireInv, NEW h \in parcels, Wire!Run(h) \/ Wire!Ack(h)
  PROVE  WireInv'
  <1>0. /\ UNCHANGED <<open, dials, broker, watch, published, work, dead, consume, delivered>>
        /\ UNCHANGED <<spoiled, polled, process, spent>>
    BY DEF Wire!Run, Wire!Ack, Wire!life
  <1>1. h \in Parcels /\ h.message \in Messages
    BY DEF WireInv, Wire!TypeOK, Parcels
  <1>2. CASE Wire!Run(h)
    <2>1. /\ Wire!Moves(h, "handled") /\ handled' = handled \cup {h.message}
          /\ chore' = chore \/ chore' = [chore EXCEPT ![h.message] = "done"]
      BY <1>2 DEF Wire!Run, Wire!Records
    <2>2. /\ HandsTogether'
          /\ parcels' \subseteq Parcels
          /\ \A g \in parcels' : g \in parcels \/ (g.message = h.message /\ g.on = h.on /\ g.stage = "handled")
          /\ \A g \in parcels : \E f \in parcels' : f.message = g.message /\ f.on = g.on
      BY <1>0, <2>1, WireMovesOn
    <2>3. Wire!TypeOK'
      BY <1>0, <1>1, <2>1, <2>2 DEF WireInv, Wire!TypeOK, Parcels
    <2>4. NewLineUnused'
      BY <1>0, <2>2 DEF WireInv, NewLineUnused
    <2>5. StoredIsKept'
      BY <1>0, <2>1, <2>2 DEF WireInv, StoredIsKept, Kept, Owed
    <2>6. MarksExplained'
      BY <1>0, <1>1, <2>1, <2>2 DEF WireInv, Wire!TypeOK, MarksExplained
    <2> QED
      BY <2>2, <2>3, <2>4, <2>5, <2>6 DEF WireInv
  <1>3. CASE Wire!Ack(h)
    <2>1. parcels' = parcels \ {h} /\ UNCHANGED <<chore, handled>> /\ h.stage = "handled"
      BY <1>3 DEF Wire!Ack
    <2>2. Wire!TypeOK'
      BY <1>0, <1>1, <2>1 DEF WireInv, Wire!TypeOK
    <2>3. HandsTogether'
      BY <1>0, <2>1, HandsLeave
    <2>4. NewLineUnused' /\ MarksExplained'
      BY <1>0, <2>1 DEF WireInv, NewLineUnused, MarksExplained
    <2>5. StoredIsKept'
      BY <1>0, <2>1 DEF WireInv, StoredIsKept, Kept, Owed, MarksExplained
    <2> QED
      BY <2>2, <2>3, <2>4, <2>5 DEF WireInv
  <1> QED
    BY <1>2, <1>3

LEMMA WirePolls ==
  ASSUME WireInv, NEW m \in Messages, Wire!ProcessBatch(m) \/ Wire!BatchRuns(m)
  PROVE  WireInv'
  <1>0. UNCHANGED <<open, dials, broker, watch, published, work, dead, consume, parcels, delivered, process,
                    spent, handled, spoiled>>
    BY DEF Wire!ProcessBatch, Wire!BatchRuns
  <1>1. Wire!TypeOK'
    BY <1>0 DEF WireInv, Wire!TypeOK, Wire!ProcessBatch, Wire!BatchRuns, Wire!Records
  <1>2. HandsTogether' /\ NewLineUnused' /\ StoredIsKept'
    BY <1>0 DEF WireInv, HandsTogether, NewLineUnused, StoredIsKept, Kept, Owed
  <1>3. MarksExplained'
    BY <1>0 DEF WireInv, Wire!TypeOK, MarksExplained, Wire!ProcessBatch, Wire!BatchRuns, Wire!Records
  <1> QED
    BY <1>1, <1>2, <1>3 DEF WireInv

LEMMA WireStops ==
  ASSUME WireInv, Wire!Shutdown \/ Wire!Close \/ Wire!CloseDatabase \/ Wire!Exit
  PROVE  WireInv'
  <1>0. UNCHANGED <<dials, watch, published, dead, consume, delivered, chore, polled, handled, spoiled>>
    BY DEF Wire!Shutdown, Wire!Close, Wire!CloseDatabase, Wire!Exit
  <1>1. CASE Wire!Shutdown \/ Wire!CloseDatabase
    <2>1. UNCHANGED <<open, broker, work, parcels, spent>>
      BY <1>1 DEF Wire!Shutdown, Wire!CloseDatabase
    <2>2. Wire!TypeOK'
      BY <1>0, <1>1, <2>1 DEF WireInv, Wire!TypeOK, Wire!Shutdown, Wire!CloseDatabase
    <2>3. HandsTogether' /\ NewLineUnused' /\ StoredIsKept'
      BY <1>0, <2>1 DEF WireInv, HandsTogether, NewLineUnused, StoredIsKept, Kept, Owed
    <2>4. MarksExplained'
      BY <1>0, <1>1, <2>1 DEF WireInv, MarksExplained, Wire!Shutdown, Wire!CloseDatabase
    <2> QED
      BY <2>2, <2>3, <2>4 DEF WireInv
  <1>2. CASE Wire!Close
    <2>1. UNCHANGED parcels /\ process = "stopping" /\ process' = "disconnected" /\ broker' = 0
          /\ open' = open \ {broker} /\ (spent' <=> polled # {}) /\ spent' \in BOOLEAN
      BY <1>2 DEF Wire!Close, Wire!Drained
    <2>2. work' = work \cup {h.message : h \in {h \in parcels : h.on \in {broker} \cap open}}
      BY <1>2 DEF Wire!Close, Wire!Given
    <2>3. Wire!TypeOK'
      BY <1>0, <2>1, <2>2 DEF WireInv, Wire!TypeOK
    <2>4. HandsTogether' /\ NewLineUnused'
      BY <1>0, <2>1 DEF WireInv, HandsTogether, NewLineUnused
    <2>5. StoredIsKept'
      BY <1>0, <2>1, <2>2 DEF WireInv, StoredIsKept, Kept, Owed
    <2>6. MarksExplained'
      BY <1>0, <2>1 DEF WireInv, MarksExplained
    <2> QED
      BY <2>3, <2>4, <2>5, <2>6 DEF WireInv
  <1>3. CASE Wire!Exit
    <2>1. UNCHANGED <<broker, spent>> /\ process = "closed" /\ process' = "gone" /\ open' = {} /\ parcels' = {}
      BY <1>3 DEF Wire!Exit
    <2>2. work' = work \cup {h.message : h \in {h \in parcels : h.on \in open}}
      BY <1>3 DEF Wire!Exit, Wire!Given
    <2>3. Wire!TypeOK'
      BY <1>0, <2>1, <2>2 DEF WireInv, Wire!TypeOK
    <2>4. HandsTogether'
      BY <2>1, FS_EmptySet, BackstageAssumption DEF HandsTogether, Wire!BrokerAssumption
    <2>5. NewLineUnused' /\ MarksExplained'
      BY <1>0, <2>1 DEF WireInv, NewLineUnused, MarksExplained
    <2>6. StoredIsKept'
      BY <1>0, <2>2 DEF WireInv, StoredIsKept, Kept, Owed
    <2> QED
      BY <2>3, <2>4, <2>5, <2>6 DEF WireInv
  <1> QED
    BY <1>1, <1>2, <1>3

LEMMA WireKept ==
  ASSUME WireInv, [Wire!Next]_wireVars
  PROVE  WireInv'
  <1>1. CASE UNCHANGED wireVars
    BY <1>1 DEF wireVars, WireInv, Wire!TypeOK, HandsTogether, NewLineUnused, StoredIsKept, Kept, Owed, MarksExplained
  <1> QED
    BY <1>1, WirePublishes, WireConnects, WireConsumes, WireReturns, WireDelivers, WireTakes, WireEnds, WirePolls,
       WireStops DEF Wire!Next

LEMMA WireSafe == WireInv => Wire!TypeOK /\ Wire!BrokerSound
  <1> SUFFICES ASSUME WireInv PROVE Wire!TypeOK /\ Wire!BrokerSound
    OBVIOUS
  <1>1. Wire!WithinPrefetch
    <2> DEFINE busy == {h \in parcels : h.stage # "pushed"}
    <2>1. Cardinality(busy) <= Cardinality(parcels) /\ Cardinality(busy) \in Nat /\ Cardinality(parcels) \in Nat
      BY FS_Subset, FS_CardinalityType DEF WireInv, HandsTogether
    <2> HIDE DEF busy
    <2>2. Cardinality(busy) <= Prefetch
      BY <2>1, BackstageAssumption DEF WireInv, HandsTogether, Wire!BrokerAssumption
    <2> QED
      BY <2>2, CountedAlike DEF busy, Wire!WithinPrefetch
  <1>2. Wire!NothingForgotten
    BY DEF WireInv, StoredIsKept, Kept, Owed, Wire!NothingForgotten, Wire!At, Wire!Given
  <1>3. Wire!BatchesDrained
    BY DEF WireInv, MarksExplained, Wire!BatchesDrained, Wire!Left
  <1> QED
    BY <1>1, <1>2, <1>3 DEF WireInv, Wire!BrokerSound

-----------------------------------------------------------------------------
(* A set of which no finite part without a property is without a smaller   *)
(* one has the property for all its finite parts: what FS_Induction says,  *)
(* of a set of counterexamples instead of a predicate.                     *)
LEMMA SmallestFinite ==
  ASSUME NEW S, NEW Odd, Odd \subseteq FiniteSubsetsOf(S), Odd # {}
  PROVE  \E T \in Odd : \A x \in T : T \ {x} \notin Odd
  <1>1. IsWellFoundedOn(StrictSubsetOrdering(S), FiniteSubsetsOf(S))
    BY FS_StrictSubsetOrderingWellFounded
  <1>2. PICK T \in Odd : \A U \in Odd : ~ (<<U, T>> \in StrictSubsetOrdering(S))
    BY <1>1, WFMin
  <1>3. ASSUME NEW x \in T, T \ {x} \in Odd PROVE FALSE
    <2>1. T \in SUBSET S /\ T \ {x} \in SUBSET S /\ T \ {x} # T
      BY <1>2 DEF FiniteSubsetsOf
    <2>2. <<T \ {x}, T>> \in StrictSubsetOrdering(S)
      BY <2>1 DEF StrictSubsetOrdering
    <2> QED
      BY <1>2, <1>3, <2>2
  <1> QED
    BY <1>2, <1>3

(* A finite set of numbers has a least and a greatest member.              *)
LEMMA Extremes ==
  ASSUME NEW S, S \subseteq Int, IsFiniteSet(S), S # {}
  PROVE  (\E x \in S : \A y \in S : x >= y) /\ (\E x \in S : \A y \in S : x <= y)
  <1> DEFINE Ends(T) == (\E x \in T : \A y \in T : x >= y) /\ (\E x \in T : \A y \in T : x <= y)
             Odd == {T \in FiniteSubsetsOf(S) : T # {} /\ ~Ends(T)}
  <1>1. ASSUME ~Ends(S) PROVE FALSE
    <2>1. S \in Odd
      BY <1>1 DEF FiniteSubsetsOf
    <2>2. PICK T \in Odd : \A x \in T : T \ {x} \notin Odd
      <3> HIDE DEF Odd
      <3>1. Odd \subseteq FiniteSubsetsOf(S)
        BY DEF Odd
      <3> QED
        BY <2>1, <3>1, SmallestFinite
    <2>3. PICK x : x \in T
      OBVIOUS
    <2>4. T \subseteq Int /\ IsFiniteSet(T)
      BY DEF FiniteSubsetsOf
    <2>5. T \ {x} \in FiniteSubsetsOf(S)
      BY <2>4, FS_Subset DEF FiniteSubsetsOf
    <2>6. T \ {x} = {} \/ Ends(T \ {x})
      BY <2>2, <2>3, <2>5
    <2>7. Ends(T)
      <3>1. CASE T \ {x} = {}
        BY <2>3, <2>4, <3>1
      <3>2. CASE Ends(T \ {x})
        <4>1. PICK m \in T \ {x} : \A y \in T \ {x} : m >= y
          BY <3>2
        <4>2. PICK n \in T \ {x} : \A y \in T \ {x} : n <= y
          BY <3>2
        <4>3. \E z \in T : \A y \in T : z >= y
          BY <2>3, <2>4, <4>1
        <4>4. \E z \in T : \A y \in T : z <= y
          BY <2>3, <2>4, <4>2
        <4> QED
          BY <4>3, <4>4
      <3> QED
        BY <2>6, <3>1, <3>2
    <2> QED
      BY <2>7
  <1> QED
    BY <1>1

-----------------------------------------------------------------------------
(* The keyring.  Every row is findable under its document and sealed under *)
(* a key that is still set; a replica seals under a key that is still set; *)
(* and a request that sent no document and has read the row as it is       *)
(* carries the document that is there.                                     *)
Held == Documents \cup {Keys!Blank}
IsEdit(e) ==
    e = [at |-> e.at, account |-> e.account, sent |-> e.sent, document |-> e.document, complete |-> e.complete,
         fresh |-> e.fresh]
KeysShape ==
    /\ environ.keys \subseteq Versions /\ environ.active \in Versions \cup {0}
    /\ ring \in [Hosts -> [keys : SUBSET Versions, active : Versions \cup {0, -1}]]
    /\ seal = [u \in Callers |-> seal[u]] /\ edit = [q \in Callers |-> edit[q]] /\ owns = [u \in Callers |-> owns[u]]
    /\ \A q \in Callers : IsEdit(edit[q])
RowOK(s) ==
    /\ s.sealed \in Held /\ s.version \in Versions \cup {0}
    /\ \A r \in Hosts : s.blind = Keys!NewBlindIndex(r, s.sealed)
    /\ s.sealed # Keys!Blank => s.version \in environ.keys
SealOK(u) ==
    /\ RowOK(seal[u])
    /\ owns[u] = [saved |-> owns[u].saved, torn |-> owns[u].torn]
    /\ ~owns[u].torn => seal[u].sealed = owns[u].saved
EditOK(q) ==
    edit[q] # Keys!Free =>
        /\ edit[q].at \in Hosts /\ edit[q].account \in Callers /\ edit[q].document \in Held
        /\ edit[q].sent # Keys!Blank => edit[q].document = edit[q].sent
        /\ edit[q].sent = Keys!Blank /\ edit[q].fresh => edit[q].document = seal[edit[q].account].sealed
RingOK(r) == ring[r].keys # {} => ring[r].active \in environ.keys
KeysInv ==
    /\ KeysShape /\ Keys!OneAccountPerDocument
    /\ \A u \in Callers : SealOK(u) /\ EditOK(u)
    /\ \A r \in Hosts : RingOK(r)

LEMMA KeysStarts == Keys!Init => KeysInv
  <1> SUFFICES ASSUME Keys!Init PROVE KeysInv
    OBVIOUS
  <1>1. IsFiniteSet(Versions) /\ Versions # {} /\ Versions \subseteq Int
    BY BackstageAssumption, CountedAlike DEF Keys!KeyringAssumption
  <1>2. Keys!Min(Versions) \in Versions
    <2>1. \E v \in Versions : \A w \in Versions : v <= w
      BY <1>1, Extremes
    <2> QED
      BY <2>1 DEF Keys!Min
  <1>3. KeysShape
    <2>1. /\ environ.keys \subseteq Versions /\ environ.active \in Versions \cup {0}
          /\ ring \in [Hosts -> [keys : SUBSET Versions, active : Versions \cup {0, -1}]]
      BY <1>2 DEF Keys!Init, Keys!Down, Keys!Ring
    <2>2. seal = [u \in Callers |-> seal[u]] /\ edit = [q \in Callers |-> edit[q]] /\ owns = [u \in Callers |-> owns[u]]
      BY DEF Keys!Init
    <2>3. \A q \in Callers : IsEdit(edit[q])
      BY DEF Keys!Init, Keys!Free, IsEdit
    <2> QED
      BY <2>1, <2>2, <2>3 DEF KeysShape
  <1>4. Keys!OneAccountPerDocument
    BY DEF Keys!OneAccountPerDocument, Keys!Init, Keys!Null
  <1>5. ASSUME NEW u \in Callers PROVE SealOK(u) /\ EditOK(u)
    BY <1>5 DEF SealOK, RowOK, Held, EditOK, Keys!Init, Keys!Null, Keys!NewBlindIndex
  <1>6. ASSUME NEW r \in Hosts PROVE RingOK(r)
    BY <1>6 DEF RingOK, Keys!Init, Keys!Down, Keys!Ring
  <1> QED
    BY <1>3, <1>4, <1>5, <1>6 DEF KeysInv

LEMMA KeysEnvironment ==
  ASSUME KeysInv, NEW keys \in SUBSET Versions, NEW active \in Versions \cup {0}, Keys!SetEnvironment(keys, active)
  PROVE  KeysInv'
  <1>1. environ' = [keys |-> keys, active |-> active] /\ UNCHANGED <<ring, seal, edit, owns>> /\ Keys!InUse \subseteq keys
    BY DEF Keys!SetEnvironment
  <1>2. ASSUME NEW u \in Callers PROVE SealOK(u)' /\ EditOK(u)'
    BY <1>1 DEF KeysInv, SealOK, RowOK, EditOK, Keys!InUse, Keys!NewBlindIndex, Keys!BlindIndex
  <1>3. ASSUME NEW r \in Hosts PROVE RingOK(r)'
    BY <1>1 DEF RingOK, Keys!InUse
  <1>4. KeysShape'
    BY <1>1 DEF KeysInv, KeysShape
  <1>5. Keys!OneAccountPerDocument'
    BY <1>1 DEF KeysInv, Keys!OneAccountPerDocument
  <1> QED
    BY <1>2, <1>3, <1>4, <1>5 DEF KeysInv

LEMMA KeysReplicas ==
  ASSUME KeysInv, NEW r \in Hosts, Keys!Boot(r) \/ Keys!Stop(r)
  PROVE  KeysInv'
  <1>0. UNCHANGED <<environ, seal, owns>>
    BY DEF Keys!Boot, Keys!Stop
  <1>1. PICK loaded \in [keys : SUBSET Versions, active : Versions \cup {0, -1}] :
           ring' = [ring EXCEPT ![r] = loaded] /\ (loaded.keys # {} => loaded.active \in environ.keys)
    <2>1. CASE Keys!Boot(r) /\ Keys!Loads
      <3>1. Keys!resolveActiveVersion \in environ.keys
        <4>1. IsFiniteSet(environ.keys) /\ environ.keys # {} /\ environ.keys \subseteq Int
          BY <2>1, BackstageAssumption, CountedAlike, FS_Subset DEF Keys!KeyringAssumption, KeysInv, KeysShape, Keys!Loads
        <4>2. \E v \in environ.keys : \A w \in environ.keys : v >= w
          BY <4>1, Extremes
        <4>3. Keys!Max(environ.keys) \in environ.keys
          BY <4>2 DEF Keys!Max
        <4> QED
          BY <2>1, <4>3 DEF Keys!resolveActiveVersion, Keys!Loads
      <3>2. PICK loaded : loaded = [keys |-> environ.keys, active |-> Keys!resolveActiveVersion]
        OBVIOUS
      <3>3. ring' = [ring EXCEPT ![r] = loaded]
        BY <2>1, <3>2 DEF Keys!Boot, Keys!Ring
      <3>4. loaded \in [keys : SUBSET Versions, active : Versions \cup {0, -1}] /\ loaded.active \in environ.keys
        BY <3>1, <3>2 DEF KeysInv, KeysShape
      <3> QED
        BY <3>3, <3>4
    <2>2. CASE Keys!Boot(r) /\ ~Keys!Loads
      <3>1. Keys!Bare \in [keys : SUBSET Versions, active : Versions \cup {0, -1}] /\ Keys!Bare.keys = {}
        BY DEF Keys!Bare, Keys!Ring
      <3>2. ring' = [ring EXCEPT ![r] = Keys!Bare]
        BY <2>2 DEF Keys!Boot
      <3> QED
        BY <3>1, <3>2
    <2>3. CASE Keys!Stop(r)
      <3>1. Keys!Down \in [keys : SUBSET Versions, active : Versions \cup {0, -1}] /\ Keys!Down.keys = {}
        BY DEF Keys!Down, Keys!Ring
      <3>2. ring' = [ring EXCEPT ![r] = Keys!Down]
        BY <2>3 DEF Keys!Stop
      <3> QED
        BY <3>1, <3>2
    <2> QED
      BY <2>1, <2>2, <2>3
  <1>2. edit' = [q \in Callers |-> edit'[q]] /\ \A q \in Callers : edit'[q] = edit[q] \/ edit'[q] = Keys!Free
    BY DEF Keys!Boot, Keys!Stop, KeysInv, KeysShape
  <1>3. KeysShape'
    <2>1. \A q \in Callers : IsEdit(edit'[q])
      BY <1>2 DEF KeysInv, KeysShape, IsEdit, Keys!Free
    <2> QED
      BY <1>0, <1>1, <1>2, <2>1 DEF KeysInv, KeysShape
  <1>4. Keys!OneAccountPerDocument'
    BY <1>0 DEF KeysInv, Keys!OneAccountPerDocument
  <1>5. ASSUME NEW u \in Callers PROVE SealOK(u)' /\ EditOK(u)'
    BY <1>0, <1>2 DEF KeysInv, SealOK, RowOK, EditOK, Keys!NewBlindIndex, Keys!BlindIndex
  <1>6. ASSUME NEW h \in Hosts PROVE RingOK(h)'
    BY <1>0, <1>1 DEF KeysInv, KeysShape, RingOK
  <1> QED
    BY <1>3, <1>4, <1>5, <1>6 DEF KeysInv

(* What a replica reads is what is there.                                  *)
LEMMA ScanReads ==
  ASSUME NEW r \in Hosts, NEW u \in Callers, Keys!Scan(r, u) # <<>>
  PROVE  Keys!Scan(r, u)[1] = seal[u].sealed
  BY DEF Keys!Scan, Keys!Decrypt

LEMMA KeysReads ==
  ASSUME KeysInv, NEW q \in Callers, NEW r \in Hosts, NEW u \in Callers, NEW sent, NEW document \in Held, NEW complete,
         Keys!Reads(q, r, u, sent, document, complete),
         sent # Keys!Blank => document = sent, sent = Keys!Blank => document = seal[u].sealed
  PROVE  KeysInv'
  <1>1. PICK e : /\ edit' = [edit EXCEPT ![q] = e] /\ IsEdit(e)
                 /\ e.at = r /\ e.account = u /\ e.sent = sent /\ e.document = document
    <2>1. PICK e : e = [at |-> r, account |-> u, sent |-> sent, document |-> document, complete |-> complete,
                        fresh |-> TRUE]
      OBVIOUS
    <2>2. edit' = [edit EXCEPT ![q] = e]
      BY <2>1 DEF Keys!Reads
    <2>3. IsEdit(e) /\ e.at = r /\ e.account = u /\ e.sent = sent /\ e.document = document
      BY <2>1 DEF IsEdit
    <2> QED
      BY <2>2, <2>3
  <1>2. UNCHANGED <<environ, ring, seal, owns>>
    BY DEF Keys!Reads
  <1>3. KeysShape'
    BY <1>1, <1>2 DEF KeysInv, KeysShape
  <1>4. Keys!OneAccountPerDocument' /\ \A h \in Hosts : RingOK(h)'
    BY <1>2 DEF KeysInv, Keys!OneAccountPerDocument, RingOK
  <1>5. ASSUME NEW v \in Callers PROVE SealOK(v)'
    BY <1>2 DEF KeysInv, SealOK, RowOK, Keys!NewBlindIndex, Keys!BlindIndex
  <1>6. ASSUME NEW p \in Callers PROVE EditOK(p)'
    BY <1>1, <1>2 DEF KeysInv, KeysShape, EditOK
  <1> QED
    BY <1>3, <1>4, <1>5, <1>6 DEF KeysInv

LEMMA KeysEdits ==
  ASSUME KeysInv, NEW q \in Callers, NEW r \in Hosts, NEW u \in Callers,
         Keys!VerifyPhone(q, r, u) \/ \E sent \in Documents \cup {Keys!Blank} : Keys!Save(q, r, u, sent)
  PROVE  KeysInv'
  <1>1. seal[u].sealed \in Held
    BY DEF KeysInv, SealOK, RowOK
  <1>2. CASE Keys!VerifyPhone(q, r, u)
    <2>1. Keys!Reads(q, r, u, Keys!Blank, seal[u].sealed, seal[u].complete)
      BY <1>2, ScanReads DEF Keys!VerifyPhone
    <2> QED
      BY <1>1, <2>1, KeysReads
  <1>3. ASSUME NEW sent \in Documents \cup {Keys!Blank}, Keys!Save(q, r, u, sent) PROVE KeysInv'
    <2>1. CASE sent = Keys!Blank /\ seal[u].complete
      <3>1. Keys!Reads(q, r, u, sent, seal[u].sealed, TRUE)
        BY <1>3, <2>1, ScanReads DEF Keys!Save
      <3> QED
        BY <1>1, <2>1, <3>1, KeysReads
    <2>2. CASE ~(sent = Keys!Blank /\ seal[u].complete)
      <3>1. Keys!Reads(q, r, u, sent, sent, TRUE) /\ sent # Keys!Blank
        BY <1>3, <2>2 DEF Keys!Save
      <3> QED
        BY <3>1, KeysReads DEF Held
    <2> QED
      BY <2>1, <2>2
  <1> QED
    BY <1>2, <1>3

(* An index names its document and no other.                               *)
LEMMA BlindTold ==
  ASSUME NEW r, NEW s, NEW d, NEW e
  PROVE  /\ Keys!NewBlindIndex(r, d) = Keys!NewBlindIndex(s, d)
         /\ d # Keys!Blank => Keys!NewBlindIndex(r, d) # Keys!Absent
  BY DEF Keys!NewBlindIndex, Keys!BlindIndex, Keys!Absent

(* A request that another's write overtakes is as it was, but has read     *)
(* what is no longer there.                                                *)
LEMMA Overtaken ==
  ASSUME NEW e, IsEdit(e), NEW f, f = [e EXCEPT !.fresh = FALSE]
  PROVE  IsEdit(f) /\ f.at = e.at /\ f.account = e.account /\ f.sent = e.sent /\ f.document = e.document /\ ~f.fresh
  <1>1. f = [at |-> e.at, account |-> e.account, sent |-> e.sent, document |-> e.document, complete |-> e.complete,
             fresh |-> FALSE]
    BY DEF IsEdit
  <1> QED
    BY <1>1 DEF IsEdit

LEMMA KeysSaved ==
  ASSUME KeysInv, NEW q \in Callers, Keys!SaveProfile(q)
  PROVE  KeysInv'
  <1> DEFINE e == edit[q]
             u == e.account
             blind == Keys!NewBlindIndex(e.at, e.document)
             taken == \E v \in Callers \ {u} : blind # Keys!Absent /\ seal[v].blind = blind
             goes == ~taken /\ ring[e.at].keys # {}
             sealed == IF e.document = Keys!Blank THEN [sealed |-> Keys!Blank, version |-> 0]
                       ELSE Keys!Encrypt(e.at, e.document)
             new == [sealed |-> sealed.sealed, version |-> sealed.version, blind |-> blind, complete |-> e.complete]
             kept == IF e.sent # Keys!Blank THEN [saved |-> e.sent, torn |-> FALSE]
                     ELSE IF e.fresh THEN owns[u] ELSE [owns[u] EXCEPT !.torn = TRUE]
             busy(p) == IF edit[p].account = u THEN [edit[p] EXCEPT !.fresh = FALSE] ELSE edit[p]
  <1>0. e # Keys!Free /\ UNCHANGED <<environ, ring>>
    BY DEF Keys!SaveProfile
  <1>1. e.at \in Hosts /\ u \in Callers /\ e.document \in Held
        /\ (e.sent # Keys!Blank => e.document = e.sent)
        /\ (e.sent = Keys!Blank /\ e.fresh => e.document = seal[u].sealed)
    BY <1>0 DEF KeysInv, EditOK
  <1>2. CASE ~goes
    <2>0. seal' = seal /\ owns' = owns /\ edit' = [edit EXCEPT ![q] = Keys!Free]
      BY <1>2 DEF Keys!SaveProfile
    <2>1. KeysShape'
      <3>1. \A p \in Callers : IsEdit(edit'[p])
        BY <2>0 DEF KeysInv, KeysShape, IsEdit, Keys!Free
      <3> QED
        BY <1>0, <2>0, <3>1 DEF KeysInv, KeysShape
    <2>2. Keys!OneAccountPerDocument' /\ \A h \in Hosts : RingOK(h)'
      BY <1>0, <2>0 DEF KeysInv, Keys!OneAccountPerDocument, RingOK
    <2>3. ASSUME NEW v \in Callers PROVE SealOK(v)' /\ EditOK(v)'
      BY <1>0, <2>0 DEF KeysInv, KeysShape, SealOK, RowOK, EditOK, Keys!NewBlindIndex, Keys!BlindIndex
    <2> QED
      BY <2>1, <2>2, <2>3 DEF KeysInv
  <1>3. CASE goes
    <2>0. /\ seal' = [seal EXCEPT ![u] = new] /\ owns' = [owns EXCEPT ![u] = kept]
          /\ edit' = [p \in Callers |-> IF p = q THEN Keys!Free ELSE busy(p)]
      <3>1. seal' = [seal EXCEPT ![u] = new]
        BY <1>3 DEF Keys!SaveProfile
      <3>2. owns' = [owns EXCEPT ![u] = kept]
        BY <1>3 DEF Keys!SaveProfile
      <3>3. edit' = [p \in Callers |-> IF p = q THEN Keys!Free ELSE busy(p)]
        BY <1>3 DEF Keys!SaveProfile
      <3> QED
        BY <3>1, <3>2, <3>3
    <2>1. PICK s : /\ seal' = [seal EXCEPT ![u] = s]
                   /\ s.sealed = sealed.sealed /\ s.version = sealed.version /\ s.blind = blind
      <3>1. new.sealed = sealed.sealed /\ new.version = sealed.version /\ new.blind = blind
        OBVIOUS
      <3>2. seal' = [seal EXCEPT ![u] = new]
        BY <2>0
      <3> HIDE DEF new, sealed, blind
      <3> QED
        BY <3>1, <3>2
    <2>2. PICK k : k = kept
      OBVIOUS
    <2>2o. owns' = [owns EXCEPT ![u] = k]
      BY <2>0, <2>2
    <2>2k. k = [saved |-> k.saved, torn |-> k.torn] /\ (~k.torn => e.document = k.saved)
      <3>1. owns[u] = [saved |-> owns[u].saved, torn |-> owns[u].torn] /\ (~owns[u].torn => seal[u].sealed = owns[u].saved)
        BY <1>1 DEF KeysInv, SealOK
      <3>2. CASE e.sent # Keys!Blank
        <4>1. k = [saved |-> e.sent, torn |-> FALSE]
          BY <2>2, <3>2
        <4> QED
          BY ONLY <1>1, <3>2, <4>1
      <3>3. CASE e.sent = Keys!Blank /\ e.fresh
        <4>1. k = owns[u]
          BY <2>2, <3>3
        <4> QED
          BY ONLY <1>1, <3>1, <3>3, <4>1
      <3>4. CASE e.sent = Keys!Blank /\ ~e.fresh
        <4>1. k = [saved |-> owns[u].saved, torn |-> TRUE]
          BY <2>2, <3>1, <3>4
        <4> QED
          BY ONLY <4>1
      <3> QED
        BY <3>2, <3>3, <3>4
    <2>3. /\ s.sealed = e.document /\ s.version \in Versions \cup {0}
          /\ e.document # Keys!Blank => s.version \in environ.keys
      BY <1>1, <1>3, <2>1, SMTT(30) DEF Keys!Encrypt, KeysInv, KeysShape, RingOK
    <2>4. /\ edit'[q] = Keys!Free /\ edit' = [p \in Callers |-> edit'[p]]
          /\ \A p \in Callers \ {q} : edit'[p] = busy(p)
      BY <2>0
    <2> HIDE DEF new, kept, sealed, goes
    <2>5. KeysShape'
      <3>1. ASSUME NEW p \in Callers PROVE IsEdit(edit'[p])
        <4>1. CASE p = q
          BY <2>4, <4>1 DEF IsEdit, Keys!Free
        <4>2. CASE p # q
          <5>1. IsEdit(edit[p])
            BY DEF KeysInv, KeysShape
          <5>2. CASE edit[p].account = u
            BY <2>4, <4>2, <5>1, <5>2, Overtaken
          <5>3. CASE edit[p].account # u
            BY <2>4, <4>2, <5>1, <5>3
          <5> QED
            BY <5>2, <5>3
        <4> QED
          BY <4>1, <4>2
      <3> QED
        BY <1>0, <2>1, <2>2o, <2>4, <3>1 DEF KeysInv, KeysShape
    <2>6. \A h \in Hosts : RingOK(h)'
      BY <1>0 DEF KeysInv, RingOK
    <2>7. ASSUME NEW v \in Callers, v # u, seal[v].sealed = e.document, e.document # Keys!Blank PROVE FALSE
      <3>1. seal[v].blind = Keys!NewBlindIndex(e.at, seal[v].sealed)
        BY <1>1 DEF KeysInv, SealOK, RowOK
      <3>2. seal[v].blind = blind /\ blind # Keys!Absent
        BY <2>7, <3>1, BlindTold
      <3> QED
        BY <1>3, <2>7, <3>2 DEF goes
    <2>8. seal'[u] = s /\ \A v \in Callers : v # u => seal'[v] = seal[v]
      BY <1>1, <2>1 DEF KeysInv, KeysShape
    <2>9. Keys!OneAccountPerDocument'
      BY <2>3, <2>7, <2>8 DEF KeysInv, Keys!OneAccountPerDocument
    <2>10. ASSUME NEW v \in Callers PROVE SealOK(v)'
      <3>1. CASE v = u
        <4>1. owns'[u] = k
          BY <1>1, <2>2o DEF KeysInv, KeysShape
        <4>2. \A h \in Hosts : s.blind = Keys!NewBlindIndex(h, e.document)
          BY <2>1, BlindTold, SMTT(30)
        <4> QED
          BY <1>0, <1>1, <2>2k, <2>3, <2>8, <3>1, <4>1, <4>2 DEF SealOK, RowOK, Keys!NewBlindIndex, Keys!BlindIndex
      <3>2. CASE v # u
        <4>1. seal'[v] = seal[v] /\ owns'[v] = owns[v]
          BY <2>2o, <2>8, <3>2 DEF KeysInv, KeysShape
        <4> QED
          BY <1>0, <4>1 DEF KeysInv, SealOK, RowOK, Keys!NewBlindIndex, Keys!BlindIndex
      <3> QED
        BY <3>1, <3>2
    <2>11. ASSUME NEW p \in Callers PROVE EditOK(p)'
      <3>1. CASE p = q
        BY <2>4, <3>1 DEF EditOK
      <3>2. CASE p # q
        <4>1. IsEdit(edit[p]) /\ EditOK(p) /\ u # "none"
          BY <1>1, BackstageAssumption DEF KeysInv, KeysShape, Keys!KeyringAssumption
        <4>2. CASE edit[p].account = u
          <5>1. edit[p] # Keys!Free
            BY <4>1, <4>2 DEF Keys!Free
          <5>2. PICK f : f = edit'[p] /\ f = [edit[p] EXCEPT !.fresh = FALSE]
            BY <2>4, <3>2, <4>2
          <5> QED
            BY <4>1, <5>1, <5>2, Overtaken DEF EditOK
        <4>3. CASE edit[p].account # u
          BY <2>4, <2>8, <3>2, <4>1, <4>3 DEF EditOK
        <4> QED
          BY <4>2, <4>3
      <3> QED
        BY <3>1, <3>2
    <2> QED
      BY <2>5, <2>6, <2>9, <2>10, <2>11 DEF KeysInv
  <1> QED
    BY <1>2, <1>3

LEMMA KeysKept ==
  ASSUME KeysInv, [Keys!Next]_keysVars
  PROVE  KeysInv'
  <1>1. CASE UNCHANGED keysVars
    BY <1>1 DEF keysVars, KeysInv, KeysShape, Keys!OneAccountPerDocument, SealOK, RowOK, EditOK, RingOK,
                Keys!NewBlindIndex, Keys!BlindIndex
  <1> QED
    BY <1>1, KeysEnvironment, KeysReplicas, KeysEdits, KeysSaved DEF Keys!Next

LEMMA KeysSafe == KeysInv => Keys!TypeOK /\ Keys!KeyringSound
  <1> SUFFICES ASSUME KeysInv PROVE Keys!TypeOK /\ Keys!KeyringSound
    OBVIOUS
  <1>1. Keys!TypeOK
    BY DEF KeysInv, KeysShape, SealOK, RowOK, Held, Keys!TypeOK
  <1>2. Keys!DocumentsKept /\ Keys!RowsOpen
    BY DEF KeysInv, SealOK, RowOK, Keys!DocumentsKept, Keys!RowsOpen
  <1> QED
    BY <1>1, <1>2 DEF KeysInv, Keys!KeyringSound

-----------------------------------------------------------------------------
(* The gate.  Whoever was told to wait waits at least as long as the       *)
(* window that refused him still runs, or it is over; and without faults   *)
(* no more were let through than the window has counted.                   *)
IsAsk(r) ==
    r = [at |-> r.at, replica |-> r.replica, journey |-> r.journey, next |-> r.next, held |-> r.held,
         status |-> r.status, wait |-> r.wait, ended |-> r.ended]
Going(r) == r.at \in {"session", "count", "work", "over"}
Asked(r) == r.journey.budgets \in Seq(DOMAIN LimitOf) /\ r.next \in 1..Len(r.journey.budgets)
Budget(r) == r.journey.budgets[r.next]
Refused(r) == r.at \in {"over", "waits"} /\ r.status = 429
AskOK(r, c) ==
    /\ IsAsk(r) /\ r.at \in {"none", "session", "count", "work", "over", "waits"}
    /\ Going(r) => r.replica \in Hosts
    /\ r.at \in {"session", "count"} => Asked(r)
    /\ r.at = "waits" => r.status = 429
    /\ Refused(r) => Asked(r) /\ r.wait \in Nat /\ (r.ended \/ c[Budget(r)].ttl \in 1..r.wait)
CountOK(k) ==
    /\ counter[k].n = 0 <=> counter[k].ttl = 0
    /\ faults = 0 => admitted[k] <= counter[k].n /\ admitted[k] <= LimitOf[k]
Counts == [n : Nat, ttl : 0..Window]
GateShape ==
    /\ slots \in [Hosts -> Int] /\ gauge \in [Hosts -> Int] /\ request = [q \in Callers |-> request[q]]
    /\ counter \in [DOMAIN LimitOf -> Counts] /\ admitted \in [DOMAIN LimitOf -> Nat] /\ faults \in Nat
GateInv ==
    /\ GateShape /\ Turnstile!SlotsHeld
    /\ \A k \in DOMAIN LimitOf : CountOK(k)
    /\ \A q \in Callers : AskOK(request[q], counter)

LEMMA GateConstants ==
  /\ IsFiniteSet(Callers) /\ LimitOf \in [DOMAIN LimitOf -> Nat]
  /\ \A j \in Journeys : j.budgets \in Seq(DOMAIN LimitOf) /\ j.budgets # <<>>
  /\ CheckoutMaxInFlight \in Nat /\ Window \in Nat \ {0} /\ MaxFaults \in Nat
  BY BackstageAssumption, CountedAlike DEF Turnstile!GateAssumption

LEMMA GoneAsks ==
  /\ IsAsk(Turnstile!Gone) /\ Turnstile!Gone.at = "none" /\ ~Turnstile!Gone.held /\ Turnstile!Gone.next = 1
  /\ \A c : AskOK(Turnstile!Gone, c)
  <1>1. IsAsk(Turnstile!Gone) /\ Turnstile!Gone.at = "none" /\ Turnstile!Gone.next = 1
    BY DEF IsAsk, Turnstile!Gone
  <1>2. ~Turnstile!Gone.held
    BY DEF Turnstile!Gone
  <1> QED
    BY <1>1, <1>2 DEF AskOK, Going, Refused

(* Who is inside, and who holds a slot.                                    *)
Inside(f, p) == {q \in Callers : Going(f[q]) /\ f[q].replica = p}
Holding(f, p) == {q \in Callers : Going(f[q]) /\ f[q].replica = p /\ f[q].held}
Slotted(s, g, f) ==
    \A p \in Hosts : s[p] = Cardinality(Holding(f, p)) /\ g[p] = Cardinality(Inside(f, p)) /\ s[p] <= CheckoutMaxInFlight
LEMMA SlotsSpelt ==
  /\ Turnstile!SlotsHeld <=> Slotted(slots, gauge, request)
  /\ Turnstile!SlotsHeld' <=> Slotted(slots', gauge', request')
  BY CountedAlike DEF Turnstile!SlotsHeld, Slotted, Inside, Holding, Going, Turnstile!UnderWay

LEMMA OneMoreOrLess ==
  ASSUME NEW S, NEW T, NEW q, IsFiniteSet(S), T \subseteq S \cup {q}, S \subseteq T \cup {q}
  PROVE  /\ Cardinality(S) \in Nat /\ Cardinality(T) \in Nat
         /\ q \in T /\ q \notin S => Cardinality(T) = Cardinality(S) + 1
         /\ q \in S /\ q \notin T => Cardinality(T) = Cardinality(S) - 1
         /\ (q \in S <=> q \in T) => T = S
  <1>1. CASE q \in T /\ q \notin S
    <2>1. T = S \cup {q}
      BY <1>1
    <2> QED
      BY <1>1, <2>1, FS_AddElement, FS_CardinalityType
  <1>2. CASE q \in S /\ q \notin T
    <2>1. T = S \ {q}
      BY <1>2
    <2> QED
      BY <1>2, <2>1, FS_RemoveElement, FS_CardinalityType
  <1>3. CASE q \in S <=> q \in T
    <2>1. T = S
      BY <1>3
    <2> QED
      BY <1>3, <2>1, FS_CardinalityType
  <1> QED
    BY <1>1, <1>2, <1>3

LEMMA InsideFinite ==
  ASSUME NEW f, NEW p
  PROVE  IsFiniteSet(Inside(f, p)) /\ IsFiniteSet(Holding(f, p))
  <1>1. Inside(f, p) \subseteq Callers /\ Holding(f, p) \subseteq Callers
    BY DEF Inside, Holding
  <1> QED
    BY <1>1, GateConstants, FS_Subset

(* Nobody comes or goes.                                                   *)
LEMMA GateStill ==
  ASSUME Turnstile!SlotsHeld, UNCHANGED <<slots, gauge>>,
         \A q \in Callers : \/ ~Going(request[q]) /\ ~Going(request'[q])
                            \/ /\ Going(request[q]) /\ Going(request'[q])
                               /\ request'[q].replica = request[q].replica
                               /\ request'[q].held = request[q].held
  PROVE  Turnstile!SlotsHeld'
  <1>1. \A p : Inside(request', p) = Inside(request, p) /\ Holding(request', p) = Holding(request, p)
    BY DEF Inside, Holding
  <1> QED
    BY <1>1, SlotsSpelt DEF Slotted

LEMMA GateStarts == Turnstile!Init => GateInv
  <1> SUFFICES ASSUME Turnstile!Init PROVE GateInv
    OBVIOUS
  <1>1. request = [q \in Callers |-> Turnstile!Gone] /\ \A q \in Callers : request[q] = Turnstile!Gone
    BY DEF Turnstile!Init
  <1>2. GateShape
    BY <1>1, GateConstants DEF GateShape, Counts, Turnstile!Init, Turnstile!NoCount, Turnstile!Keys
  <1>3. \A k \in DOMAIN LimitOf : CountOK(k)
    BY GateConstants DEF CountOK, Turnstile!Init, Turnstile!NoCount, Turnstile!Keys
  <1>4. \A q \in Callers : AskOK(request[q], counter)
    BY <1>1, GoneAsks
  <1>5. Turnstile!SlotsHeld
    <2>1. \A p : Inside(request, p) = {} /\ Holding(request, p) = {}
      BY <1>1, GoneAsks DEF Inside, Holding, Going
    <2>2. \A p \in Hosts : slots[p] = 0 /\ gauge[p] = 0
      BY DEF Turnstile!Init
    <2>3. \A p \in Hosts : slots[p] <= CheckoutMaxInFlight
      BY <2>2, GateConstants
    <2>4. Slotted(slots, gauge, request)
      BY <2>1, <2>2, <2>3, FS_EmptySet DEF Slotted
    <2> QED
      BY <2>4, SlotsSpelt
  <1> QED
    BY <1>2, <1>3, <1>4, <1>5 DEF GateInv

(* A request goes on, in place, and the counters are left alone.           *)
LEMMA GateGoesOn ==
  ASSUME GateInv, NEW q \in Callers, NEW r, AskOK(r, counter), request' = [request EXCEPT ![q] = r],
         Going(request[q]) <=> Going(r),
         Going(r) => r.replica = request[q].replica /\ r.held = request[q].held,
         UNCHANGED <<slots, gauge, counter, admitted, faults>>
  PROVE  GateInv'
  <1>1. request'[q] = r /\ (\A o \in Callers : o # q => request'[o] = request[o])
        /\ request' = [o \in Callers |-> request'[o]]
    BY DEF GateInv, GateShape
  <1>2. Turnstile!SlotsHeld'
    BY <1>1, GateStill DEF GateInv
  <1>3. GateShape' /\ \A k \in DOMAIN LimitOf : CountOK(k)'
    BY <1>1 DEF GateInv, GateShape, CountOK
  <1>4. \A o \in Callers : AskOK(request'[o], counter')
    BY <1>1 DEF GateInv
  <1> QED
    BY <1>2, <1>3, <1>4 DEF GateInv

LEMMA GateEnters ==
  ASSUME GateInv, NEW q \in Callers, NEW p \in Hosts, NEW j \in Journeys, Turnstile!Enters(q, p, j)
  PROVE  GateInv'
  <1>0. request[q] = Turnstile!Gone /\ ~Going(request[q]) /\ UNCHANGED <<counter, admitted, faults>>
        /\ gauge' = [gauge EXCEPT ![p] = @ + 1]
    BY GoneAsks DEF Turnstile!Enters, Going
  <1>1. PICK arrived : arrived = [Turnstile!Gone EXCEPT !.replica = p, !.journey = j]
    OBVIOUS
  <1>2. IsAsk(arrived) /\ arrived.replica = p /\ arrived.journey = j /\ arrived.next = 1 /\ ~arrived.held
    BY <1>1, GoneAsks DEF IsAsk
  <1>3. PICK r : /\ IsAsk(r) /\ r.replica = p /\ r.journey = j /\ r.next = 1
                 /\ request' = [request EXCEPT ![q] = r]
                 /\ \/ /\ r.at = "session" /\ r.held /\ slots[p] < CheckoutMaxInFlight
                       /\ slots' = [slots EXCEPT ![p] = @ + 1]
                    \/ /\ r.at = "over" /\ r.status = 503 /\ ~r.held /\ slots' = slots
                    \/ /\ r.at = "count" /\ ~r.held /\ slots' = slots
    <2>1. PICK kept : kept = [arrived EXCEPT !.at = "session", !.held = TRUE]
      OBVIOUS
    <2>2. IsAsk(kept) /\ kept.replica = p /\ kept.journey = j /\ kept.next = 1 /\ kept.at = "session" /\ kept.held
      BY <1>2, <2>1 DEF IsAsk
    <2>3. PICK turned : turned = [arrived EXCEPT !.at = "over", !.status = 503, !.wait = 2]
      OBVIOUS
    <2>4. IsAsk(turned) /\ turned.replica = p /\ turned.journey = j /\ turned.next = 1 /\ turned.at = "over"
          /\ turned.status = 503 /\ ~turned.held
      BY <1>2, <2>3, ZenonT(60) DEF IsAsk
    <2>5. PICK signs : signs = [arrived EXCEPT !.at = "count"]
      OBVIOUS
    <2>6. IsAsk(signs) /\ signs.replica = p /\ signs.journey = j /\ signs.next = 1 /\ signs.at = "count" /\ ~signs.held
      BY <1>2, <2>5 DEF IsAsk
    <2>7. \/ /\ slots[p] < CheckoutMaxInFlight /\ slots' = [slots EXCEPT ![p] = @ + 1]
             /\ request' = [request EXCEPT ![q] = kept]
          \/ request' = [request EXCEPT ![q] = turned] /\ slots' = slots
          \/ request' = [request EXCEPT ![q] = signs] /\ slots' = slots
      BY <1>1, <2>1, <2>3, <2>5 DEF Turnstile!Enters, Turnstile!Becomes
    <2> QED
      BY <2>2, <2>4, <2>6, <2>7
  <1>4. request'[q] = r /\ (\A o \in Callers : o # q => request'[o] = request[o])
        /\ request' = [o \in Callers |-> request'[o]]
    BY <1>3 DEF GateInv, GateShape
  <1>5. AskOK(r, counter)
    <2>1. j.budgets \in Seq(DOMAIN LimitOf) /\ Len(j.budgets) >= 1
      BY GateConstants
    <2> QED
      BY <1>3, <2>1 DEF AskOK, Going, Asked, Refused
  <1>6. GateShape' /\ \A k \in DOMAIN LimitOf : CountOK(k)'
    BY <1>0, <1>3, <1>4 DEF GateInv, GateShape, CountOK
  <1>7. Slotted(slots', gauge', request')
    <2> SUFFICES ASSUME NEW s \in Hosts
                 PROVE  /\ slots'[s] = Cardinality(Holding(request', s))
                        /\ gauge'[s] = Cardinality(Inside(request', s)) /\ slots'[s] <= CheckoutMaxInFlight
      BY DEF Slotted
    <2>0. slots[s] = Cardinality(Holding(request, s)) /\ gauge[s] = Cardinality(Inside(request, s))
          /\ slots[s] <= CheckoutMaxInFlight
      BY SlotsSpelt DEF GateInv, Slotted
    <2>1. q \notin Inside(request, s) /\ q \notin Holding(request, s)
      BY <1>0 DEF Inside, Holding
    <2>2. /\ q \in Inside(request', s) <=> s = p
          /\ q \in Holding(request', s) <=> (s = p /\ r.held)
      BY <1>3, <1>4 DEF Inside, Holding, Going
    <2>3. /\ Inside(request', s) \subseteq Inside(request, s) \cup {q}
          /\ Inside(request, s) \subseteq Inside(request', s) \cup {q}
          /\ Holding(request', s) \subseteq Holding(request, s) \cup {q}
          /\ Holding(request, s) \subseteq Holding(request', s) \cup {q}
      BY <1>4 DEF Inside, Holding
    <2>4. /\ s = p => Cardinality(Inside(request', s)) = Cardinality(Inside(request, s)) + 1
          /\ s # p => Cardinality(Inside(request', s)) = Cardinality(Inside(request, s))
      BY <2>1, <2>2, <2>3, InsideFinite, OneMoreOrLess
    <2>5. /\ s = p /\ r.held => Cardinality(Holding(request', s)) = Cardinality(Holding(request, s)) + 1
          /\ ~(s = p /\ r.held) => Cardinality(Holding(request', s)) = Cardinality(Holding(request, s))
      BY <2>1, <2>2, <2>3, InsideFinite, OneMoreOrLess
    <2>6. gauge'[s] = Cardinality(Inside(request', s))
      BY <1>0, <2>0, <2>4 DEF GateInv, GateShape
    <2>7. slots'[s] = Cardinality(Holding(request', s)) /\ slots'[s] <= CheckoutMaxInFlight
      <3>1. CASE s = p /\ r.held
        <4>1. slots[p] < CheckoutMaxInFlight /\ slots'[p] = slots[p] + 1 /\ slots[p] \in Int
          BY <1>3, <3>1 DEF GateInv, GateShape
        <4> QED
          BY <2>0, <2>5, <3>1, <4>1, GateConstants
      <3>2. CASE ~(s = p /\ r.held)
        <4>1. slots'[s] = slots[s]
          BY <1>3, <3>2 DEF GateInv, GateShape
        <4> QED
          BY <2>0, <2>5, <3>2, <4>1
      <3> QED
        BY <3>1, <3>2
    <2> QED
      BY <2>6, <2>7
  <1>8. \A o \in Callers : AskOK(request'[o], counter')
    BY <1>0, <1>4, <1>5 DEF GateInv
  <1> QED
    BY <1>6, <1>7, <1>8, SlotsSpelt DEF GateInv

LEMMA GateAuthenticates ==
  ASSUME GateInv, NEW q \in Callers, Turnstile!Authenticates(q) \/ Turnstile!Works(q)
  PROVE  GateInv'
  <1>1. AskOK(request[q], counter) /\ UNCHANGED <<slots, gauge, counter, admitted, faults>>
        /\ request[q].at \in {"session", "work"}
    BY DEF GateInv, Turnstile!Authenticates, Turnstile!Works
  <1>2. CASE request[q].at = "session" /\ request' = [request EXCEPT ![q] = [request[q] EXCEPT !.at = "count"]]
    <2>1. PICK r : r = [request[q] EXCEPT !.at = "count"]
      OBVIOUS
    <2>2. IsAsk(r) /\ r.at = "count" /\ r.replica = request[q].replica /\ r.held = request[q].held
          /\ r.journey = request[q].journey /\ r.next = request[q].next
      BY <1>1, <2>1 DEF AskOK, IsAsk
    <2>3. AskOK(r, counter) /\ Going(r) /\ Going(request[q])
      BY <1>1, <1>2, <2>2 DEF AskOK, Going, Asked, Refused
    <2> QED
      BY <1>1, <1>2, <2>1, <2>2, <2>3, GateGoesOn
  <1>3. ASSUME NEW told \in {401, 503, 200, 0}, NEW wait,
               request' = [request EXCEPT ![q] = Turnstile!Over(q, told, wait)]
        PROVE  GateInv'
    <2>1. PICK r : r = [request[q] EXCEPT !.at = "over", !.status = told, !.wait = wait]
      OBVIOUS
    <2>2. IsAsk(r) /\ r.at = "over" /\ r.replica = request[q].replica /\ r.held = request[q].held /\ r.status = told
      BY <1>1, <2>1, ZenonT(60) DEF AskOK, IsAsk
    <2>3. AskOK(r, counter) /\ Going(r) /\ Going(request[q])
      BY <1>1, <2>2 DEF AskOK, Going, Refused
    <2> QED
      BY <1>1, <1>3, <2>1, <2>2, <2>3, GateGoesOn, ZenonT(60) DEF Turnstile!Over
  <1> QED
    BY <1>2, <1>3 DEF Turnstile!Authenticates, Turnstile!Works, Turnstile!Becomes

(* A key is counted: its window begins if it has none, and a window that   *)
(* runs is not made longer.                                                *)
LEMMA CountKept ==
  ASSUME GateInv, NEW k \in DOMAIN LimitOf, counter' = [counter EXCEPT ![k] = Turnstile!Incremented(k)]
  PROVE  /\ counter' \in [DOMAIN LimitOf -> Counts]
         /\ counter'[k].n = counter[k].n + 1 /\ counter'[k].ttl \in 1..Window
         /\ \A o \in DOMAIN LimitOf : (counter'[o].n = 0 <=> counter'[o].ttl = 0) /\ (o # k => counter'[o] = counter[o])
         /\ \A o \in DOMAIN LimitOf : counter[o].ttl >= 1 => counter'[o].ttl = counter[o].ttl
  <1>1. counter[k] \in Counts /\ (counter[k].n = 0 <=> counter[k].ttl = 0)
    BY DEF GateInv, GateShape, CountOK
  <1>2. Turnstile!Incremented(k) \in Counts /\ Turnstile!Incremented(k).n = counter[k].n + 1
        /\ Turnstile!Incremented(k).ttl \in 1..Window
        /\ (counter[k].ttl >= 1 => Turnstile!Incremented(k).ttl = counter[k].ttl)
    BY <1>1, GateConstants DEF Counts, Turnstile!Incremented
  <1>3. counter' \in [DOMAIN LimitOf -> Counts] /\ counter'[k] = Turnstile!Incremented(k)
        /\ \A o \in DOMAIN LimitOf : o # k => counter'[o] = counter[o]
    BY <1>2 DEF GateInv, GateShape
  <1>4. ASSUME NEW o \in DOMAIN LimitOf
        PROVE  /\ counter'[o].n = 0 <=> counter'[o].ttl = 0
               /\ counter[o].ttl >= 1 => counter'[o].ttl = counter[o].ttl
    <2>1. CASE o = k
      BY <1>1, <1>2, <1>3, <2>1 DEF Counts
    <2>2. CASE o # k
      BY <1>3, <2>2 DEF GateInv, CountOK
    <2> QED
      BY <2>1, <2>2
  <1> QED
    BY <1>2, <1>3, <1>4

LEMMA AskStands ==
  ASSUME NEW r, NEW c, NEW d, AskOK(r, c),
         \A o \in DOMAIN LimitOf : c[o].ttl >= 1 => d[o].ttl = c[o].ttl
  PROVE  AskOK(r, d)
  <1>1. ASSUME Refused(r), ~r.ended PROVE d[Budget(r)].ttl \in 1..r.wait
    <2>1. Budget(r) \in DOMAIN LimitOf
      BY <1>1 DEF AskOK, Asked, Budget
    <2> QED
      BY <1>1, <2>1 DEF AskOK
  <1> QED
    BY <1>1 DEF AskOK

LEMMA GateAllows ==
  ASSUME NEW q \in Callers, NEW c, AskOK(request[q], c), request[q].at = "count"
  PROVE  LET r == Turnstile!Allowed(q)
         IN  AskOK(r, c) /\ Going(r) /\ r.replica = request[q].replica /\ r.held = request[q].held
  <1>1. PICK at \in {"work", "count"} :
           at = IF request[q].next = Len(request[q].journey.budgets) THEN "work" ELSE "count"
    OBVIOUS
  <1>2. PICK r : r = [request[q] EXCEPT !.next = @ + 1, !.at = at]
    OBVIOUS
  <1>3. r = Turnstile!Allowed(q)
    BY <1>1, <1>2 DEF Turnstile!Allowed
  <1>4. IsAsk(r) /\ r.at = at /\ r.replica = request[q].replica /\ r.held = request[q].held
        /\ r.journey = request[q].journey /\ r.next = request[q].next + 1
    BY <1>2 DEF AskOK, IsAsk
  <1>5. Asked(request[q])
    BY DEF AskOK
  <1>6. at = "count" => Asked(r)
    BY <1>1, <1>4, <1>5 DEF Asked
  <1>7. AskOK(r, c) /\ Going(r)
    BY <1>4, <1>6 DEF AskOK, Going, Refused
  <1> QED
    BY <1>3, <1>4, <1>7

LEMMA GateCounts ==
  ASSUME GateInv, NEW q \in Callers, Turnstile!Count(q) \/ Turnstile!CountFails(q)
  PROVE  GateInv'
  <1> DEFINE k == Turnstile!Key(q)
  <1>0. request[q].at = "count" /\ AskOK(request[q], counter) /\ UNCHANGED <<slots, gauge>>
    BY DEF GateInv, Turnstile!Count, Turnstile!CountFails
  <1>1. k \in DOMAIN LimitOf
    BY <1>0 DEF AskOK, Asked, Turnstile!Key
  <1> HIDE DEF k
  <1>2. /\ counter' \in [DOMAIN LimitOf -> Counts]
        /\ \A o \in DOMAIN LimitOf : counter'[o].n = 0 <=> counter'[o].ttl = 0
        /\ \A o \in DOMAIN LimitOf : counter[o].ttl >= 1 => counter'[o].ttl = counter[o].ttl
    <2>1. CASE counter' = counter
      BY <2>1 DEF GateInv, GateShape, CountOK
    <2>2. CASE counter' = [counter EXCEPT ![k] = Turnstile!Incremented(k)]
      BY <1>1, <2>2, CountKept
    <2> QED
      BY <2>1, <2>2 DEF Turnstile!Count, Turnstile!CountFails, k
  <1>3. \A o \in Callers : AskOK(request[o], counter')
    BY <1>2, AskStands DEF GateInv
  <1>4. ASSUME NEW r, AskOK(r, counter'), request' = [request EXCEPT ![q] = r], Going(r),
               r.replica = request[q].replica, r.held = request[q].held,
               admitted' \in [DOMAIN LimitOf -> Nat], faults' \in Nat,
               \A o \in DOMAIN LimitOf : faults' = 0 => admitted'[o] <= counter'[o].n /\ admitted'[o] <= LimitOf[o]
        PROVE  GateInv'
    <2>1. request'[q] = r /\ (\A o \in Callers : o # q => request'[o] = request[o])
          /\ request' = [o \in Callers |-> request'[o]]
      BY <1>4 DEF GateInv, GateShape
    <2>2. Turnstile!SlotsHeld'
      BY <1>0, <1>4, <2>1, GateStill DEF GateInv, Going
    <2>3. GateShape'
      BY <1>0, <1>2, <1>4, <2>1 DEF GateInv, GateShape
    <2>4. \A o \in DOMAIN LimitOf : CountOK(o)'
      BY <1>2, <1>4 DEF CountOK
    <2>5. \A o \in Callers : AskOK(request'[o], counter')
      BY <1>3, <1>4, <2>1
    <2> QED
      BY <2>2, <2>3, <2>4, <2>5 DEF GateInv
  <1>5. LET r == Turnstile!Allowed(q)
        IN  AskOK(r, counter') /\ Going(r) /\ r.replica = request[q].replica /\ r.held = request[q].held
    BY <1>0, <1>3, GateAllows
  <1>6. CASE Turnstile!CountFails(q)
    <2>1. /\ request' = [request EXCEPT ![q] = Turnstile!Allowed(q)] /\ faults' = faults + 1
          /\ admitted' = [admitted EXCEPT ![k] = @ + 1]
      BY <1>6 DEF Turnstile!CountFails, Turnstile!Becomes, k
    <2>2. admitted' \in [DOMAIN LimitOf -> Nat] /\ faults' \in Nat /\ faults' # 0
      BY <1>1, <2>1 DEF GateInv, GateShape
    <2> QED
      BY <1>4, <1>5, <2>1, <2>2
  <1>7. CASE Turnstile!Count(q)
    <2>1. counter' = [counter EXCEPT ![k] = Turnstile!Incremented(k)] /\ faults' = faults
      BY <1>7 DEF Turnstile!Count, k
    <2>2. /\ counter'[k] = Turnstile!Incremented(k) /\ counter'[k].n = counter[k].n + 1 /\ counter'[k].ttl \in 1..Window
          /\ \A o \in DOMAIN LimitOf : o # k => counter'[o] = counter[o]
      BY <1>1, <2>1, CountKept DEF GateInv, GateShape
    <2>3. counter[k].n \in Nat /\ admitted \in [DOMAIN LimitOf -> Nat] /\ faults \in Nat /\ LimitOf[k] \in Nat
      BY <1>1, GateConstants DEF GateInv, GateShape, Counts
    <2>4. \A o \in DOMAIN LimitOf : faults = 0 => admitted[o] <= counter[o].n /\ admitted[o] <= LimitOf[o]
      BY DEF GateInv, CountOK
    <2>5. CASE counter'[k].n <= LimitOf[k]
      <3>1. request' = [request EXCEPT ![q] = Turnstile!Allowed(q)] /\ admitted' = [admitted EXCEPT ![k] = @ + 1]
        BY <1>7, <2>2, <2>5 DEF Turnstile!Count, Turnstile!Becomes, k
      <3>2. admitted' \in [DOMAIN LimitOf -> Nat] /\ admitted'[k] = admitted[k] + 1
            /\ \A o \in DOMAIN LimitOf : o # k => admitted'[o] = admitted[o]
        BY <1>1, <2>3, <3>1
      <3>3. ASSUME NEW o \in DOMAIN LimitOf, faults' = 0
            PROVE  admitted'[o] <= counter'[o].n /\ admitted'[o] <= LimitOf[o]
        <4>1. CASE o = k
          BY <2>1, <2>2, <2>3, <2>4, <2>5, <3>2, <3>3, <4>1
        <4>2. CASE o # k
          BY <2>1, <2>2, <2>4, <3>2, <3>3, <4>2
        <4> QED
          BY <4>1, <4>2
      <3> QED
        BY <1>4, <1>5, <2>1, <2>3, <3>1, <3>2, <3>3
    <2>6. CASE ~(counter'[k].n <= LimitOf[k])
      <3>1. request' = [request EXCEPT ![q] = Turnstile!Over(q, 429, Turnstile!Wait(counter'[k].ttl))]
            /\ admitted' = admitted
        BY <1>7, <2>2, <2>6 DEF Turnstile!Count, Turnstile!Becomes, k
      <3>2. PICK wait \in Nat : wait = Turnstile!Wait(counter'[k].ttl) /\ wait >= counter'[k].ttl
        <4>1. counter'[k].ttl \in Nat
          BY <2>2, GateConstants
        <4>2. \A t \in Nat : 2 * (t \div 2 + 1) \in Nat /\ 2 * (t \div 2 + 1) >= t
          OBVIOUS
        <4> QED
          BY <4>1, <4>2 DEF Turnstile!Wait
      <3>3. PICK r : r = [request[q] EXCEPT !.at = "over", !.status = 429, !.wait = wait]
        OBVIOUS
      <3>4. IsAsk(r) /\ r.at = "over" /\ r.replica = request[q].replica /\ r.held = request[q].held /\ r.status = 429
            /\ r.wait = wait /\ r.journey = request[q].journey /\ r.next = request[q].next
        BY <1>0, <3>3, ZenonT(60) DEF AskOK, IsAsk
      <3>5. Budget(r) = k
        BY <3>4 DEF Budget, Turnstile!Key, k
      <3>6. AskOK(r, counter') /\ Going(r)
        BY <1>0, <2>2, <3>2, <3>4, <3>5, GateConstants DEF AskOK, Going, Refused, Asked
      <3>7. ASSUME NEW o \in DOMAIN LimitOf, faults' = 0
            PROVE  admitted'[o] <= counter'[o].n /\ admitted'[o] <= LimitOf[o]
        BY <2>1, <2>2, <2>3, <2>4, <3>1, <3>7
      <3>8. request' = [request EXCEPT ![q] = r]
        BY <3>1, <3>2, <3>3 DEF Turnstile!Over
      <3> QED
        BY <1>4, <2>1, <2>3, <3>1, <3>4, <3>6, <3>7, <3>8
    <2> QED
      BY <2>5, <2>6
  <1> QED
    BY <1>6, <1>7

LEMMA GateReturns ==
  ASSUME GateInv, NEW q \in Callers, Turnstile!Returns(q)
  PROVE  GateInv'
  <1>1. request' = [request EXCEPT ![q] = Turnstile!Gone] /\ UNCHANGED <<slots, gauge, counter, admitted, faults>>
        /\ ~Going(request[q]) /\ ~Going(Turnstile!Gone)
    BY GoneAsks DEF Turnstile!Returns, Turnstile!Becomes, Going
  <1> QED
    BY <1>1, GoneAsks, GateGoesOn

LEMMA GateEnds ==
  ASSUME GateInv, NEW q \in Callers, Turnstile!Ends(q)
  PROVE  GateInv'
  <1>0. /\ request[q].at = "over" /\ AskOK(request[q], counter) /\ UNCHANGED <<counter, admitted, faults>>
        /\ gauge' = [gauge EXCEPT ![request[q].replica] = @ - 1]
        /\ slots' = IF request[q].held THEN [slots EXCEPT ![request[q].replica] = @ - 1] ELSE slots
    BY DEF GateInv, Turnstile!Ends, Turnstile!Leaves
  <1>1. PICK r : AskOK(r, counter) /\ ~Going(r) /\ request' = [request EXCEPT ![q] = r]
    <2>1. CASE request[q].status = 429
      <3>1. PICK r : r = [request[q] EXCEPT !.at = "waits", !.held = FALSE]
        OBVIOUS
      <3>2. request' = [request EXCEPT ![q] = r]
        BY <2>1, <3>1 DEF Turnstile!Ends, Turnstile!Becomes
      <3>3. IsAsk(r) /\ r.at = "waits" /\ r.status = 429 /\ r.wait = request[q].wait /\ r.ended = request[q].ended
            /\ r.journey = request[q].journey /\ r.next = request[q].next
        BY <1>0, <2>1, <3>1, ZenonT(60) DEF AskOK, IsAsk
      <3>4. AskOK(r, counter) /\ ~Going(r)
        BY <1>0, <2>1, <3>3 DEF AskOK, Refused, Asked, Budget, Going
      <3> QED
        BY <3>2, <3>4
    <2>2. CASE request[q].status # 429
      BY <2>2, GoneAsks, ZenonT(60) DEF Turnstile!Ends, Turnstile!Becomes, Going
    <2> QED
      BY <2>1, <2>2
  <1>2. request'[q] = r /\ (\A o \in Callers : o # q => request'[o] = request[o])
        /\ request' = [o \in Callers |-> request'[o]]
    BY <1>1 DEF GateInv, GateShape
  <1>3. PICK p \in Hosts : p = request[q].replica
    BY <1>0 DEF AskOK, Going
  <1>4. GateShape' /\ \A k \in DOMAIN LimitOf : CountOK(k)'
    BY <1>0, <1>2, <1>3 DEF GateInv, GateShape, CountOK
  <1>5. Slotted(slots', gauge', request')
    <2> SUFFICES ASSUME NEW s \in Hosts
                 PROVE  /\ slots'[s] = Cardinality(Holding(request', s))
                        /\ gauge'[s] = Cardinality(Inside(request', s)) /\ slots'[s] <= CheckoutMaxInFlight
      BY DEF Slotted
    <2>0. slots[s] = Cardinality(Holding(request, s)) /\ gauge[s] = Cardinality(Inside(request, s))
          /\ slots[s] <= CheckoutMaxInFlight
      BY SlotsSpelt DEF GateInv, Slotted
    <2>1. q \notin Inside(request', s) /\ q \notin Holding(request', s)
      BY <1>1, <1>2 DEF Inside, Holding
    <2>2. /\ q \in Inside(request, s) <=> s = p
          /\ q \in Holding(request, s) <=> (s = p /\ request[q].held)
      BY <1>0, <1>3 DEF Inside, Holding, Going
    <2>3. /\ Inside(request', s) \subseteq Inside(request, s) \cup {q}
          /\ Inside(request, s) \subseteq Inside(request', s) \cup {q}
          /\ Holding(request', s) \subseteq Holding(request, s) \cup {q}
          /\ Holding(request, s) \subseteq Holding(request', s) \cup {q}
      BY <1>2 DEF Inside, Holding
    <2>4. /\ s = p => Cardinality(Inside(request', s)) = Cardinality(Inside(request, s)) - 1
          /\ s # p => Cardinality(Inside(request', s)) = Cardinality(Inside(request, s))
      BY <2>1, <2>2, <2>3, InsideFinite, OneMoreOrLess
    <2>5. /\ s = p /\ request[q].held => Cardinality(Holding(request', s)) = Cardinality(Holding(request, s)) - 1
          /\ ~(s = p /\ request[q].held) => Cardinality(Holding(request', s)) = Cardinality(Holding(request, s))
      BY <2>1, <2>2, <2>3, InsideFinite, OneMoreOrLess
    <2>6. gauge'[s] = Cardinality(Inside(request', s))
      BY <1>0, <1>3, <2>0, <2>4 DEF GateInv, GateShape
    <2>7. slots'[s] = Cardinality(Holding(request', s)) /\ slots'[s] <= CheckoutMaxInFlight
      <3>1. CASE s = p /\ request[q].held
        <4>1. slots'[p] = slots[p] - 1 /\ slots[p] \in Int
          BY <1>0, <1>3, <3>1 DEF GateInv, GateShape
        <4> QED
          BY <2>0, <2>5, <3>1, <4>1, GateConstants
      <3>2. CASE ~(s = p /\ request[q].held)
        <4>1. slots'[s] = slots[s]
          BY <1>0, <1>3, <3>2 DEF GateInv, GateShape
        <4> QED
          BY <2>0, <2>5, <3>2, <4>1
      <3> QED
        BY <3>1, <3>2
    <2> QED
      BY <2>6, <2>7
  <1>6. \A o \in Callers : AskOK(request'[o], counter')
    BY <1>0, <1>1, <1>2 DEF GateInv
  <1> QED
    BY <1>4, <1>5, <1>6, SlotsSpelt DEF GateInv

LEMMA GateCrashes ==
  ASSUME GateInv, NEW p \in Hosts, Turnstile!Crash(p)
  PROVE  GateInv'
  <1>0. /\ slots' = [slots EXCEPT ![p] = 0] /\ gauge' = [gauge EXCEPT ![p] = 0] /\ UNCHANGED <<counter, admitted>>
        /\ faults' = faults + 1
        /\ request' = [q \in Callers |-> IF Going(request[q]) /\ request[q].replica = p THEN Turnstile!Gone ELSE request[q]]
    BY DEF Turnstile!Crash, Turnstile!UnderWay, Going
  <1>1. GateShape' /\ \A k \in DOMAIN LimitOf : CountOK(k)'
    BY <1>0 DEF GateInv, GateShape, CountOK
  <1>2. \A q \in Callers : AskOK(request'[q], counter')
    BY <1>0, GoneAsks DEF GateInv
  <1>3. Slotted(slots', gauge', request')
    <2> SUFFICES ASSUME NEW s \in Hosts
                 PROVE  /\ slots'[s] = Cardinality(Holding(request', s))
                        /\ gauge'[s] = Cardinality(Inside(request', s)) /\ slots'[s] <= CheckoutMaxInFlight
      BY DEF Slotted
    <2>0. slots[s] = Cardinality(Holding(request, s)) /\ gauge[s] = Cardinality(Inside(request, s))
          /\ slots[s] <= CheckoutMaxInFlight
      BY SlotsSpelt DEF GateInv, Slotted
    <2>1. CASE s = p
      <3>1. Inside(request', s) = {} /\ Holding(request', s) = {}
        BY <1>0, <2>1, GoneAsks DEF Inside, Holding, Going
      <3>2. slots'[s] = 0 /\ gauge'[s] = 0
        BY <1>0, <2>1 DEF GateInv, GateShape
      <3> QED
        BY <3>1, <3>2, FS_EmptySet, GateConstants, SMTT(30)
    <2>2. CASE s # p
      <3>1. Inside(request', s) = Inside(request, s) /\ Holding(request', s) = Holding(request, s)
        BY <1>0, <2>2, GoneAsks DEF Inside, Holding, Going
      <3>2. slots'[s] = slots[s] /\ gauge'[s] = gauge[s]
        BY <1>0, <2>2 DEF GateInv, GateShape
      <3> QED
        BY <2>0, <3>1, <3>2, SMTT(30)
    <2> QED
      BY <2>1, <2>2
  <1> QED
    BY <1>1, <1>2, <1>3, SlotsSpelt DEF GateInv

LEMMA GateTicks ==
  ASSUME GateInv, Turnstile!Tick
  PROVE  GateInv'
  <1> DEFINE Over == {k \in DOMAIN LimitOf : counter[k].ttl = 1}
             Waited(q) == [request[q] EXCEPT !.wait = IF @ = 0 THEN 0 ELSE @ - 1, !.ended = @ \/ Turnstile!Key(q) \in Over]
  <1>0. /\ UNCHANGED <<slots, gauge, faults>>
        /\ counter' = [k \in DOMAIN LimitOf |-> IF counter[k].ttl <= 1 THEN Turnstile!NoCount
                                                ELSE [counter[k] EXCEPT !.ttl = @ - 1]]
        /\ admitted' = [k \in DOMAIN LimitOf |-> IF k \in Over THEN 0 ELSE admitted[k]]
        /\ request' = [q \in Callers |-> IF Refused(request[q]) THEN Waited(q) ELSE request[q]]
    BY DEF Turnstile!Tick, Turnstile!Keys, Refused
  <1>1. ASSUME NEW k \in DOMAIN LimitOf
        PROVE  /\ counter'[k] \in Counts /\ CountOK(k)' /\ admitted'[k] \in Nat
               /\ counter[k].ttl >= 2 => counter'[k].ttl = counter[k].ttl - 1
    <2>0. counter[k] \in Counts /\ counter[k].n \in Nat /\ counter[k].ttl \in Nat /\ counter[k].ttl <= Window
          /\ CountOK(k) /\ admitted[k] \in Nat /\ LimitOf[k] \in Nat
      BY GateConstants DEF GateInv, GateShape, Counts
    <2>1. CASE counter[k].ttl <= 1
      <3>1. counter'[k] = Turnstile!NoCount
        BY <1>0, <2>1
      <3>2. Turnstile!NoCount \in Counts /\ Turnstile!NoCount.n = 0 /\ Turnstile!NoCount.ttl = 0
        BY GateConstants, SMTT(30) DEF Turnstile!NoCount, Counts
      <3>3. admitted'[k] = IF counter[k].ttl = 1 THEN 0 ELSE admitted[k]
        BY <1>0
      <3>4. faults' = faults
        BY <1>0
      <3> QED
        BY <2>0, <2>1, <3>1, <3>2, <3>3, <3>4, SMTT(30) DEF CountOK
    <2>2. CASE ~(counter[k].ttl <= 1)
      <3>1. PICK left : left = counter[k].ttl - 1
        OBVIOUS
      <3>2. PICK c : c = [counter[k] EXCEPT !.ttl = left]
        OBVIOUS
      <3>3. left \in Nat /\ left <= Window
        BY <2>0, <2>2, <3>1, GateConstants, SMTT(30)
      <3>4. c \in Counts /\ c.n = counter[k].n /\ c.ttl = left
        BY <2>0, <3>2, <3>3 DEF Counts
      <3>5. counter'[k] = c
        BY <1>0, <2>2, <3>1, <3>2
      <3>6. k \notin Over
        BY <2>0, <2>2, SMTT(30)
      <3>7. admitted'[k] = admitted[k] /\ faults' = faults
        BY <1>0, <3>6
      <3> QED
        BY <2>0, <2>2, <3>1, <3>3, <3>4, <3>5, <3>7 DEF CountOK
    <2> QED
      BY <2>1, <2>2
  <1>2. GateShape'
    BY <1>0, <1>1 DEF GateInv, GateShape
  <1>3. ASSUME NEW q \in Callers
        PROVE  /\ AskOK(request'[q], counter') /\ request'[q].at = request[q].at
               /\ request'[q].replica = request[q].replica /\ request'[q].held = request[q].held
    <2>0. AskOK(request[q], counter)
      BY DEF GateInv
    <2>1. CASE ~Refused(request[q])
      <3>1. request'[q] = request[q]
        BY <1>0, <2>1
      <3> QED
        BY <2>0, <2>1, <3>1, SMTT(30) DEF AskOK
    <2>2. CASE Refused(request[q])
      <3>1. PICK wait : wait = IF request[q].wait = 0 THEN 0 ELSE request[q].wait - 1
        OBVIOUS
      <3>2. PICK over \in BOOLEAN : over <=> (request[q].ended \/ Turnstile!Key(q) \in Over)
        OBVIOUS
      <3>3. PICK r : r = [request[q] EXCEPT !.wait = wait, !.ended = over]
        OBVIOUS
      <3>4. request'[q] = r
        BY <1>0, <2>2, <3>1, <3>2, <3>3
      <3>5. IsAsk(r) /\ r.at = request[q].at /\ r.replica = request[q].replica /\ r.held = request[q].held
            /\ r.status = request[q].status /\ r.journey = request[q].journey /\ r.next = request[q].next
            /\ r.wait = wait /\ r.ended = over
        BY <2>0, <3>3 DEF AskOK, IsAsk
      <3>6. Budget(r) = Turnstile!Key(q) /\ Budget(request[q]) = Turnstile!Key(q)
        BY <3>5 DEF Budget, Turnstile!Key
      <3>7. Turnstile!Key(q) \in DOMAIN LimitOf
        BY <2>0, <2>2, <3>6 DEF AskOK, Asked, Budget
      <3>8. wait \in Nat /\ (over \/ counter'[Turnstile!Key(q)].ttl \in 1..wait)
        <4>1. request[q].wait \in Nat /\ (request[q].ended \/ counter[Turnstile!Key(q)].ttl \in 1..request[q].wait)
          BY <2>0, <2>2, <3>6 DEF AskOK
        <4>2. CASE over
          BY <3>1, <4>1, <4>2
        <4>3. CASE ~over
          <5>1. counter[Turnstile!Key(q)].ttl \in 1..request[q].wait /\ counter[Turnstile!Key(q)].ttl # 1
            BY <3>2, <3>7, <4>1, <4>3
          <5>2. counter'[Turnstile!Key(q)].ttl = counter[Turnstile!Key(q)].ttl - 1
            BY <1>1, <3>7, <4>1, <5>1
          <5> QED
            BY <3>1, <4>1, <5>1, <5>2
        <4> QED
          BY <4>2, <4>3
      <3>9. AskOK(r, counter')
        BY <2>0, <2>2, <3>5, <3>6, <3>8, SMTT(30) DEF AskOK, Going, Refused, Asked
      <3> QED
        BY <3>4, <3>5, <3>9
    <2> QED
      BY <2>1, <2>2
  <1>4. Turnstile!SlotsHeld'
    BY <1>0, <1>3, GateStill DEF GateInv, Going
  <1> QED
    BY <1>1, <1>2, <1>3, <1>4, SMTT(30) DEF GateInv

LEMMA GateKept ==
  ASSUME GateInv, [Turnstile!Next]_turnstileVars
  PROVE  GateInv'
  <1>1. CASE UNCHANGED turnstileVars
    <2>1. UNCHANGED <<slots, gauge, request, counter, admitted, faults>>
      BY <1>1 DEF turnstileVars
    <2>2. Turnstile!SlotsHeld'
      BY <2>1, SlotsSpelt DEF GateInv
    <2> QED
      BY <2>1, <2>2 DEF GateInv, GateShape, CountOK
  <1> QED
    BY <1>1, GateEnters, GateAuthenticates, GateCounts, GateEnds, GateReturns, GateCrashes, GateTicks DEF Turnstile!Next

LEMMA GateSafe == GateInv => Turnstile!TypeOK /\ Turnstile!GateSound
  <1> SUFFICES ASSUME GateInv PROVE Turnstile!TypeOK /\ Turnstile!GateSound
    OBVIOUS
  <1>1. Turnstile!TypeOK
    BY DEF GateInv, GateShape, Counts, CountOK, AskOK, Turnstile!TypeOK, Turnstile!Keys
  <1>2. Turnstile!BudgetKept
    BY DEF GateInv, CountOK, Turnstile!BudgetKept, Turnstile!Keys
  <1>3. Turnstile!PatienceRewarded
    BY DEF GateInv, AskOK, Refused, Turnstile!PatienceRewarded
  <1> QED
    BY <1>1, <1>2, <1>3 DEF GateInv, Turnstile!GateSound

-----------------------------------------------------------------------------
(* A release.  A replica that builds has the lock, and what is left for it *)
(* to build is what is missing; once an index stands nobody takes it down. *)
(* The data are all of the old schema, or read as they were sold.          *)
Stages == {"down", "migrated", "trying", "building", "creating", "dropping", "serving", "draining"}
IsBoot(b) ==
    /\ b = [at |-> b.at, missing |-> b.missing, skipped |-> b.skipped]
    /\ b.at \in Stages /\ b.missing \subseteq Release!Names
Builds(b) == b.at \in {"building", "creating"}
BootOK(r) ==
    /\ IsBoot(replica[r])
    /\ Builds(replica[r]) =>
         /\ lock = r
         /\ \A i \in replica[r].missing : index[i] # "valid"
         /\ \A i \in Release!Names : Release!IsRule(i) /\ i \notin replica[r].missing => index[i] = "valid"
    /\ replica[r].at = "creating" => replica[r].missing # {}
    /\ replica[r].at = "dropping" => \A i \in Release!Names : index[i] = "valid"
    /\ replica[r].at = "serving" /\ ~replica[r].skipped => ~superseded
    /\ replica[r].at # "down" => schema = "new"
IndexInv ==
    /\ replica = [r \in Callers |-> replica[r]] /\ lock \in Callers \cup {idle}
    /\ index = [i \in Release!Names |-> index[i]]
    /\ \A i \in Release!Names : index[i] \in {"none", "invalid", "valid"}
    /\ \A r \in Callers : BootOK(r)
    /\ ~superseded => \A i \in Release!Names : Release!IsRule(i) => index[i] = "valid"

SaleLine(o) == [tier |-> Sales[o].tier, quantity |-> Sales[o].quantity, total |-> Sales[o].total]
AsSold(o, w, show) ==
    /\ w = [tier |-> w.tier, quantity |-> w.quantity, total |-> w.total, event |-> w.event, lines |-> w.lines,
            subtotal |-> w.subtotal, fee |-> w.fee]
    /\ w.tier = 0 /\ w.quantity = 0 /\ w.lines = {SaleLine(o)} /\ w.event = show[Sales[o].tier]
    /\ w.subtotal = Sales[o].total /\ w.fee \in Nat /\ w.total = w.subtotal + w.fee
    /\ w.subtotal = 0 => w.total = 0
Drawn == {t \in DOMAIN Tiers : Tiers[t].drawn}
OldData ==
    /\ \A t \in DOMAIN Tiers : event[t] = 0
    /\ DOMAIN events = {} /\ media = [t \in Drawn |-> t]
    /\ \A o \in DOMAIN sold : sold[o] = Release!OldRow(o)
NewData ==
    /\ \A t \in DOMAIN Tiers : event[t] # 0 /\ event[t] \in DOMAIN events
    /\ events = [e \in DOMAIN events |-> events[e]]
    /\ \A o \in DOMAIN sold : AsSold(o, sold[o], event)
    /\ Release!ShowsStand
DataInv ==
    /\ schema \in {"old", "new"}
    /\ sold = [o \in DOMAIN sold |-> sold[o]] /\ DOMAIN sold \subseteq DOMAIN Sales
    /\ event = [t \in DOMAIN Tiers |-> event[t]]
    /\ schema = "old" => OldData
    /\ schema = "new" => NewData
ReleaseInv == IndexInv /\ DataInv

LEMMA ReleaseConstants ==
  /\ idle \notin Callers /\ MaxMisses \in Nat
  /\ Tiers \in Seq([owner : STRING, name : STRING, drawn : BOOLEAN])
  /\ Sales \in Seq([tier : DOMAIN Tiers, quantity : Nat, total : Nat, new : BOOLEAN])
  /\ Rules \in Seq(STRING) /\ Speed \in Seq(STRING)
  BY BackstageAssumption DEF Release!StartupAssumption

LEMMA ReleaseStarts == Release!Init => ReleaseInv
  <1> SUFFICES ASSUME Release!Init PROVE ReleaseInv
    OBVIOUS
  <1>1. \A r \in Callers : replica[r] = Release!Down
    BY DEF Release!Init
  <1>2. IsBoot(Release!Down) /\ Release!Down.at = "down"
    BY DEF IsBoot, Stages, Release!Down
  <1>3. \A r \in Callers : BootOK(r)
    BY <1>1, <1>2 DEF BootOK, Builds
  <1>4. superseded
    BY DEF Release!Init
  <1>5. IndexInv
    BY <1>3, <1>4 DEF IndexInv, Release!Init
  <1>6. DOMAIN events = {} /\ DOMAIN sold = {} /\ sold = [o \in DOMAIN sold |-> sold[o]]
    BY DEF Release!Init
  <1>7. DataInv
    BY <1>6 DEF DataInv, OldData, Drawn, Release!Init
  <1> QED
    BY <1>5, <1>7 DEF ReleaseInv

-----------------------------------------------------------------------------
(* Who does not move keeps its place.                                      *)
LEMMA BootStands ==
  ASSUME NEW r \in Callers, BootOK(r), replica'[r] = replica[r], UNCHANGED index, lock = r => lock' = r,
         superseded' => superseded, schema = "new" => schema' = "new"
  PROVE  BootOK(r)'
  BY DEF BootOK

LEMMA NextIsMissing ==
  ASSUME NEW r, replica[r].missing \subseteq Release!Names, replica[r].missing # {}
  PROVE  Release!NextIndex(r) \in replica[r].missing
  <1> DEFINE Left == {n \in DOMAIN Release!All : Release!All[n] \in replica[r].missing}
  <1>1. Release!All \in Seq(STRING)
    BY ReleaseConstants DEF Release!All
  <1>2. DOMAIN Release!All = 1..Len(Release!All) /\ Len(Release!All) \in Nat
    BY <1>1
  <1>3. Left # {}
    BY DEF Release!Names
  <1>4. Left \subseteq Int /\ IsFiniteSet(Left)
    <2>1. IsFiniteSet(1..Len(Release!All))
      BY <1>2, FS_Interval
    <2> QED
      BY <1>2, <2>1, FS_Subset
  <1>5. PICK n \in Left : \A m \in Left : n <= m
    <2> HIDE DEF Left
    <2> QED
      BY <1>3, <1>4, Extremes
  <1>6. \A m \in 1..(n - 1) : Release!All[m] \notin replica[r].missing
    BY <1>2, <1>5
  <1> QED
    BY <1>5, <1>6 DEF Release!NextIndex

(* One replica goes to another stage; the indexes are left alone.          *)
LEMMA OneBoots ==
  ASSUME IndexInv, NEW r \in Callers, NEW b, replica' = [replica EXCEPT ![r] = b], UNCHANGED index,
         lock' \in Callers \cup {idle}, \A q \in Callers : q # r /\ lock = q => lock' = q,
         superseded' => superseded, schema = "new" => schema' = "new",
         ~superseded' => \A i \in Release!Names : Release!IsRule(i) => index[i] = "valid",
         IsBoot(b),
         Builds(b) =>
           /\ lock' = r
           /\ \A i \in b.missing : index[i] # "valid"
           /\ \A i \in Release!Names : Release!IsRule(i) /\ i \notin b.missing => index[i] = "valid",
         b.at = "creating" => b.missing # {},
         b.at = "dropping" => \A i \in Release!Names : index[i] = "valid",
         b.at = "serving" /\ ~b.skipped => ~superseded',
         b.at # "down" => schema' = "new"
  PROVE  IndexInv'
  <1>1. replica'[r] = b /\ (\A q \in Callers : q # r => replica'[q] = replica[q])
        /\ replica' = [q \in Callers |-> replica'[q]]
    BY DEF IndexInv
  <1>2. \A q \in Callers : q # r => BootOK(q)'
    BY <1>1, BootStands DEF IndexInv
  <1>3. BootOK(r)'
    BY <1>1 DEF BootOK
  <1>4. \A q \in Callers : BootOK(q)'
    BY <1>2, <1>3
  <1> QED
    BY <1>1, <1>4 DEF IndexInv

LEMMA DataStands ==
  ASSUME DataInv, UNCHANGED <<schema, event, events, media, sold>>
  PROVE  DataInv'
  <1>1. OldData => OldData'
    BY DEF OldData, Release!OldRow
  <1>2. NewData => NewData'
    <2>1. Release!ShowsStand => Release!ShowsStand'
      BY DEF Release!ShowsStand
    <2> QED
      BY <2>1 DEF NewData
  <1> QED
    BY <1>1, <1>2 DEF DataInv

(* One record for the replica that moves: its fields, one at a time.       *)
Sets(r, at, left) == replica' = [replica EXCEPT ![r].at = at, ![r].missing = left]
LEMMA BootSets ==
  ASSUME IndexInv, NEW r \in Callers, NEW at \in Stages, NEW left, left \subseteq Release!Names, Sets(r, at, left)
  PROVE  \E b : IsBoot(b) /\ b.at = at /\ b.missing = left /\ replica' = [replica EXCEPT ![r] = b]
  <1>1. replica = [q \in Callers |-> replica[q]] /\ IsBoot(replica[r])
    BY DEF IndexInv, BootOK
  <1>2. PICK b : b = [replica[r] EXCEPT !.at = at, !.missing = left]
    OBVIOUS
  <1>3. IsBoot(b) /\ b.at = at /\ b.missing = left
    BY <1>1, <1>2 DEF IsBoot
  <1>4. replica' = [replica EXCEPT ![r] = b]
    BY <1>1, <1>2 DEF Sets
  <1> QED
    BY <1>3, <1>4

LEMMA BootGoes ==
  ASSUME IndexInv, NEW r \in Callers, NEW at \in Stages, Release!Goes(r, at)
  PROVE  \E b : IsBoot(b) /\ b.at = at /\ b.missing = replica[r].missing /\ replica' = [replica EXCEPT ![r] = b]
  <1>1. replica = [q \in Callers |-> replica[q]] /\ IsBoot(replica[r])
    BY DEF IndexInv, BootOK
  <1>2. PICK b : b = [replica[r] EXCEPT !.at = at]
    OBVIOUS
  <1>3. IsBoot(b) /\ b.at = at /\ b.missing = replica[r].missing
    BY <1>1, <1>2 DEF IsBoot
  <1>4. replica' = [replica EXCEPT ![r] = b]
    BY <1>2 DEF Release!Goes
  <1> QED
    BY <1>3, <1>4

LEMMA LooksKept ==
  ASSUME ReleaseInv, NEW r \in Callers, Release!LookForIndexes(r)
  PROVE  IndexInv'
  <1> DEFINE Missing == {i \in Release!Names : index[i] # "valid"}
  <1>1. PICK at : at = IF Missing = {} THEN "dropping" ELSE "trying"
    OBVIOUS
  <1>2. at \in Stages /\ Missing \subseteq Release!Names
    BY <1>1 DEF Stages
  <1>3. PICK b : IsBoot(b) /\ b.at = at /\ b.missing = Missing /\ replica' = [replica EXCEPT ![r] = b]
    <2>1. PICK left : left = Missing
      OBVIOUS
    <2>2. Sets(r, at, left)
      BY <1>1, <2>1 DEF Sets, Release!LookForIndexes, Release!missingIndexes
    <2> HIDE DEF Missing
    <2>3. left \subseteq Release!Names /\ IndexInv
      BY <1>2, <2>1 DEF ReleaseInv
    <2>4. PICK b : IsBoot(b) /\ b.at = at /\ b.missing = left /\ replica' = [replica EXCEPT ![r] = b]
      BY <1>2, <2>2, <2>3, BootSets
    <2> QED
      BY <2>1, <2>4
  <1>5. UNCHANGED <<schema, index, superseded, lock>> /\ replica[r].at = "migrated"
    BY DEF Release!LookForIndexes, Release!dataVars, Release!indexVars
  <1>6. schema = "new"
    BY <1>5 DEF ReleaseInv, IndexInv, BootOK
  <1>7. b.at = "dropping" => \A i \in Release!Names : index[i] = "valid"
    BY <1>1, <1>3
  <1>8. ~Builds(b) /\ b.at \notin {"creating", "serving"}
    BY <1>1, <1>3 DEF Builds
  <1>9. IndexInv /\ lock \in Callers \cup {idle}
        /\ (~superseded => \A i \in Release!Names : Release!IsRule(i) => index[i] = "valid")
    BY DEF ReleaseInv, IndexInv
  <1> QED
    BY <1>3, <1>5, <1>6, <1>7, <1>8, <1>9, OneBoots

LEMMA LocksKept ==
  ASSUME ReleaseInv, NEW r \in Callers, Release!TryLock(r)
  PROVE  IndexInv'
  <1> DEFINE Missing == {i \in Release!Names : index[i] # "valid"}
  <1>0. UNCHANGED <<schema, index, superseded>> /\ replica[r].at = "trying" /\ IndexInv
        /\ (~superseded => \A i \in Release!Names : Release!IsRule(i) => index[i] = "valid")
    BY DEF Release!TryLock, Release!dataVars, Release!indexVars, ReleaseInv, IndexInv
  <1>1. schema = "new" /\ IsBoot(replica[r]) /\ idle \notin Callers
    BY <1>0, ReleaseConstants DEF IndexInv, BootOK
  <1>2. CASE lock = idle
    <2>1. "building" \in Stages /\ Missing \subseteq Release!Names
      BY DEF Stages
    <2>2. PICK b : /\ IsBoot(b) /\ b.at = "building" /\ b.missing = Missing
                   /\ replica' = [replica EXCEPT ![r] = b]
      <3>1. PICK left : left = Missing
        OBVIOUS
      <3>2. Sets(r, "building", left)
        BY <1>2, <3>1 DEF Sets, Release!TryLock, Release!Reread, Release!missingIndexes
      <3> HIDE DEF Missing
      <3>3. left \subseteq Release!Names
        BY <2>1, <3>1
      <3>4. PICK b : IsBoot(b) /\ b.at = "building" /\ b.missing = left /\ replica' = [replica EXCEPT ![r] = b]
        BY <1>0, <2>1, <3>2, <3>3, BootSets
      <3> QED
        BY <3>1, <3>4
    <2>3. lock' = r
      BY <1>2 DEF Release!TryLock
    <2>4. /\ \A i \in b.missing : index[i] # "valid"
          /\ \A i \in Release!Names : Release!IsRule(i) /\ i \notin b.missing => index[i] = "valid"
      BY <2>2
    <2> HIDE DEF Missing
    <2> QED
      BY <1>0, <1>1, <1>2, <2>2, <2>3, <2>4, OneBoots
  <1>3. CASE lock # idle
    <2>1. PICK b : b = [replica[r] EXCEPT !.at = "serving", !.skipped = TRUE]
      OBVIOUS
    <2>2. IsBoot(b) /\ b.at = "serving"
      BY <1>1, <2>1 DEF IsBoot, Stages
    <2>3. b.skipped
      BY <1>1, <2>1 DEF IsBoot
    <2>4. replica' = [replica EXCEPT ![r] = b] /\ lock' = lock
      <3>1. replica' = [replica EXCEPT ![r].at = "serving", ![r].skipped = TRUE] /\ lock' = lock
        BY <1>3 DEF Release!TryLock
      <3>2. replica = [q \in Callers |-> replica[q]]
        BY <1>0 DEF IndexInv
      <3> QED
        BY <2>1, <3>1, <3>2
    <2>5. ~Builds(b) /\ lock \in Callers \cup {idle}
      BY <1>0, <2>2 DEF Builds, IndexInv
    <2> QED
      BY <1>0, <1>1, <2>2, <2>3, <2>4, <2>5, OneBoots
  <1> QED
    BY <1>2, <1>3

(* Whoever stops gives its lock back.                                      *)
LEMMA StopsKept ==
  ASSUME IndexInv, NEW r \in Callers, Release!Stops(r), UNCHANGED <<schema, index, superseded>>
  PROVE  IndexInv'
  <1>1. IsBoot(Release!Down) /\ Release!Down.at = "down" /\ ~Builds(Release!Down)
    BY DEF IsBoot, Stages, Builds, Release!Down
  <1>2. replica' = [replica EXCEPT ![r] = Release!Down] /\ lock' = IF lock = r THEN idle ELSE lock
    BY DEF Release!Stops
  <1>3. lock' \in Callers \cup {idle}
        /\ (~superseded => \A i \in Release!Names : Release!IsRule(i) => index[i] = "valid")
    BY <1>2 DEF IndexInv
  <1>4. \A q \in Callers : q # r /\ lock = q => lock' = q
    BY <1>2
  <1> QED
    BY <1>1, <1>2, <1>3, <1>4, OneBoots

(* What the one that builds leaves to build.                               *)
LEMMA BuiltKept ==
  ASSUME IndexInv, NEW r \in Callers, replica[r].at = "creating", replica' = Release!Built(r),
         UNCHANGED <<schema, superseded, lock>>,
         \/ index' = [index EXCEPT ![Release!NextIndex(r)] = "valid"]
         \/ index' = index /\ ~Release!IsRule(Release!NextIndex(r))
  PROVE  IndexInv'
  <1> DEFINE n == Release!NextIndex(r)
             left == replica[r].missing \ {n}
  <1>0. BootOK(r) /\ lock = r /\ replica[r].missing # {} /\ replica[r].missing \subseteq Release!Names
    BY DEF IndexInv, BootOK, Builds, IsBoot
  <1>1. n \in replica[r].missing /\ n \in Release!Names
    BY <1>0, NextIsMissing
  <1>2. PICK b : /\ IsBoot(b) /\ b.at = "building" /\ b.missing = left
                 /\ replica' = [replica EXCEPT ![r] = b]
    <2>1. "building" \in Stages /\ left \subseteq Release!Names
      BY <1>0 DEF Stages
    <2>2. PICK rest : rest = left
      OBVIOUS
    <2>3. Sets(r, "building", rest)
      BY <2>2 DEF Sets, Release!Built
    <2> HIDE DEF left
    <2>4. rest \subseteq Release!Names
      BY <2>1, <2>2
    <2>5. PICK b : IsBoot(b) /\ b.at = "building" /\ b.missing = rest /\ replica' = [replica EXCEPT ![r] = b]
      BY <2>1, <2>3, <2>4, BootSets
    <2> QED
      BY <2>2, <2>5
  <1>4. replica'[r] = b /\ (\A q \in Callers : q # r => replica'[q] = replica[q])
        /\ replica' = [q \in Callers |-> replica'[q]]
    BY <1>2 DEF IndexInv
  <1>5. /\ index' = [i \in Release!Names |-> index'[i]]
        /\ \A i \in Release!Names : index'[i] \in {"none", "invalid", "valid"}
        /\ \A i \in Release!Names : i # n => index'[i] = index[i]
        /\ index'[n] = "valid" \/ ~Release!IsRule(n)
        /\ \A i \in Release!Names : index[i] = "valid" => index'[i] = "valid"
    BY <1>1 DEF IndexInv
  <1> HIDE DEF n
  <1>6. \A q \in Callers : q # r => BootOK(q)'
    <2> SUFFICES ASSUME NEW q \in Callers, q # r PROVE BootOK(q)'
      OBVIOUS
    <2>1. BootOK(q) /\ replica'[q] = replica[q] /\ ~Builds(replica[q])
      BY <1>0, <1>4 DEF IndexInv, BootOK
    <2> QED
      BY <1>5, <2>1 DEF BootOK, Builds
  <1>7. BootOK(r)'
    <2>1. \A i \in b.missing : index'[i] # "valid"
      BY <1>0, <1>2, <1>5 DEF BootOK, Builds
    <2>2. \A i \in Release!Names : Release!IsRule(i) /\ i \notin b.missing => index'[i] = "valid"
      BY <1>0, <1>2, <1>5 DEF BootOK, Builds
    <2>3. schema' = "new"
      BY <1>0 DEF BootOK
    <2> QED
      BY <1>0, <1>2, <1>4, <2>1, <2>2, <2>3 DEF BootOK
  <1>8. lock' \in Callers \cup {idle}
    BY DEF IndexInv
  <1>9. ~superseded' => \A i \in Release!Names : Release!IsRule(i) => index'[i] = "valid"
    BY <1>5 DEF IndexInv
  <1>10. \A q \in Callers : BootOK(q)'
    BY <1>6, <1>7
  <1> QED
    BY <1>4, <1>5, <1>8, <1>9, <1>10 DEF IndexInv

LEMMA BeginsKept ==
  ASSUME IndexInv, NEW r \in Callers, Release!BuildBegins(r)
  PROVE  IndexInv'
  <1> DEFINE n == Release!NextIndex(r)
  <1>0. BootOK(r) /\ lock = r /\ replica[r].missing # {} /\ IsBoot(replica[r]) /\ schema = "new"
        /\ replica[r].missing \subseteq Release!Names /\ UNCHANGED <<schema, superseded, lock>>
    BY DEF IndexInv, BootOK, Builds, IsBoot, Release!BuildBegins, Release!dataVars
  <1>1. n \in replica[r].missing /\ n \in Release!Names /\ index[n] # "valid"
    BY <1>0, NextIsMissing DEF BootOK, Builds, Release!BuildBegins
  <1>2. PICK b : /\ IsBoot(b) /\ b.at = "creating" /\ b.missing = replica[r].missing
                 /\ replica' = [replica EXCEPT ![r] = b]
    <2>1. "creating" \in Stages /\ Release!Goes(r, "creating")
      BY DEF Stages, Release!BuildBegins
    <2> QED
      BY <1>0, <2>1, BootGoes
  <1>4. replica'[r] = b /\ (\A q \in Callers : q # r => replica'[q] = replica[q])
        /\ replica' = [q \in Callers |-> replica'[q]]
    BY <1>2 DEF IndexInv
  <1>5. /\ index' = [i \in Release!Names |-> index'[i]]
        /\ \A i \in Release!Names : index'[i] \in {"none", "invalid", "valid"}
        /\ \A i \in Release!Names : i # n => index'[i] = index[i]
        /\ index'[n] # "valid"
        /\ \A i \in Release!Names : index[i] = "valid" <=> index'[i] = "valid"
    BY <1>1 DEF IndexInv, Release!BuildBegins
  <1> HIDE DEF n
  <1>6. \A q \in Callers : q # r => BootOK(q)'
    <2> SUFFICES ASSUME NEW q \in Callers, q # r PROVE BootOK(q)'
      OBVIOUS
    <2>1. BootOK(q) /\ replica'[q] = replica[q] /\ ~Builds(replica[q])
      BY <1>0, <1>4 DEF IndexInv, BootOK
    <2> QED
      BY <1>0, <1>5, <2>1 DEF BootOK, Builds
  <1>7. BootOK(r)'
    <2>1. \A i \in b.missing : index'[i] # "valid"
      BY <1>0, <1>2, <1>5 DEF BootOK, Builds, Release!BuildBegins
    <2>2. \A i \in Release!Names : Release!IsRule(i) /\ i \notin b.missing => index'[i] = "valid"
      BY <1>0, <1>2, <1>5 DEF BootOK, Builds, Release!BuildBegins
    <2> QED
      BY <1>0, <1>2, <1>4, <2>1, <2>2 DEF BootOK
  <1>8. lock' \in Callers \cup {idle}
    BY <1>0
  <1>9. ~superseded' => \A i \in Release!Names : Release!IsRule(i) => index'[i] = "valid"
    BY <1>0, <1>5 DEF IndexInv
  <1>10. \A q \in Callers : BootOK(q)'
    BY <1>6, <1>7
  <1> QED
    BY <1>4, <1>5, <1>8, <1>9, <1>10 DEF IndexInv

(* The index a rule replaces goes when all rules are in force.             *)
LEMMA DropsKept ==
  ASSUME IndexInv, NEW r \in Callers, Release!dropSupersededIndexes(r)
  PROVE  IndexInv'
  <1>0. UNCHANGED <<schema, index>> /\ replica[r].at \in {"dropping", "building"}
        /\ (replica[r].at = "building" => replica[r].missing = {})
        /\ lock' = (IF lock = r THEN idle ELSE lock)
    BY DEF Release!dropSupersededIndexes, Release!dataVars
  <1>1. ~superseded'
    BY DEF Release!dropSupersededIndexes
  <1>2. BootOK(r) /\ IsBoot(replica[r]) /\ schema = "new"
    BY <1>0 DEF IndexInv, BootOK
  <1>3. \A i \in Release!Names : Release!IsRule(i) => index[i] = "valid"
    BY <1>0, <1>2 DEF BootOK, Builds
  <1>4. PICK b : /\ IsBoot(b) /\ b.at = "serving"
                 /\ replica' = [replica EXCEPT ![r] = b]
    <2>1. "serving" \in Stages /\ replica[r].missing \subseteq Release!Names /\ Release!Goes(r, "serving")
      BY <1>2 DEF Stages, IsBoot, Release!dropSupersededIndexes
    <2> QED
      BY <2>1, BootGoes
  <1>5. lock' \in Callers \cup {idle} /\ ~Builds(b) /\ (\A q \in Callers : q # r /\ lock = q => lock' = q)
    BY <1>0, <1>4 DEF IndexInv, Builds
  <1>6. superseded' => superseded
    BY <1>1
  <1> QED
    BY <1>0, <1>1, <1>2, <1>3, <1>4, <1>5, <1>6, OneBoots

LEMMA ShutdownKept ==
  ASSUME IndexInv, NEW r \in Callers, Release!Shutdown(r)
  PROVE  IndexInv'
  <1>0. UNCHANGED <<schema, index, superseded, lock>> /\ replica[r].at = "serving"
    BY DEF Release!Shutdown, Release!dataVars, Release!indexVars
  <1>2. BootOK(r) /\ IsBoot(replica[r]) /\ schema = "new" /\ lock \in Callers \cup {idle}
        /\ (~superseded => \A i \in Release!Names : Release!IsRule(i) => index[i] = "valid")
    BY <1>0 DEF IndexInv, BootOK
  <1>4. PICK b : /\ IsBoot(b) /\ b.at = "draining"
                 /\ replica' = [replica EXCEPT ![r] = b]
    <2>1. "draining" \in Stages /\ replica[r].missing \subseteq Release!Names /\ Release!Goes(r, "draining")
      BY <1>2 DEF Stages, IsBoot, Release!Shutdown
    <2> QED
      BY <2>1, BootGoes
  <1>5. ~Builds(b)
    BY <1>4 DEF Builds
  <1> QED
    BY <1>0, <1>2, <1>4, <1>5, OneBoots

(* The rules' side of every step; a sale does not touch it.                *)
LEMMA IndexStands ==
  ASSUME IndexInv, UNCHANGED <<schema, index, superseded, lock, replica>>
  PROVE  IndexInv'
  <1>1. \A r \in Callers : BootOK(r)'
    BY BootStands DEF IndexInv
  <1> QED
    BY <1>1 DEF IndexInv

LEMMA FailsKept ==
  ASSUME IndexInv, NEW r \in Callers, Release!BuildFails(r)
  PROVE  IndexInv'
  <1>1. replica[r].at = "creating" /\ UNCHANGED <<schema, index, superseded>>
    BY DEF Release!BuildFails, Release!dataVars, Release!indexVars
  <1>2. CASE Release!IsRule(Release!NextIndex(r))
    BY <1>1, <1>2, StopsKept DEF Release!BuildFails
  <1>3. CASE ~Release!IsRule(Release!NextIndex(r))
    BY <1>1, <1>3, BuiltKept DEF Release!BuildFails
  <1> QED
    BY <1>2, <1>3

LEMMA EndsKept ==
  ASSUME IndexInv, NEW r \in Callers, Release!BuildEnds(r)
  PROVE  IndexInv'
  BY BuiltKept DEF Release!BuildEnds, Release!dataVars

LEMMA MigratedKept ==
  ASSUME IndexInv, NEW r \in Callers, Release!RunMigrations(r)
  PROVE  IndexInv'
  <1>1. UNCHANGED <<index, superseded, lock>> /\ schema' = "new"
    BY DEF Release!RunMigrations, Release!indexVars
  <1>2. PICK b : b = [Release!Down EXCEPT !.at = "migrated"]
    OBVIOUS
  <1>3. IsBoot(b) /\ b.at = "migrated" /\ ~Builds(b)
    BY <1>2 DEF IsBoot, Builds, Stages, Release!Down
  <1>4. replica' = [replica EXCEPT ![r] = b]
    BY <1>2 DEF Release!RunMigrations
  <1>5. lock \in Callers \cup {idle}
        /\ (~superseded => \A i \in Release!Names : Release!IsRule(i) => index[i] = "valid")
    BY DEF IndexInv
  <1> QED
    BY <1>1, <1>3, <1>4, <1>5, OneBoots

-----------------------------------------------------------------------------
(* The data.  Steps of the migration that change one table, row by row.    *)
IsData(d) == d = [event |-> d.event, events |-> d.events, media |-> d.media, order |-> d.order]
IsMap(f) == f = [x \in DOMAIN f |-> f[x]]
LEMMA OrdersRewritten ==
  ASSUME NEW d, IsData(d), NEW f, NEW e, e = [d EXCEPT !.order = f]
  PROVE  IsData(e) /\ e.event = d.event /\ e.events = d.events /\ e.media = d.media /\ e.order = f
  BY DEF IsData

Lined(w) ==
    IF w.tier # 0 /\ w.lines = {}
    THEN [w EXCEPT !.lines = {[tier |-> w.tier, quantity |-> w.quantity, total |-> w.total]}] ELSE w
Dated(w, show) ==
    IF w.event = 0 /\ w.lines # {} THEN [w EXCEPT !.event = show[(CHOOSE l \in w.lines : TRUE).tier]] ELSE w
Trimmed(w) == [w EXCEPT !.tier = 0, !.quantity = 0]
Priced(w) == IF w.subtotal = 0 /\ w.total # 0 THEN [w EXCEPT !.subtotal = w.total, !.fee = 0] ELSE w

LEMMA ItemsFilled ==
  ASSUME NEW d, IsData(d), NEW e, e = Release!backfillOrderItems(d)
  PROVE  /\ IsData(e) /\ e.event = d.event /\ e.events = d.events /\ e.media = d.media
         /\ DOMAIN e.order = DOMAIN d.order /\ IsMap(e.order)
         /\ \A o \in DOMAIN d.order : e.order[o] = Lined(d.order[o])
  <1>1. PICK f : f = [o \in DOMAIN d.order |-> Lined(d.order[o])]
    OBVIOUS
  <1>2. e = [d EXCEPT !.order = f]
    BY <1>1 DEF Release!backfillOrderItems, Lined
  <1>3. IsData(e) /\ e.event = d.event /\ e.events = d.events /\ e.media = d.media /\ e.order = f
    BY <1>2, OrdersRewritten
  <1> QED
    BY <1>1, <1>3 DEF IsMap

LEMMA EventsFilled ==
  ASSUME NEW d, IsData(d), NEW e, e = Release!backfillOrderEvents(d)
  PROVE  /\ IsData(e) /\ e.event = d.event /\ e.events = d.events /\ e.media = d.media
         /\ DOMAIN e.order = DOMAIN d.order /\ IsMap(e.order)
         /\ \A o \in DOMAIN d.order : e.order[o] = Dated(d.order[o], d.event)
  <1>1. PICK f : f = [o \in DOMAIN d.order |-> Dated(d.order[o], d.event)]
    OBVIOUS
  <1>2. e = [d EXCEPT !.order = f]
    BY <1>1 DEF Release!backfillOrderEvents, Dated
  <1>3. IsData(e) /\ e.event = d.event /\ e.events = d.events /\ e.media = d.media /\ e.order = f
    BY <1>2, OrdersRewritten
  <1> QED
    BY <1>1, <1>3 DEF IsMap

LEMMA ColumnsDropped ==
  ASSUME NEW d, IsData(d), NEW e, e = Release!dropSupersededOrderColumns(d)
  PROVE  /\ IsData(e) /\ e.event = d.event /\ e.events = d.events /\ e.media = d.media
         /\ DOMAIN e.order = DOMAIN d.order /\ IsMap(e.order)
         /\ \A o \in DOMAIN d.order : e.order[o] = Trimmed(d.order[o])
  <1>1. PICK f : f = [o \in DOMAIN d.order |-> Trimmed(d.order[o])]
    OBVIOUS
  <1>2. e = [d EXCEPT !.order = f]
    BY <1>1, ZenonT(60) DEF Release!dropSupersededOrderColumns, Trimmed
  <1>3. IsData(e) /\ e.event = d.event /\ e.events = d.events /\ e.media = d.media /\ e.order = f
    BY <1>2, OrdersRewritten
  <1> QED
    BY <1>1, <1>3 DEF IsMap

LEMMA PricesFilled ==
  ASSUME NEW d, IsData(d), NEW e, e = Release!backfillOrderPricing(d)
  PROVE  /\ IsData(e) /\ e.event = d.event /\ e.events = d.events /\ e.media = d.media
         /\ DOMAIN e.order = DOMAIN d.order /\ IsMap(e.order)
         /\ \A o \in DOMAIN d.order : e.order[o] = Priced(d.order[o])
  <1>1. PICK f : f = [o \in DOMAIN d.order |-> Priced(d.order[o])]
    OBVIOUS
  <1>2. e = [d EXCEPT !.order = f]
    BY <1>1 DEF Release!backfillOrderPricing, Priced
  <1>3. IsData(e) /\ e.event = d.event /\ e.events = d.events /\ e.media = d.media /\ e.order = f
    BY <1>2, OrdersRewritten
  <1> QED
    BY <1>1, <1>3 DEF IsMap

(* What the four steps make of a row of either release.                    *)
Rewritten(w, a, b, c, z, show) == a = Lined(w) /\ b = Dated(a, show) /\ c = Trimmed(b) /\ z = Priced(c)

LEMMA SalesSpelt ==
  ASSUME NEW o \in DOMAIN Sales
  PROVE  /\ Sales[o].tier \in DOMAIN Tiers /\ Sales[o].tier # 0
         /\ Sales[o].total \in Nat /\ Sales[o].quantity \in Nat
  <1>1. Sales[o] \in [tier : DOMAIN Tiers, quantity : Nat, total : Nat, new : BOOLEAN]
    <2>1. PICK S : S = [tier : DOMAIN Tiers, quantity : Nat, total : Nat, new : BOOLEAN]
      OBVIOUS
    <2>2. Sales \in Seq(S)
      BY <2>1, ReleaseConstants
    <2>3. Sales[o] \in S
      BY <2>2
    <2> QED
      BY <2>1, <2>3
  <1>2. 0 \notin DOMAIN Tiers
    BY ReleaseConstants
  <1> QED
    BY <1>1, <1>2

LEMMA OldRowRewritten ==
  ASSUME NEW o \in DOMAIN Sales, NEW w, w = Release!OldRow(o), NEW a, NEW b, NEW c, NEW z, NEW show,
         Rewritten(w, a, b, c, z, show)
  PROVE  AsSold(o, z, show) /\ a.lines # {}
  <1>1. PICK tier, quantity, total : tier = Sales[o].tier /\ quantity = Sales[o].quantity /\ total = Sales[o].total
    OBVIOUS
  <1>2. tier # 0 /\ total \in Nat
    BY <1>1, SalesSpelt
  <1>3. PICK line : line = SaleLine(o)
    OBVIOUS
  <1>4. line = [tier |-> tier, quantity |-> quantity, total |-> total] /\ line.tier = tier
    BY <1>1, <1>3 DEF SaleLine
  <1>5. w = [tier |-> tier, quantity |-> quantity, total |-> total, event |-> 0, lines |-> {}, subtotal |-> 0, fee |-> 0]
    BY <1>1 DEF Release!OldRow
  <1>6. a = [tier |-> tier, quantity |-> quantity, total |-> total, event |-> 0, lines |-> {line}, subtotal |-> 0, fee |-> 0]
    <2>1. w.tier # 0 /\ w.lines = {} /\ line = [tier |-> w.tier, quantity |-> w.quantity, total |-> w.total]
      BY <1>2, <1>4, <1>5, SMTT(30)
    <2>2. a = [w EXCEPT !.lines = {line}]
      BY <2>1 DEF Rewritten, Lined, Dated, Trimmed, Priced
    <2> QED
      BY <1>5, <2>2
  <1>7. PICK at : at = show[tier]
    OBVIOUS
  <1>8. b = [tier |-> tier, quantity |-> quantity, total |-> total, event |-> at, lines |-> {line}, subtotal |-> 0, fee |-> 0]
    <2>1. a.event = 0 /\ a.lines = {line} /\ a.lines # {}
      BY <1>6
    <2>2. (CHOOSE l \in a.lines : TRUE) = line
      BY <2>1, SMTT(30)
    <2>3. b = [a EXCEPT !.event = at]
      BY <1>4, <1>7, <2>1, <2>2 DEF Rewritten, Lined, Dated, Trimmed, Priced
    <2> QED
      BY <1>6, <2>3
  <1>9. c = [tier |-> 0, quantity |-> 0, total |-> total, event |-> at, lines |-> {line}, subtotal |-> 0, fee |-> 0]
    <2>1. PICK none : none = 0
      BY SMTT(30)
    <2>2. c = [b EXCEPT !.tier = none, !.quantity = none]
      BY <2>1 DEF Rewritten, Lined, Dated, Trimmed, Priced
    <2>3. c = [tier |-> none, quantity |-> none, total |-> total, event |-> at, lines |-> {line}, subtotal |-> 0, fee |-> 0]
      <3> HIDE <2>1
      <3> QED
        BY <1>8, <2>2
    <2> QED
      BY <2>1, <2>3
  <1>10. z = [tier |-> 0, quantity |-> 0, total |-> total, event |-> at, lines |-> {line}, subtotal |-> total, fee |-> 0]
    <2>1. z = IF c.subtotal = 0 /\ c.total # 0 THEN [c EXCEPT !.subtotal = c.total, !.fee = 0] ELSE c
      BY DEF Rewritten, Lined, Dated, Trimmed, Priced
    <2>2. c.subtotal = 0 /\ c.total = total
      BY <1>9
    <2>3. CASE total = 0
      BY <1>9, <2>1, <2>2, <2>3
    <2>4. CASE total # 0
      <3>1. PICK free : free = 0
        OBVIOUS
      <3>2. z = [c EXCEPT !.subtotal = total, !.fee = free]
        BY <2>1, <2>2, <2>4, <3>1
      <3>3. z = [tier |-> 0, quantity |-> 0, total |-> total, event |-> at, lines |-> {line}, subtotal |-> total, fee |-> free]
        BY <1>9, <3>2
      <3> QED
        BY <3>1, <3>3
    <2> QED
      BY <2>3, <2>4
  <1> QED
    BY <1>1, <1>2, <1>3, <1>6, <1>7, <1>10 DEF AsSold

LEMMA SoldRowRewritten ==
  ASSUME NEW o \in DOMAIN Sales, NEW w, NEW a, NEW b, NEW c, NEW z, NEW show,
         AsSold(o, w, show), show[Sales[o].tier] # 0, Rewritten(w, a, b, c, z, show)
  PROVE  z = w /\ a.lines # {}
  <1>1. a = w /\ w.lines # {} /\ w.event # 0
    BY SMTT(30) DEF AsSold, Rewritten, Lined
  <1>2. b = a
    BY <1>1 DEF Rewritten, Lined, Dated, Trimmed, Priced
  <1>3. c = b
    <2>1. PICK none : none = 0
      BY SMTT(30)
    <2>2. c = [b EXCEPT !.tier = none, !.quantity = none]
      BY <2>1 DEF Rewritten, Lined, Dated, Trimmed, Priced
    <2>3. PICK total, at, lines, subtotal, fee :
             b = [tier |-> none, quantity |-> none, total |-> total, event |-> at, lines |-> lines,
                  subtotal |-> subtotal, fee |-> fee]
      BY <1>1, <1>2, <2>1, SMTT(30) DEF AsSold
    <2>4. c = [tier |-> none, quantity |-> none, total |-> total, event |-> at, lines |-> lines,
               subtotal |-> subtotal, fee |-> fee]
      BY <2>2, <2>3
    <2> QED
      BY <2>3, <2>4
  <1>4. w.subtotal = 0 => w.total = 0
    BY DEF AsSold
  <1>5. z = c
    <2>1. z = IF c.subtotal = 0 /\ c.total # 0 THEN [c EXCEPT !.subtotal = c.total, !.fee = 0] ELSE c
      BY DEF Rewritten, Lined, Dated, Trimmed, Priced
    <2> QED
      BY <1>1, <1>2, <1>3, <1>4, <2>1
  <1> QED
    BY <1>1, <1>2, <1>3, <1>5

(* The events.  Among the tiers of one owner and one name one is first, and *)
(* the event they share carries its number.                                *)
LEMMA TiersNumbered ==
  /\ DOMAIN Tiers \subseteq Nat \ {0} /\ IsFiniteSet(DOMAIN Tiers) /\ DOMAIN Tiers \subseteq Int
  <1>1. DOMAIN Tiers = 1..Len(Tiers) /\ Len(Tiers) \in Nat
    BY ReleaseConstants
  <1>2. IsFiniteSet(1..Len(Tiers))
    BY <1>1, FS_Interval
  <1> QED
    BY <1>1, <1>2

LEMMA HeadsFound ==
  ASSUME NEW d, Release!Loose(d) = DOMAIN Tiers, NEW t \in DOMAIN Tiers
  PROVE  Release!HeadOf(d, t) \in Release!Heads(d) /\ Release!Group(Release!HeadOf(d, t)) = Release!Group(t)
  <1> DEFINE Alike == {u \in DOMAIN Tiers : Release!Group(u) = Release!Group(t)}
  <1>1. Alike \subseteq Int /\ IsFiniteSet(Alike) /\ Alike # {}
    BY TiersNumbered, FS_Subset
  <1>2. PICK h \in Alike : \A u \in Alike : h <= u
    <2> HIDE DEF Alike
    <2> QED
      BY <1>1, Extremes
  <1>3. h \in Release!Heads(d) /\ Release!Group(h) = Release!Group(t)
    BY <1>2 DEF Release!Heads
  <1> QED
    BY <1>3 DEF Release!HeadOf

LEMMA HeadsApart ==
  ASSUME NEW d, Release!Loose(d) = DOMAIN Tiers, NEW h \in Release!Heads(d), NEW k \in Release!Heads(d),
         Release!Group(h) = Release!Group(k)
  PROVE  h = k
  <1>1. h \in DOMAIN Tiers /\ k \in DOMAIN Tiers /\ h <= k /\ k <= h
    BY DEF Release!Heads
  <1>2. h \in Nat /\ k \in Nat
    BY <1>1, TiersNumbered
  <1> QED
    BY <1>1, <1>2

LEMMA SlugsApart ==
  ASSUME NEW d, Release!Loose(d) = DOMAIN Tiers, NEW h \in Release!Heads(d), NEW k \in Release!Heads(d),
         Release!uniqueSlug(d, h) = Release!uniqueSlug(d, k)
  PROVE  h = k
  <1>0. h \in DOMAIN Tiers /\ k \in DOMAIN Tiers
    BY DEF Release!Heads
  <1>1. h \in Nat \ {0} /\ k \in Nat \ {0}
    BY <1>0, TiersNumbered
  <1>2. ASSUME NEW e \in Release!Heads(d)
        PROVE  /\ Release!uniqueSlug(d, e)[1] = Tiers[e].name
               /\ Release!uniqueSlug(d, e)[2] \in {e, 0}
    BY DEF Release!uniqueSlug
  <1>3. ASSUME NEW e \in Release!Heads(d), NEW f \in Release!Heads(d), Tiers[e].name = Tiers[f].name, e < f
        PROVE  Release!uniqueSlug(d, f)[2] = f
    BY <1>3 DEF Release!uniqueSlug
  <1>4. Tiers[h].name = Tiers[k].name
    BY <1>2
  <1>5. CASE h < k
    <2>1. Release!uniqueSlug(d, k)[2] = k /\ Release!uniqueSlug(d, h)[2] \in {h, 0}
      BY <1>2, <1>3, <1>4, <1>5
    <2> QED
      BY <1>1, <1>5, <2>1
  <1>6. CASE k < h
    <2>1. Release!uniqueSlug(d, h)[2] = h /\ Release!uniqueSlug(d, k)[2] \in {k, 0}
      BY <1>2, <1>3, <1>4, <1>6
    <2> QED
      BY <1>1, <1>6, <2>1
  <1> QED
    BY <1>1, <1>5, <1>6

(* What a release shows, of data rather than of the state.                 *)
Shown(d) ==
    /\ IsMap(d.event) /\ DOMAIN d.event = DOMAIN Tiers /\ IsMap(d.events)
    /\ \A t \in DOMAIN Tiers : d.event[t] # 0 /\ d.event[t] \in DOMAIN d.events
    /\ \A t, u \in DOMAIN Tiers : d.event[t] = d.event[u] <=> Release!Group(t) = Release!Group(u)
    /\ \A t \in DOMAIN Tiers : d.events[d.event[t]].owner = Tiers[t].owner
    /\ \A t \in DOMAIN Tiers : Tiers[t].drawn => t \in DOMAIN d.media /\ d.media[t] = d.event[t]
    /\ \A e, f \in DOMAIN d.events : d.events[e].slug = d.events[f].slug => e = f

Opened(h, d) == [owner |-> Tiers[h].owner, slug |-> Release!uniqueSlug(d, h)]
LEMMA OpenedSpelt ==
  ASSUME NEW h, NEW d
  PROVE  Opened(h, d).owner = Tiers[h].owner /\ Opened(h, d).slug = Release!uniqueSlug(d, h)
  <1>1. PICK owner, slug : owner = Tiers[h].owner /\ slug = Release!uniqueSlug(d, h)
    OBVIOUS
  <1>2. Opened(h, d) = [owner |-> owner, slug |-> slug]
    BY <1>1 DEF Opened
  <1> QED
    BY <1>1, <1>2

LEMMA EventsMade ==
  ASSUME NEW d, IsData(d), NEW e, e = Release!backfillEvents(d)
  PROVE  /\ IsData(e) /\ e.media = d.media /\ e.order = d.order
         /\ IsMap(e.event) /\ DOMAIN e.event = DOMAIN Tiers /\ IsMap(e.events)
         /\ \A t \in DOMAIN Tiers : e.event[t] = IF t \in Release!Loose(d) THEN Release!HeadOf(d, t) ELSE d.event[t]
         /\ DOMAIN e.events = DOMAIN d.events \cup Release!Heads(d)
         /\ \A h \in DOMAIN e.events : e.events[h] =
              IF h \in DOMAIN d.events THEN d.events[h] ELSE Opened(h, d)
  <1>1. PICK f : f = [t \in DOMAIN Tiers |-> IF t \in Release!Loose(d) THEN Release!HeadOf(d, t) ELSE d.event[t]]
    OBVIOUS
  <1>2. PICK g : g = [h \in DOMAIN d.events \cup Release!Heads(d) |->
                        IF h \in DOMAIN d.events THEN d.events[h] ELSE Opened(h, d)]
    OBVIOUS
  <1>3. e = [d EXCEPT !.event = f, !.events = g]
    BY <1>1, <1>2 DEF Release!backfillEvents, Opened
  <1>4. IsData(e) /\ e.event = f /\ e.events = g /\ e.media = d.media /\ e.order = d.order
    BY <1>3 DEF IsData
  <1> QED
    BY <1>1, <1>2, <1>4 DEF IsMap

LEMMA PicturesMoved ==
  ASSUME NEW d, IsData(d), NEW e, e = Release!moveMediaToEvents(d)
  PROVE  /\ IsData(e) /\ e.event = d.event /\ e.events = d.events /\ e.order = d.order
         /\ \A t \in DOMAIN d.media : d.event[t] \in DOMAIN d.events => t \in DOMAIN e.media /\ e.media[t] = d.event[t]
  <1>1. PICK f : f = [t \in {u \in DOMAIN d.media : d.event[u] \in DOMAIN d.events} |-> d.event[t]]
    OBVIOUS
  <1>2. e = [d EXCEPT !.media = f]
    BY <1>1 DEF Release!moveMediaToEvents
  <1>3. IsData(e) /\ e.event = d.event /\ e.events = d.events /\ e.order = d.order /\ e.media = f
    BY <1>2 DEF IsData
  <1> QED
    BY <1>1, <1>3

LEMMA HappeningsShown ==
  ASSUME DataInv, schema = "old", NEW e, e = Release!Happenings(Release!Data)
  PROVE  IsData(e) /\ Shown(e) /\ e.order = sold
  <1>1. PICK d : d = Release!Data
    OBVIOUS
  <1>2. IsData(d) /\ d.event = event /\ d.events = events /\ d.media = media /\ d.order = sold
    BY <1>1 DEF IsData, Release!Data
  <1>3. Release!Loose(d) = DOMAIN Tiers /\ DOMAIN d.events = {} /\ d.media = [t \in Drawn |-> t]
    BY <1>2 DEF DataInv, OldData, Release!Loose
  <1>4. PICK m : m = Release!backfillEvents(d)
    OBVIOUS
  <1>5. /\ IsData(m) /\ m.media = d.media /\ m.order = d.order
        /\ IsMap(m.event) /\ DOMAIN m.event = DOMAIN Tiers /\ IsMap(m.events)
        /\ \A t \in DOMAIN Tiers : m.event[t] = Release!HeadOf(d, t)
        /\ DOMAIN m.events = Release!Heads(d)
        /\ \A h \in Release!Heads(d) : m.events[h] = Opened(h, d)
    <2>1. /\ IsData(m) /\ m.media = d.media /\ m.order = d.order
          /\ IsMap(m.event) /\ DOMAIN m.event = DOMAIN Tiers /\ IsMap(m.events)
          /\ \A t \in DOMAIN Tiers : m.event[t] = IF t \in Release!Loose(d) THEN Release!HeadOf(d, t) ELSE d.event[t]
          /\ DOMAIN m.events = DOMAIN d.events \cup Release!Heads(d)
          /\ \A h \in DOMAIN m.events : m.events[h] = IF h \in DOMAIN d.events THEN d.events[h] ELSE Opened(h, d)
      BY <1>2, <1>4, EventsMade
    <2> QED
      BY <1>3, <2>1
  <1>6. e = Release!moveMediaToEvents(m)
    BY <1>1, <1>4 DEF Release!Happenings
  <1>7. /\ IsData(e) /\ e.event = m.event /\ e.events = m.events /\ e.order = m.order
        /\ \A t \in DOMAIN m.media : m.event[t] \in DOMAIN m.events => t \in DOMAIN e.media /\ e.media[t] = m.event[t]
    BY <1>5, <1>6, PicturesMoved
  <1>8. \A t \in DOMAIN Tiers : /\ m.event[t] \in Release!Heads(d) /\ m.event[t] # 0
                                /\ Release!Group(m.event[t]) = Release!Group(t)
    <2> SUFFICES ASSUME NEW t \in DOMAIN Tiers
                 PROVE  /\ m.event[t] \in Release!Heads(d) /\ m.event[t] # 0
                        /\ Release!Group(m.event[t]) = Release!Group(t)
      OBVIOUS
    <2>1. m.event[t] \in Release!Heads(d) /\ Release!Group(m.event[t]) = Release!Group(t)
      BY <1>3, <1>5, HeadsFound
    <2>2. m.event[t] \in DOMAIN Tiers
      BY <1>3, <2>1 DEF Release!Heads
    <2> QED
      BY <2>1, <2>2, TiersNumbered
  <1>9. \A t, u \in DOMAIN Tiers : m.event[t] = m.event[u] <=> Release!Group(t) = Release!Group(u)
    <2> SUFFICES ASSUME NEW t \in DOMAIN Tiers, NEW u \in DOMAIN Tiers
                 PROVE  m.event[t] = m.event[u] <=> Release!Group(t) = Release!Group(u)
      OBVIOUS
    <2>1. m.event[t] \in Release!Heads(d) /\ m.event[u] \in Release!Heads(d)
      BY <1>8
    <2>2. Release!Group(m.event[t]) = Release!Group(m.event[u]) => m.event[t] = m.event[u]
      BY <1>3, <2>1, HeadsApart
    <2> QED
      BY <1>8, <2>2
  <1>10. \A t \in DOMAIN Tiers : m.events[m.event[t]].owner = Tiers[t].owner
    <2> SUFFICES ASSUME NEW t \in DOMAIN Tiers PROVE m.events[m.event[t]].owner = Tiers[t].owner
      OBVIOUS
    <2>1. PICK h : h = m.event[t]
      OBVIOUS
    <2>2. h \in Release!Heads(d) /\ Release!Group(h) = Release!Group(t)
      BY <1>8, <2>1
    <2>3. Tiers[h].owner = Tiers[t].owner
      BY <2>2 DEF Release!Group
    <2>4. m.events[h].owner = Tiers[h].owner
      <3>1. m.events[h] = Opened(h, d)
        BY <1>5, <2>2
      <3> QED
        BY <3>1, OpenedSpelt
    <2> QED
      BY <2>1, <2>3, <2>4
  <1>11. \A t \in DOMAIN Tiers : Tiers[t].drawn => t \in DOMAIN e.media /\ e.media[t] = m.event[t]
    BY <1>3, <1>5, <1>7, <1>8 DEF Drawn
  <1>12. \A h, k \in Release!Heads(d) : m.events[h].slug = m.events[k].slug => h = k
    <2> SUFFICES ASSUME NEW h \in Release!Heads(d), NEW k \in Release!Heads(d), m.events[h].slug = m.events[k].slug
                 PROVE  h = k
      OBVIOUS
    <2>1. m.events[h].slug = Release!uniqueSlug(d, h) /\ m.events[k].slug = Release!uniqueSlug(d, k)
      <3>1. m.events[h] = Opened(h, d) /\ m.events[k] = Opened(k, d)
        BY <1>5
      <3> QED
        BY <3>1, OpenedSpelt
    <2> QED
      BY <1>3, <2>1, SlugsApart
  <1> QED
    BY <1>2, <1>5, <1>7, <1>8, <1>9, <1>10, <1>11, <1>12 DEF Shown

LEMMA EventsAgain ==
  ASSUME DataInv, schema = "new", NEW e, e = Release!backfillEvents(Release!Data)
  PROVE  IsData(e) /\ Shown(e) /\ e.order = sold /\ e.event = event
  <1>1. PICK d : d = Release!Data
    OBVIOUS
  <1>2. IsData(d) /\ d.event = event /\ d.events = events /\ d.media = media /\ d.order = sold
    BY <1>1 DEF IsData, Release!Data
  <1>3. Release!Loose(d) = {} /\ Release!Heads(d) = {}
    BY <1>2 DEF DataInv, NewData, Release!Loose, Release!Heads
  <1>4. /\ IsData(e) /\ e.media = media /\ e.order = sold
        /\ IsMap(e.event) /\ DOMAIN e.event = DOMAIN Tiers /\ IsMap(e.events)
        /\ \A t \in DOMAIN Tiers : e.event[t] = event[t]
        /\ DOMAIN e.events = DOMAIN events
        /\ \A h \in DOMAIN events : e.events[h] = events[h]
    <2>1. e = Release!backfillEvents(d)
      BY <1>1
    <2>2. /\ IsData(e) /\ e.media = d.media /\ e.order = d.order
          /\ IsMap(e.event) /\ DOMAIN e.event = DOMAIN Tiers /\ IsMap(e.events)
          /\ \A t \in DOMAIN Tiers : e.event[t] = IF t \in Release!Loose(d) THEN Release!HeadOf(d, t) ELSE d.event[t]
          /\ DOMAIN e.events = DOMAIN d.events \cup Release!Heads(d)
          /\ \A h \in DOMAIN e.events : e.events[h] = IF h \in DOMAIN d.events THEN d.events[h] ELSE Opened(h, d)
      BY <1>2, <2>1, EventsMade
    <2> QED
      BY <1>2, <1>3, <2>2
  <1>5. e.event = event /\ e.events = events
    BY <1>4 DEF DataInv, NewData, IsMap
  <1>6. NewData /\ event = [t \in DOMAIN Tiers |-> event[t]]
    BY DEF DataInv
  <1> QED
    BY <1>4, <1>5, <1>6 DEF Shown, NewData, IsMap, Release!ShowsStand

(* The rest of the migration, and the invariant after it.                  *)
LEMMA MigrationKept ==
  ASSUME DataInv, NEW r \in Callers, Release!RunMigrations(r)
  PROVE  DataInv'
  <1>1. PICK d : d = IF schema = "old" THEN Release!Happenings(Release!Data) ELSE Release!backfillEvents(Release!Data)
    OBVIOUS
  <1>2. PICK p : p = Release!backfillOrderItems(d)
    OBVIOUS
  <1>3. PICK q : q = Release!backfillOrderEvents(p)
    OBVIOUS
  <1>4. PICK v : v = Release!dropSupersededOrderColumns(q)
    OBVIOUS
  <1>5. PICK z : z = Release!backfillOrderPricing(v)
    OBVIOUS
  <1>6. schema' = "new" /\ event' = z.event /\ events' = z.events /\ media' = z.media /\ sold' = z.order
    BY <1>1, <1>2, <1>3, <1>4, <1>5 DEF Release!RunMigrations, Release!Receipts
  <1>7. IsData(d) /\ Shown(d) /\ d.order = sold /\ (schema = "new" => d.event = event)
    BY <1>1, HappeningsShown, EventsAgain DEF DataInv
  <1>8. /\ IsData(p) /\ p.event = d.event /\ p.events = d.events /\ p.media = d.media
        /\ DOMAIN p.order = DOMAIN sold
    BY <1>2, <1>7, ItemsFilled
  <1>9. /\ IsData(q) /\ q.event = d.event /\ q.events = d.events /\ q.media = d.media
        /\ DOMAIN q.order = DOMAIN sold
    BY <1>3, <1>8, EventsFilled
  <1>10. /\ IsData(v) /\ v.event = d.event /\ v.events = d.events /\ v.media = d.media
         /\ DOMAIN v.order = DOMAIN sold
    BY <1>4, <1>9, ColumnsDropped
  <1>11. /\ z.event = d.event /\ z.events = d.events /\ z.media = d.media
         /\ DOMAIN z.order = DOMAIN sold /\ IsMap(z.order)
    BY <1>5, <1>10, PricesFilled
  <1>12. ASSUME NEW o \in DOMAIN sold PROVE AsSold(o, z.order[o], d.event)
    <2>1. Rewritten(sold[o], p.order[o], q.order[o], v.order[o], z.order[o], d.event)
      <3>1. p.order[o] = Lined(sold[o])
        BY <1>2, <1>7, ItemsFilled
      <3>2. q.order[o] = Dated(p.order[o], d.event)
        <4>1. o \in DOMAIN p.order
          BY <1>8
        <4> QED
          BY <1>3, <1>8, <4>1, EventsFilled
      <3>3. v.order[o] = Trimmed(q.order[o])
        <4>1. o \in DOMAIN q.order
          BY <1>9
        <4> QED
          BY <1>4, <1>9, <4>1, ColumnsDropped
      <3>4. z.order[o] = Priced(v.order[o])
        <4>1. o \in DOMAIN v.order
          BY <1>10
        <4> QED
          BY <1>5, <1>10, <4>1, PricesFilled
      <3> QED
        BY <3>1, <3>2, <3>3, <3>4 DEF Rewritten
    <2>2. o \in DOMAIN Sales /\ Sales[o].tier \in DOMAIN Tiers
      BY SalesSpelt DEF DataInv
    <2>3. CASE schema = "old"
      <3>1. sold[o] = Release!OldRow(o)
        BY <2>3 DEF DataInv, OldData
      <3> QED
        BY <2>1, <2>2, <3>1, OldRowRewritten
    <2>4. CASE schema = "new"
      <3>1. AsSold(o, sold[o], d.event)
        BY <1>7, <2>4 DEF DataInv, NewData
      <3>2. d.event[Sales[o].tier] # 0
        BY <1>7, <2>2 DEF Shown
      <3>3. z.order[o] = sold[o]
        BY <2>1, <2>2, <3>1, <3>2, SoldRowRewritten
      <3> QED
        BY <3>1, <3>3
    <2> QED
      BY <2>3, <2>4 DEF DataInv
  <1>13. \A o \in DOMAIN sold' : AsSold(o, sold'[o], event')
    BY <1>6, <1>11, <1>12
  <1>14. Release!ShowsStand'
    BY <1>6, <1>7, <1>11 DEF Shown, Release!ShowsStand, Release!Group
  <1>15. /\ event' = [t \in DOMAIN Tiers |-> event'[t]] /\ events' = [e \in DOMAIN events' |-> events'[e]]
         /\ \A t \in DOMAIN Tiers : event'[t] # 0 /\ event'[t] \in DOMAIN events'
    BY <1>6, <1>7, <1>11 DEF Shown, IsMap
  <1>16. sold' = [o \in DOMAIN sold' |-> sold'[o]] /\ DOMAIN sold' \subseteq DOMAIN Sales
    BY <1>6, <1>11 DEF DataInv, IsMap
  <1> QED
    BY <1>6, <1>13, <1>14, <1>15, <1>16 DEF DataInv, NewData

(* One sale more; the others stand.                                        *)
LEMMA SoldAlso ==
  ASSUME NEW o, NEW w, sold' = Release!With(sold, o, w)
  PROVE  /\ IsMap(sold') /\ DOMAIN sold' = DOMAIN sold \cup {o} /\ sold'[o] = w
         /\ \A x \in DOMAIN sold : x # o => sold'[x] = sold[x]
  <1>1. sold' = [x \in DOMAIN sold \cup {o} |-> IF x = o THEN w ELSE sold[x]]
    BY DEF Release!With
  <1> QED
    BY <1>1 DEF IsMap

LEMMA NewRowSold ==
  ASSUME NEW o \in DOMAIN Sales, NEW w, w = Release!NewRow(o)
  PROVE  AsSold(o, w, event)
  <1>1. PICK total, fee, at : total = Sales[o].total /\ fee = Release!Fee(o) /\ at = event[Sales[o].tier]
    OBVIOUS
  <1>2. total \in Nat /\ fee \in Nat /\ (total = 0 => fee = 0)
    BY <1>1, SalesSpelt DEF Release!Fee
  <1>3. PICK all : all = total + fee
    OBVIOUS
  <1>4. PICK lines, none : lines = {SaleLine(o)} /\ none = 0
    OBVIOUS
  <1>5. w = [tier |-> none, quantity |-> none, total |-> all, event |-> at, lines |-> lines,
             subtotal |-> total, fee |-> fee]
    BY <1>1, <1>3, <1>4 DEF Release!NewRow, SaleLine
  <1>6. /\ w.tier = none /\ w.quantity = none /\ w.total = all /\ w.event = at /\ w.lines = lines
        /\ w.subtotal = total /\ w.fee = fee
    BY <1>5
  <1>7. w = [tier |-> w.tier, quantity |-> w.quantity, total |-> w.total, event |-> w.event, lines |-> w.lines,
             subtotal |-> w.subtotal, fee |-> w.fee]
    BY <1>5, <1>6
  <1>8. total = 0 => all = 0
    BY <1>2, <1>3
  <1> QED
    BY <1>1, <1>2, <1>3, <1>4, <1>6, <1>7, <1>8 DEF AsSold

LEMMA OldSellsKept ==
  ASSUME ReleaseInv, NEW o \in DOMAIN Sales, Release!OldSells(o)
  PROVE  ReleaseInv'
  <1>1. /\ schema = "old" /\ sold' = Release!With(sold, o, Release!OldRow(o))
        /\ UNCHANGED <<schema, event, events, media, index, superseded, lock, replica>>
    BY DEF Release!OldSells, Release!indexVars, Release!bootVars
  <1>2. IndexInv'
    BY <1>1, IndexStands DEF ReleaseInv
  <1>3. /\ IsMap(sold') /\ DOMAIN sold' = DOMAIN sold \cup {o} /\ sold'[o] = Release!OldRow(o)
        /\ \A x \in DOMAIN sold : x # o => sold'[x] = sold[x]
    BY <1>1, SoldAlso
  <1>4. OldData /\ DOMAIN sold \subseteq DOMAIN Sales
    BY <1>1 DEF ReleaseInv, DataInv
  <1>5. \A x \in DOMAIN sold' : sold'[x] = Release!OldRow(x)
    BY <1>3, <1>4 DEF OldData
  <1>6. OldData'
    BY <1>1, <1>4, <1>5 DEF OldData, Release!OldRow
  <1>7. DataInv'
    BY <1>1, <1>3, <1>4, <1>6 DEF ReleaseInv, DataInv, IsMap
  <1> QED
    BY <1>2, <1>7 DEF ReleaseInv

LEMMA NewSellsKept ==
  ASSUME ReleaseInv, NEW o \in DOMAIN Sales, Release!NewSells(o)
  PROVE  ReleaseInv'
  <1>1. /\ sold' = Release!With(sold, o, Release!NewRow(o))
        /\ UNCHANGED <<schema, event, events, media, index, superseded, lock, replica>>
    BY DEF Release!NewSells, Release!indexVars, Release!bootVars
  <1>2. IndexInv'
    BY <1>1, IndexStands DEF ReleaseInv
  <1>3. schema = "new"
    <2>1. PICK r \in Callers : replica[r].at \in {"serving", "draining"}
      BY DEF Release!NewSells
    <2> QED
      BY <2>1 DEF ReleaseInv, IndexInv, BootOK
  <1>4. PICK w : w = Release!NewRow(o)
    OBVIOUS
  <1>5. /\ IsMap(sold') /\ DOMAIN sold' = DOMAIN sold \cup {o} /\ sold'[o] = w
        /\ \A x \in DOMAIN sold : x # o => sold'[x] = sold[x]
    BY <1>1, <1>4, SoldAlso
  <1>6. NewData /\ DOMAIN sold \subseteq DOMAIN Sales /\ AsSold(o, w, event)
    BY <1>3, <1>4, NewRowSold DEF ReleaseInv, DataInv
  <1>7. \A x \in DOMAIN sold' : AsSold(x, sold'[x], event)
    BY <1>5, <1>6 DEF NewData
  <1>8. NewData'
    <2>1. Release!ShowsStand'
      BY <1>1, <1>6 DEF NewData, Release!ShowsStand
    <2> QED
      BY <1>1, <1>6, <1>7, <2>1 DEF NewData
  <1>9. DataInv'
    BY <1>1, <1>3, <1>5, <1>6, <1>8 DEF ReleaseInv, DataInv, IsMap
  <1> QED
    BY <1>2, <1>9 DEF ReleaseInv

LEMMA ReleaseKept == ReleaseInv /\ [Release!Next]_releaseVars => ReleaseInv'
  <1> SUFFICES ASSUME ReleaseInv, [Release!Next]_releaseVars PROVE ReleaseInv'
    OBVIOUS
  <1>0. IndexInv /\ DataInv
    BY DEF ReleaseInv
  <1>1. ASSUME NEW o \in DOMAIN Sales, Release!OldSells(o) \/ Release!NewSells(o) PROVE ReleaseInv'
    BY <1>1, OldSellsKept, NewSellsKept
  <1>2. ASSUME NEW r \in Callers, Release!RunMigrations(r) PROVE ReleaseInv'
    BY <1>0, <1>2, MigratedKept, MigrationKept DEF ReleaseInv
  <1>3. ASSUME UNCHANGED Release!dataVars PROVE DataInv'
    BY <1>0, <1>3, DataStands DEF Release!dataVars
  <1>4. ASSUME NEW r \in Callers, Release!LookForIndexes(r) PROVE ReleaseInv'
    BY <1>3, <1>4, LooksKept DEF ReleaseInv, Release!LookForIndexes
  <1>5. ASSUME NEW r \in Callers, Release!TryLock(r) PROVE ReleaseInv'
    BY <1>3, <1>5, LocksKept, SMTT(30) DEF ReleaseInv, Release!TryLock
  <1>6. ASSUME NEW r \in Callers, Release!BuildBegins(r) PROVE ReleaseInv'
    BY <1>0, <1>3, <1>6, BeginsKept DEF ReleaseInv, Release!BuildBegins
  <1>7. ASSUME NEW r \in Callers, Release!BuildEnds(r) PROVE ReleaseInv'
    BY <1>0, <1>3, <1>7, EndsKept DEF ReleaseInv, Release!BuildEnds
  <1>8. ASSUME NEW r \in Callers, Release!BuildFails(r) PROVE ReleaseInv'
    BY <1>0, <1>3, <1>8, FailsKept DEF ReleaseInv, Release!BuildFails
  <1>9. ASSUME NEW r \in Callers, Release!dropSupersededIndexes(r) PROVE ReleaseInv'
    BY <1>0, <1>3, <1>9, DropsKept DEF ReleaseInv, Release!dropSupersededIndexes
  <1>10. ASSUME NEW r \in Callers, Release!Shutdown(r) PROVE ReleaseInv'
    BY <1>0, <1>3, <1>10, ShutdownKept DEF ReleaseInv, Release!Shutdown
  <1>11. ASSUME NEW r \in Callers, Release!Drained(r) \/ Release!Crash(r) PROVE ReleaseInv'
    <2>1. Release!Stops(r) /\ UNCHANGED <<schema, index, superseded>> /\ UNCHANGED Release!dataVars
      BY <1>11 DEF Release!Drained, Release!Crash, Release!dataVars, Release!indexVars
    <2> QED
      BY <1>0, <1>3, <2>1, StopsKept DEF ReleaseInv
  <1>12. ASSUME UNCHANGED Release!dataVars, UNCHANGED <<index, superseded, lock, replica>> PROVE ReleaseInv'
    <2>1. UNCHANGED schema
      BY <1>12 DEF Release!dataVars
    <2> QED
      BY <1>0, <1>3, <1>12, <2>1, IndexStands DEF ReleaseInv
  <1>13. ASSUME NEW i \in Release!Names, Release!Collide(i) PROVE ReleaseInv'
    <2>1. UNCHANGED Release!dataVars /\ UNCHANGED <<index, superseded, lock, replica>>
      BY <1>13 DEF Release!Collide, Release!bootVars
    <2> QED
      BY <1>12, <2>1
  <1>14. CASE Release!OldRetires
    <2>1. UNCHANGED Release!dataVars /\ UNCHANGED <<index, superseded, lock, replica>>
      BY <1>14 DEF Release!OldRetires, Release!indexVars, Release!bootVars
    <2> QED
      BY <1>12, <2>1
  <1>15. CASE UNCHANGED releaseVars
    <2>1. UNCHANGED Release!dataVars /\ UNCHANGED <<index, superseded, lock, replica>>
      BY <1>15 DEF releaseVars, Release!dataVars
    <2> QED
      BY <1>12, <2>1
  <1> QED
    BY <1>1, <1>2, <1>4, <1>5, <1>6, <1>7, <1>8, <1>9, <1>10, <1>11, <1>13, <1>14, <1>15 DEF Release!Next

LEMMA ReleaseSafe == ReleaseInv => Release!TypeOK /\ Release!StartupSound
  <1> SUFFICES ASSUME ReleaseInv PROVE Release!TypeOK /\ Release!StartupSound
    OBVIOUS
  <1>1. Release!TypeOK
    BY DEF ReleaseInv, IndexInv, DataInv, BootOK, IsBoot, Stages, Release!TypeOK
  <1>2. Release!RulesInForce
    BY DEF ReleaseInv, IndexInv, BootOK, Release!RulesInForce
  <1>3. Release!ShowsStand
    <2>1. schema = "new" => Release!ShowsStand
      BY DEF ReleaseInv, DataInv, NewData
    <2> QED
      BY <2>1 DEF Release!ShowsStand
  <1>4. ASSUME schema = "new", NEW o \in DOMAIN sold
        PROVE  /\ sold[o].lines = {SaleLine(o)} /\ sold[o].event = event[Sales[o].tier]
               /\ sold[o].event \in DOMAIN events /\ sold[o].subtotal = Sales[o].total
               /\ sold[o].subtotal + sold[o].fee = sold[o].total
    <2>1. o \in DOMAIN Sales /\ AsSold(o, sold[o], event) /\ NewData
      BY <1>4 DEF ReleaseInv, DataInv, NewData
    <2>2. Sales[o].tier \in DOMAIN Tiers
      BY <2>1, SalesSpelt
    <2> QED
      BY <2>1, <2>2 DEF AsSold, NewData
  <1>5. Release!ReceiptsStand
    BY <1>4 DEF Release!ReceiptsStand, SaleLine
  <1> QED
    BY <1>1, <1>2, <1>3, <1>5 DEF Release!StartupSound

-----------------------------------------------------------------------------
(* Money.  At Asaas every charge but the newest is deleted, and a job that *)
(* is about to make one has seen the newest deleted; Mercado Pago has only *)
(* one.  What the cache remembers names a charge there is, a charge that   *)
(* is voided stays void, and one that was given back is not paid again.    *)
Dead == {"OVERDUE", "cancelled", "expired"}
Back == {"REFUNDED", "REFUND_REQUESTED"}
Words == Dead \cup Back \cup
    {"PENDING", "RECEIVED", "CHARGEBACK_REQUESTED", "AWAITING_CHARGEBACK_REVERSAL", "pending", "in_process", "approved",
     "rejected", "refunded", "partially_refunded", "in_mediation", "charged_back"}
Gone(c) == Money!Status(c) = "cancelled"
Charges == [word : Words, deleted : BOOLEAN, until : Nat, backs : Nat]
Lapse(g) == IF g = "asaas" THEN "OVERDUE" ELSE "expired"
ChargeOK(c, hold, now, g) ==
    /\ c \in Charges /\ c.until >= hold
    /\ c.word = Lapse(g) => now >= hold
    /\ c.deleted => c.word \in {"PENDING", "OVERDUE"}
    /\ c.backs <= 1 /\ (g = "asaas" /\ c.backs > 0 => c.word \in Back)
Single(cs, g) ==
    /\ g = "asaas" => \A i \in DOMAIN cs : i # Len(cs) => cs[i].deleted
    /\ g = "mercadopago" => Len(cs) <= 1
Ready(cs, g) == g = "asaas" => Len(cs) = 0 \/ cs[Len(cs)].deleted

IsRead(r) == r = [id |-> r.id, status |-> r.status, code |-> r.code]
ReadOK(r, cs) == r.id \in DOMAIN cs /\ r.code \in BOOLEAN
IsJob(j) == j = [at |-> j.at, tries |-> j.tries, read |-> j.read] /\ IsRead(j.read)
Rest == {"due", "done", "parked"}
Path(k) ==
    IF k = "create" THEN Rest \cup {"search", "customer", "enrol", "post", "code", "fetch", "settle"}
    ELSE IF k = "sync" THEN Rest \cup {"fetch", "settle"}
    ELSE IF k = "void" THEN Rest \cup {"delete"}
    ELSE Rest \cup {"give", "fetch", "settle"}
JobOK(k, j, cs, g) ==
    /\ IsJob(j) /\ j.at \in Path(k) /\ j.tries \in 0..MaxAttempts
    /\ j.at = "due" => j.tries < MaxAttempts
    /\ j.at \in {"code", "settle"} => ReadOK(j.read, cs)
    /\ j.at \in {"customer", "enrol", "post"} => Ready(cs, g)
    /\ j.at \in {"delete", "give"} => j.read.id \in DOMAIN cs
    /\ k = "void" /\ j.at = "done" /\ j.read.id # 0 => j.read.id \in DOMAIN cs /\ Gone(cs[j.read.id])
IsSale(s) == s = [status |-> s.status, hold |-> s.hold, charge |-> s.charge, code |-> s.code, told |-> s.told]
SaleOK(s, cs) ==
    /\ IsSale(s) /\ s.status \in Money!Statuses /\ s.hold \in Holds /\ s.charge \in 0..Len(cs) /\ s.code \in BOOLEAN
    /\ s.told = 0 \/ (s.told = 1 /\ s.code /\ s.charge # 0)
MoneyInv ==
    /\ gateway \in {"asaas", "mercadopago"} /\ clock \in Nat
    /\ charges \in Seq(Charges) /\ Single(charges, gateway)
    /\ \A i \in DOMAIN charges : ChargeOK(charges[i], sale.hold, clock, gateway)
    /\ SaleOK(sale, charges) /\ copy.status \in Money!Statuses /\ copy.charge \in 0..Len(charges)
    /\ job = [k \in Money!Kinds |-> job[k]] /\ \A k \in Money!Kinds : JobOK(k, job[k], charges, gateway)

LEMMA MoneyConstants ==
  /\ Holds \subseteq Nat /\ Moments \subseteq Nat /\ Day \in Nat \ {0} /\ DueDays \in Nat
  /\ MinPixExpiry \in Nat /\ MaxPixExpiry \in Nat /\ (\A hold \in Holds : hold <= MaxPixExpiry)
  /\ MaxAttempts \in Nat \ {0} /\ Turns \subseteq Money!PossibleMoves
  BY BackstageAssumption DEF Money!ProvidersAssumption

(* The words.                                                              *)
LEMMA WordsRead ==
  ASSUME NEW w
  PROVE  /\ Money!MapStatus(w) = "cancelled" => w \in Dead
         /\ w \in Dead => Money!MapStatus(w) = "cancelled"
         /\ w \in {"PENDING", "pending"} => Money!MapStatus(w) = "pending"
         /\ w \in Back => Money!MapStatus(w) # "paid"
  BY DEF Money!MapStatus, Dead, Back

LEMMA GoneRead ==
  ASSUME NEW c
  PROVE  /\ Gone(c) => Money!MapStatus(c.word) # "paid" /\ (c.deleted \/ c.word \in Dead)
         /\ c.deleted /\ c.word \in {"PENDING", "OVERDUE"} => Gone(c)
         /\ c.word \in Dead => Gone(c)
  BY WordsRead DEF Money!Status, Gone, Dead

LEMMA DayEnds ==
  ASSUME NEW x \in Nat, NEW d \in Nat \ {0}
  PROVE  x \div d \in Nat /\ (x \div d + 1) * d \in Nat /\ (x \div d + 1) * d > x
  OBVIOUS

LEMMA UntilOutlives ==
  ASSUME MoneyInv
  PROVE  Money!Until(sale.hold) \in Nat /\ Money!Until(sale.hold) >= sale.hold
  <1> DEFINE hold == sale.hold
  <1>1. hold \in Nat /\ clock \in Nat /\ hold <= MaxPixExpiry
    BY MoneyConstants DEF MoneyInv, SaleOK
  <1>2. CASE gateway = "asaas"
    <2>1. PICK x : x = Money!Later(Money!Now + DueDays * Day, hold)
      OBVIOUS
    <2>2. DueDays * Day \in Nat
      BY MoneyConstants
    <2>3. x \in Nat /\ x >= hold
      BY <1>1, <2>1, <2>2 DEF Money!Later, Money!Now
    <2>4. (x \div Day + 1) * Day \in Nat /\ (x \div Day + 1) * Day > x
      BY <2>3, MoneyConstants, DayEnds
    <2>5. Money!Until(hold) = (x \div Day + 1) * Day
      BY <1>2, <2>1 DEF Money!Until, Money!DueDate
    <2> QED
      BY <1>1, <2>3, <2>4, <2>5
  <1>3. CASE gateway # "asaas"
    <2>1. Money!Until(hold) = Money!ClampExpiry(hold)
      BY <1>3 DEF Money!Until
    <2>2. Money!ClampExpiry(hold) \in Nat /\ Money!ClampExpiry(hold) >= hold
      BY <1>1, MoneyConstants DEF Money!ClampExpiry, Money!Now
    <2> QED
      BY <2>1, <2>2
  <1> QED
    BY <1>2, <1>3

-----------------------------------------------------------------------------
(* The provider's tables only move so that what was read of them stays true. *)
Better(cs) ==
    /\ cs \in Seq(Charges) /\ Len(cs) >= Len(charges) /\ Single(cs, gateway)
    /\ \A i \in DOMAIN cs : ChargeOK(cs[i], sale.hold, clock, gateway)
    /\ \A i \in DOMAIN charges : Gone(charges[i]) => Gone(cs[i])
    /\ Len(cs) = Len(charges) /\ Ready(charges, gateway) => Ready(cs, gateway)

LEMMA MoneyFacts ==
  ASSUME MoneyInv
  PROVE  /\ charges \in Seq(Charges) /\ Len(charges) \in Nat /\ DOMAIN charges = 1..Len(charges)
         /\ SaleOK(sale, charges) /\ (sale.charge # 0 => sale.charge \in DOMAIN charges)
         /\ copy.status \in Money!Statuses /\ copy.charge \in 0..Len(charges)
         /\ (copy.charge # 0 => copy.charge \in DOMAIN charges)
         /\ sale.hold \in Nat /\ clock \in Nat /\ Single(charges, gateway) /\ gateway \in {"asaas", "mercadopago"}
         /\ \A i \in DOMAIN charges : ChargeOK(charges[i], sale.hold, clock, gateway)
         /\ \A k \in Money!Kinds : JobOK(k, job[k], charges, gateway) /\ IsJob(job[k])
  <1>1. sale.hold \in Nat
    BY MoneyConstants DEF MoneyInv, SaleOK
  <1>2. charges \in Seq(Charges) /\ Len(charges) \in Nat /\ DOMAIN charges = 1..Len(charges)
    BY DEF MoneyInv
  <1>3. (sale.charge # 0 => sale.charge \in DOMAIN charges) /\ (copy.charge # 0 => copy.charge \in DOMAIN charges)
    BY <1>2 DEF MoneyInv, SaleOK
  <1> QED
    BY <1>1, <1>2, <1>3 DEF MoneyInv, JobOK

LEMMA BetterSame ==
  ASSUME MoneyInv
  PROVE  Better(charges)
  BY MoneyFacts DEF Better

LEMMA LongerSpans ==
  ASSUME NEW a, NEW b, Len(a) \in Nat, Len(b) \in Nat, Len(b) >= Len(a)
  PROVE  1..Len(a) \subseteq 1..Len(b)
  <1> SUFFICES ASSUME NEW x \in 1..Len(a) PROVE x \in 1..Len(b)
    OBVIOUS
  <1> QED
    OBVIOUS

LEMMA JobStands ==
  ASSUME MoneyInv, NEW k, NEW j, NEW cs, JobOK(k, j, charges, gateway), Better(cs),
         Len(cs) = Len(charges) \/ j.at \notin {"customer", "enrol", "post"}
  PROVE  JobOK(k, j, cs, gateway)
  <1>1. DOMAIN charges \subseteq DOMAIN cs
    <2>1. Len(cs) \in Nat /\ DOMAIN cs = 1..Len(cs) /\ Len(cs) >= Len(charges)
      BY DEF Better
    <2>2. Len(charges) \in Nat /\ DOMAIN charges = 1..Len(charges)
      BY MoneyFacts
    <2>3. 1..Len(charges) \subseteq 1..Len(cs)
      BY ONLY <2>1, <2>2, LongerSpans, Zenon
    <2> QED
      BY ONLY <2>1, <2>2, <2>3, Zenon
  <1>2. ReadOK(j.read, charges) => ReadOK(j.read, cs)
    BY <1>1 DEF ReadOK, Better
  <1>3. j.at \in {"customer", "enrol", "post"} => Ready(cs, gateway)
    BY DEF JobOK, Better
  <1>4. j.at \in {"delete", "give"} => j.read.id \in DOMAIN cs
    BY <1>1 DEF JobOK
  <1>5. k = "void" /\ j.at = "done" /\ j.read.id # 0 => j.read.id \in DOMAIN cs /\ Gone(cs[j.read.id])
    BY <1>1 DEF JobOK, Better
  <1> QED
    BY <1>2, <1>3, <1>4, <1>5 DEF JobOK

LEMMA MoneyAdvances ==
  ASSUME MoneyInv, UNCHANGED <<gateway, clock, sale, copy>>, NEW k \in Money!Kinds, NEW j, NEW cs, charges' = cs,
         job' = [job EXCEPT ![k] = j], Better(cs), JobOK(k, j, cs, gateway), Len(cs) = Len(charges) \/ k = "create"
  PROVE  MoneyInv'
  <1>1. job'[k] = j /\ (\A l \in Money!Kinds : l # k => job'[l] = job[l]) /\ job' = [l \in Money!Kinds |-> job'[l]]
    BY DEF MoneyInv
  <1>2. \A l \in Money!Kinds : l # k => JobOK(l, job[l], cs, gateway)
    <2> SUFFICES ASSUME NEW l \in Money!Kinds, l # k PROVE JobOK(l, job[l], cs, gateway)
      OBVIOUS
    <2>1. JobOK(l, job[l], charges, gateway)
      BY MoneyFacts
    <2>2. job[l].at \in {"customer", "enrol", "post"} => l = "create"
      BY <2>1 DEF JobOK, Path, Rest
    <2> QED
      BY <2>1, <2>2, JobStands
  <1>3. \A l \in Money!Kinds : JobOK(l, job'[l], cs, gateway)
    BY <1>1, <1>2
  <1>4. SaleOK(sale, cs)
    <2>1. Len(cs) \in Nat /\ Len(cs) >= Len(charges) /\ Len(charges) \in Nat
      BY MoneyFacts DEF Better
    <2> QED
      BY <2>1, MoneyFacts DEF SaleOK
  <1>5. Single(cs, gateway) /\ SaleOK(sale, cs) /\ cs \in Seq(Charges) /\ \A i \in DOMAIN cs : ChargeOK(cs[i], sale.hold, clock, gateway)
    BY <1>4 DEF Better
  <1>6. copy.status \in Money!Statuses /\ copy.charge \in 0..Len(cs)
    <2>1. Len(cs) \in Nat /\ Len(cs) >= Len(charges) /\ Len(charges) \in Nat
      BY MoneyFacts DEF Better
    <2> QED
      BY <2>1, MoneyFacts
  <1> QED
    BY <1>1, <1>3, <1>5, <1>6 DEF MoneyInv

-----------------------------------------------------------------------------
(* Where a run goes next.                                                  *)
LEMMA JobNow ==
  ASSUME MoneyInv, NEW k \in Money!Kinds
  PROVE  IsJob(job[k]) /\ JobOK(k, job[k], charges, gateway) /\ IsRead(Money!Nothing)
         /\ job[k].tries \in Nat /\ job[k].tries <= MaxAttempts /\ MaxAttempts \in Nat \ {0}
  <1>1. IsRead(Money!Nothing)
    BY DEF IsRead, Money!Nothing, Money!About
  <1>2. job[k].tries \in Nat /\ job[k].tries <= MaxAttempts
    BY MoneyFacts, MoneyConstants DEF JobOK
  <1> QED
    BY <1>1, <1>2, MoneyFacts, MoneyConstants

LEMMA EndsSpelt ==
  ASSUME NEW at
  PROVE  IsJob(Money!Ended(at)) /\ Money!Ended(at).at = at /\ Money!Ended(at).tries = 0 /\ Money!Ended(at).read.id = 0
  <1>1. PICK read : read = Money!Nothing
    OBVIOUS
  <1>2. IsRead(read) /\ read.id = 0
    BY <1>1 DEF IsRead, Money!Nothing, Money!About
  <1>3. Money!Ended(at) = [at |-> at, tries |-> 0, read |-> read]
    BY <1>1 DEF Money!Ended, Money!NoJob
  <1> QED
    BY <1>2, <1>3 DEF IsJob

LEMMA EndsOK ==
  ASSUME MoneyInv, NEW k \in Money!Kinds, NEW at \in {"done", "parked"}, NEW cs
  PROVE  JobOK(k, Money!Ended(at), cs, gateway)
  <1>1. IsJob(Money!Ended(at)) /\ Money!Ended(at).at = at /\ Money!Ended(at).tries = 0 /\ Money!Ended(at).read.id = 0
    BY EndsSpelt
  <1>2. at \in Path(k) /\ 0 \in 0..MaxAttempts
    BY JobNow DEF Path, Rest
  <1> QED
    BY <1>1, <1>2 DEF JobOK

(* A void that was granted says which charge it voided.                    *)
LEMMA DeletedEndsOK ==
  ASSUME MoneyInv, NEW id, NEW cs, id \in DOMAIN cs, Gone(cs[id])
  PROVE  JobOK("void", Money!Deleted(id), cs, gateway)
  <1>1. PICK read : read = Money!About(id)
    OBVIOUS
  <1>2. IsRead(read) /\ read.id = id
    BY <1>1 DEF IsRead, Money!About
  <1>3. PICK none : none = Money!Ended("done")
    OBVIOUS
  <1>4. IsJob(none) /\ none.at = "done" /\ none.tries = 0
    BY <1>3, EndsSpelt
  <1>5. PICK j : j = [none EXCEPT !.read = read]
    OBVIOUS
  <1>6. IsJob(j) /\ j.at = "done" /\ j.tries = 0 /\ j.read.id = id
    BY <1>2, <1>4, <1>5 DEF IsJob
  <1>7. "done" \in Path("void") /\ 0 \in 0..MaxAttempts
    BY MoneyConstants DEF Path, Rest
  <1>8. JobOK("void", j, cs, gateway)
    BY <1>6, <1>7 DEF JobOK
  <1> QED
    BY <1>1, <1>3, <1>5, <1>8 DEF Money!Deleted

LEMMA FailedOK ==
  ASSUME MoneyInv, NEW k \in Money!Kinds, NEW cs
  PROVE  JobOK(k, Money!Failed(k), cs, gateway)
  <1>1. CASE job[k].tries >= MaxAttempts
    <2>1. Money!Failed(k) = Money!Ended("parked")
      BY <1>1 DEF Money!Failed
    <2>2. JobOK(k, Money!Ended("parked"), cs, gateway)
      BY EndsOK
    <2> QED
      BY <2>1, <2>2
  <1>2. CASE ~(job[k].tries >= MaxAttempts)
    <2>1. PICK read : read = Money!Nothing
      OBVIOUS
    <2>2. PICK j : j = [job[k] EXCEPT !.at = "due", !.read = read]
      OBVIOUS
    <2>3. Money!Failed(k) = j
      BY <1>2, <2>1, <2>2 DEF Money!Failed
    <2>4. IsJob(job[k]) /\ IsRead(read)
      BY <2>1, JobNow
    <2>5. IsJob(j) /\ j.at = "due" /\ j.tries = job[k].tries
      BY <2>2, <2>4 DEF IsJob
    <2>6. j.tries \in 0..MaxAttempts /\ j.tries < MaxAttempts
      BY <1>2, <2>5, JobNow
    <2>7. "due" \in Path(k)
      BY DEF Path, Rest
    <2> QED
      BY <2>3, <2>5, <2>6, <2>7 DEF JobOK
  <1> QED
    BY <1>1, <1>2

LEMMA ToSpelt ==
  ASSUME MoneyInv, NEW k \in Money!Kinds, NEW stage
  PROVE  /\ IsJob(Money!To(k, stage)) /\ Money!To(k, stage).at = stage
         /\ Money!To(k, stage).tries = job[k].tries /\ Money!To(k, stage).read = job[k].read
  <1>1. PICK j : j = Money!To(k, stage)
    OBVIOUS
  <1>2. j = [job[k] EXCEPT !.at = stage] /\ IsJob(job[k])
    BY <1>1, JobNow DEF Money!To
  <1>3. IsJob(j) /\ j.at = stage /\ j.tries = job[k].tries /\ j.read = job[k].read
    BY <1>2 DEF IsJob
  <1> QED
    BY <1>1, <1>3

(* What a run has read is kept while the tables move on.                   *)
LEMMA ReadsOK ==
  ASSUME MoneyInv, NEW k \in Money!Kinds, k # "void", NEW cs, NEW j, IsJob(j), j.tries = job[k].tries,
         j.at \in {"code", "settle"}, j.at \in Path(k), ReadOK(j.read, cs)
  PROVE  JobOK(k, j, cs, gateway)
  <1>1. j.tries \in 0..MaxAttempts
    BY JobNow
  <1> QED
    BY <1>1 DEF JobOK

LEMMA ChargeTold ==
  ASSUME NEW id, NEW c, NEW read, read = Money!ToCharge(id, c)
  PROVE  IsRead(read) /\ read.id = id /\ read.code \in BOOLEAN
  BY DEF IsRead, Money!ToCharge

LEMMA WithoutOK ==
  ASSUME MoneyInv, NEW k \in Money!Kinds, Money!Working(k), NEW cs, Better(cs)
  PROVE  JobOK(k, Money!Without(k), cs, gateway)
  <1>2. CASE job[k].at = "code"
    <2>1. JobOK(k, job[k], cs, gateway)
      BY <1>2, JobNow, JobStands
    <2>2. Money!Without(k) = Money!To(k, "settle")
      BY <1>2 DEF Money!Without
    <2>3. PICK j : j = Money!To(k, "settle")
      OBVIOUS
    <2>4. IsJob(j) /\ j.at = "settle" /\ j.tries = job[k].tries /\ j.read = job[k].read
      BY <2>3, ToSpelt
    <2>5. k = "create"
      BY <1>2, <2>1 DEF JobOK, Path, Rest, Money!Kinds
    <2>6. ReadOK(j.read, cs) /\ j.tries \in 0..MaxAttempts
      BY <1>2, <2>1, <2>4 DEF JobOK
    <2>7. JobOK(k, j, cs, gateway)
      BY <2>4, <2>5, <2>6 DEF JobOK, Path
    <2> QED
      BY <2>2, <2>3, <2>7
  <1>3. CASE job[k].at # "code"
    BY <1>3, FailedOK DEF Money!Without
  <1> QED
    BY <1>2, <1>3

-----------------------------------------------------------------------------
(* What a provider that obeys makes of its tables and of the run.          *)
AnswerOK(k, cs, then) ==
    /\ Better(cs) /\ JobOK(k, then, cs, gateway)
    /\ Len(cs) = Len(charges) \/ k = "create"
Answered(k, a) == AnswerOK(k, a.charges, a.then)

LEMMA ToldSpelt ==
  ASSUME NEW cs, NEW then, NEW k, AnswerOK(k, cs, then)
  PROVE  Answered(k, Money!Told(cs, then))
  <1>1. Money!Told(cs, then).charges = cs /\ Money!Told(cs, then).then = then
    BY DEF Money!Told
  <1> QED
    BY <1>1 DEF Answered

(* An answer that leaves the tables alone.                                 *)
LEMMA TellsOnly ==
  ASSUME MoneyInv, NEW k \in Money!Kinds, NEW then, JobOK(k, then, charges, gateway)
  PROVE  AnswerOK(k, charges, then)
  BY BetterSame DEF AnswerOK

LEMMA ReadTells ==
  ASSUME MoneyInv, NEW k \in Money!Kinds, NEW stage \in {"code", "settle"}, NEW id \in DOMAIN charges,
         stage \in Path(k), k # "void"
  PROVE  AnswerOK(k, charges, Money!Read(k, stage, id))
  <1>1. PICK j : j = Money!Read(k, stage, id)
    OBVIOUS
  <1>2. PICK read : read = Money!ToCharge(id, charges[id])
    OBVIOUS
  <1>3. j = [job[k] EXCEPT !.at = stage, !.read = read]
    BY <1>1, <1>2, SMTT(30) DEF Money!Read
  <1>4. IsRead(read) /\ ReadOK(read, charges)
    BY <1>2, ChargeTold DEF ReadOK
  <1>5. IsJob(j) /\ j.at = stage /\ j.tries = job[k].tries /\ j.read = read
    <2>1. IsJob(job[k])
      BY JobNow
    <2> QED
      BY <1>3, <1>4, <2>1 DEF IsJob
  <1>6. JobOK(k, j, charges, gateway)
    BY <1>4, <1>5, ReadsOK
  <1> QED
    BY <1>1, <1>6, TellsOnly

LEMMA ToReady ==
  ASSUME MoneyInv, Ready(charges, gateway), NEW stage \in {"customer", "enrol", "post"}
  PROVE  AnswerOK("create", charges, Money!To("create", stage))
  <1>1. PICK j : j = Money!To("create", stage)
    OBVIOUS
  <1>2. "create" \in Money!Kinds
    BY DEF Money!Kinds
  <1>3. IsJob(j) /\ j.at = stage /\ j.tries = job["create"].tries
    BY <1>1, <1>2, ToSpelt
  <1>4. j.tries \in 0..MaxAttempts
    BY <1>2, <1>3, JobNow
  <1>5. JobOK("create", j, charges, gateway)
    BY <1>3, <1>4 DEF JobOK, Path
  <1> QED
    BY <1>1, <1>2, <1>5, TellsOnly

LEMMA OnlyCreate ==
  ASSUME MoneyInv, NEW k \in Money!Kinds
  PROVE  /\ job[k].at \in {"search", "customer", "enrol", "post", "code"} => k = "create"
         /\ job[k].at = "delete" => k = "void"
         /\ job[k].at = "give" => k = "refund"
         /\ job[k].at \in {"fetch", "settle"} => k # "void" /\ "settle" \in Path(k)
         /\ k \in {"create", "sync", "void", "refund"}
  <1>1. k \in {"create", "sync", "void", "refund"} /\ job[k].at \in Path(k)
    BY JobNow DEF JobOK, Money!Kinds
  <1> QED
    BY <1>1 DEF Path, Rest

LEMMA SearchAnswers ==
  ASSUME MoneyInv, NEW k \in Money!Kinds, job[k].at = "search", NEW a \in Money!FindPaymentByReference(k)
  PROVE  Answered(k, a)
  <1>1. k = "create"
    BY OnlyCreate
  <1>2. CASE charges = <<>> \/ Money!Newest.deleted
    <2>1. a = Money!Told(charges, Money!To(k, "customer"))
      BY <1>2 DEF Money!FindPaymentByReference
    <2>2. Ready(charges, gateway)
      BY <1>2 DEF Ready, Money!Newest
    <2> QED
      BY <1>1, <2>1, <2>2, ToReady, ToldSpelt
  <1>3. CASE ~(charges = <<>> \/ Money!Newest.deleted)
    <2>1. a = Money!Told(charges, Money!Read(k, "code", Len(charges)))
      BY <1>3 DEF Money!FindPaymentByReference
    <2>2. Len(charges) \in DOMAIN charges
      BY <1>3, MoneyFacts
    <2>3. "code" \in Path(k) /\ k # "void"
      BY <1>1 DEF Path
    <2>4. AnswerOK(k, charges, Money!Read(k, "code", Len(charges)))
      BY <2>2, <2>3, ReadTells
    <2> QED
      BY <2>1, <2>4, ToldSpelt
  <1> QED
    BY <1>2, <1>3

LEMMA CustomerAnswers ==
  ASSUME MoneyInv, NEW k \in Money!Kinds, job[k].at \in {"customer", "enrol"},
         NEW a \in Money!FindCustomerByDocument(k) \cup Money!CreateCustomer(k)
  PROVE  Answered(k, a)
  <1>1. k = "create" /\ Ready(charges, gateway)
    BY OnlyCreate, JobNow DEF JobOK
  <1>2. CASE a \in Money!CreateCustomer(k)
    <2>1. PICK then : then = Money!To(k, "post")
      OBVIOUS
    <2>2. a.charges = charges /\ a.then = then
      BY <1>2, <2>1 DEF Money!CreateCustomer
    <2> QED
      BY <1>1, <2>1, <2>2, ToReady DEF Answered
  <1>3. CASE a \in Money!FindCustomerByDocument(k)
    <2>1. PICK stage \in {"post", "enrol"} : a = Money!Told(charges, Money!To(k, stage))
      BY <1>3 DEF Money!FindCustomerByDocument
    <2> QED
      BY <1>1, <2>1, ToReady, ToldSpelt
  <1> QED
    BY <1>2, <1>3

LEMMA DrawnOK ==
  ASSUME MoneyInv
  PROVE  /\ Money!Drawn \in Charges /\ ChargeOK(Money!Drawn, sale.hold, clock, gateway)
  <1>1. PICK until : until = Money!Until(sale.hold)
    OBVIOUS
  <1>2. until \in Nat /\ until >= sale.hold
    BY <1>1, UntilOutlives
  <1>3. PICK word : word = Money!Fresh
    OBVIOUS
  <1>4. word \in {"PENDING", "pending"} /\ word \in Words
    <2>1. word = "PENDING" \/ word = "pending"
      BY <1>3 DEF Money!Fresh
    <2> QED
      BY <2>1 DEF Words
  <1>5. PICK c : c = Money!Drawn
    OBVIOUS
  <1>6. c = [word |-> word, deleted |-> FALSE, until |-> until, backs |-> 0]
    BY <1>1, <1>3, <1>5 DEF Money!Drawn
  <1>7. c \in Charges /\ c.word = word /\ c.until = until /\ c.backs = 0 /\ ~c.deleted
    BY <1>2, <1>4, <1>6 DEF Charges
  <1>8. ChargeOK(c, sale.hold, clock, gateway)
    BY <1>2, <1>4, <1>7 DEF ChargeOK, Lapse
  <1> QED
    BY <1>5, <1>7, <1>8

LEMMA DrawnAlso ==
  ASSUME MoneyInv, Ready(charges, gateway), ~Money!Made, NEW cs, cs = Append(charges, Money!Drawn)
  PROVE  Better(cs) /\ Len(cs) = Len(charges) + 1 /\ cs[Len(charges) + 1] = Money!Drawn
  <1>1. PICK c : c = Money!Drawn
    OBVIOUS
  <1>2. c \in Charges /\ ChargeOK(c, sale.hold, clock, gateway)
    BY <1>1, DrawnOK
  <1>3. charges \in Seq(Charges) /\ Len(charges) \in Nat /\ DOMAIN charges = 1..Len(charges)
    BY MoneyFacts
  <1>4. /\ cs \in Seq(Charges) /\ Len(cs) = Len(charges) + 1 /\ cs[Len(charges) + 1] = c
        /\ \A i \in 1..Len(charges) : cs[i] = charges[i]
    BY <1>1, <1>2, <1>3
  <1>5. DOMAIN cs = 1..(Len(charges) + 1)
    BY <1>3, <1>4
  <1>6. \A i \in DOMAIN cs : ChargeOK(cs[i], sale.hold, clock, gateway)
    BY <1>2, <1>3, <1>4, <1>5, MoneyFacts
  <1>7. Single(cs, gateway)
    <2>1. CASE gateway = "asaas"
      <3>1. \A i \in 1..Len(charges) : charges[i].deleted
        BY <1>3, <2>1, MoneyFacts DEF Single, Ready
      <3> QED
        BY <1>3, <1>4, <1>5, <2>1, <3>1 DEF Single
    <2>2. CASE gateway = "mercadopago"
      <3>1. charges = <<>>
        BY <2>2 DEF Money!Made
      <3>2. Len(charges) = 0
        BY <3>1
      <3>3. Len(cs) <= 1
        BY <1>4, <3>2
      <3> QED
        BY <2>2, <3>3 DEF Single
    <2> QED
      BY <2>1, <2>2, MoneyFacts
  <1>8. \A i \in DOMAIN charges : Gone(charges[i]) => Gone(cs[i])
    BY <1>3, <1>4
  <1>9. Len(cs) >= Len(charges) /\ Len(cs) # Len(charges)
    <2>1. PICK m : m = Len(charges)
      OBVIOUS
    <2>2. m \in Nat /\ Len(cs) = m + 1
      BY <1>3, <1>4, <2>1
    <2> QED
      BY <2>1, <2>2
  <1> QED
    BY <1>1, <1>4, <1>6, <1>7, <1>8, <1>9 DEF Better

LEMMA PostAnswers ==
  ASSUME MoneyInv, NEW k \in Money!Kinds, job[k].at = "post", NEW a \in Money!CreatePayment(k)
  PROVE  Answered(k, a)
  <1>1. k = "create" /\ Ready(charges, gateway) /\ "settle" \in Path(k) /\ "code" \in Path(k)
    BY OnlyCreate, JobNow DEF JobOK, Path
  <1>2. CASE Money!Made
    <2>1. a = Money!Told(charges, Money!Read(k, "settle", Len(charges)))
      BY <1>2 DEF Money!CreatePayment
    <2>2. Len(charges) \in DOMAIN charges
      BY <1>2, MoneyFacts DEF Money!Made
    <2>3. AnswerOK(k, charges, Money!Read(k, "settle", Len(charges)))
      BY <1>1, <2>2, ReadTells
    <2> QED
      BY <2>1, <2>3, ToldSpelt
  <1>3. CASE ~Money!Made
    <2>1. PICK cs : cs = Append(charges, Money!Drawn)
      OBVIOUS
    <2>2. PICK stage \in {"code", "settle"} : stage = IF gateway = "asaas" THEN "code" ELSE "settle"
      OBVIOUS
    <2>3. PICK id : id = Len(charges) + 1
      OBVIOUS
    <2>4. PICK then : then = [job[k] EXCEPT !.at = stage, !.read = Money!ToCharge(id, Money!Drawn)]
      OBVIOUS
    <2>5. a = Money!Told(cs, then)
      BY <1>3, <2>1, <2>2, <2>3, <2>4 DEF Money!CreatePayment
    <2>6. Better(cs) /\ Len(cs) = id /\ cs[id] = Money!Drawn
      BY <1>1, <1>3, <2>1, <2>3, DrawnAlso
    <2>7. id \in DOMAIN cs
      <3>1. id \in Nat /\ id >= 1
        BY <2>3, MoneyFacts
      <3>2. DOMAIN cs = 1..id
        BY <2>6 DEF Better
      <3> QED
        BY <3>1, <3>2
    <2>8. stage \in Path(k)
      BY <1>1, <2>2, SMTT(30)
    <2>9. JobOK(k, then, cs, gateway)
      <3>1. PICK read : read = Money!ToCharge(id, Money!Drawn)
        OBVIOUS
      <3>2. then = [job[k] EXCEPT !.at = stage, !.read = read]
        BY <2>4, <3>1
      <3>3. IsRead(read) /\ ReadOK(read, cs)
        BY <2>7, <3>1, ChargeTold DEF ReadOK
      <3>4. IsJob(then) /\ then.at = stage /\ then.tries = job[k].tries /\ then.read = read
        <4>1. IsJob(job[k])
          BY JobNow
        <4> QED
          BY <3>2, <3>3, <4>1 DEF IsJob
      <3> QED
        BY <1>1, <2>8, <3>3, <3>4, ReadsOK
    <2> QED
      BY <1>1, <2>5, <2>6, <2>9, ToldSpelt DEF AnswerOK
  <1> QED
    BY <1>2, <1>3

LEMMA CodeAnswers ==
  ASSUME MoneyInv, NEW k \in Money!Kinds, job[k].at = "code", NEW a \in Money!GetPixQRCode(k)
  PROVE  Answered(k, a)
  <1>1. k = "create" /\ "settle" \in Path(k)
    BY OnlyCreate DEF Path
  <1>2. PICK code \in BOOLEAN : code = (job[k].read.status = "pending")
    OBVIOUS
  <1>3. PICK read : read = [job[k].read EXCEPT !.code = code]
    OBVIOUS
  <1>4. PICK then : then = [job[k] EXCEPT !.at = "settle", !.read = read]
    OBVIOUS
  <1>5. a = Money!Told(charges, then)
    BY <1>2, <1>3, <1>4 DEF Money!GetPixQRCode
  <1>6. IsJob(job[k]) /\ ReadOK(job[k].read, charges)
    BY JobNow DEF JobOK
  <1>7. IsRead(read) /\ read.id = job[k].read.id /\ read.status = job[k].read.status /\ read.code = code
    BY <1>3, <1>6 DEF IsJob, IsRead
  <1>8. IsJob(then) /\ then.at = "settle" /\ then.tries = job[k].tries /\ then.read = read
    BY <1>4, <1>6, <1>7 DEF IsJob
  <1>9. ReadOK(read, charges)
    BY <1>2, <1>6, <1>7 DEF ReadOK
  <1>10. then.tries \in 0..MaxAttempts
    BY <1>8, JobNow
  <1>11. JobOK(k, then, charges, gateway)
    BY <1>1, <1>8, <1>9, <1>10 DEF JobOK
  <1> QED
    BY <1>5, <1>11, TellsOnly, ToldSpelt

LEMMA FetchAnswers ==
  ASSUME MoneyInv, NEW k \in Money!Kinds, job[k].at = "fetch", NEW a \in Money!GetPayment(k)
  PROVE  Answered(k, a)
  <1>1. k # "void" /\ "settle" \in Path(k)
    BY OnlyCreate
  <1>2. PICK id \in DOMAIN charges : a = Money!Told(charges, Money!Read(k, "settle", id))
    <2>1. CASE k # "sync"
      BY <2>1, MoneyFacts DEF Money!GetPayment, Money!Seen, Money!Row
    <2>2. CASE k = "sync"
      BY <2>2 DEF Money!GetPayment
    <2> QED
      BY <2>1, <2>2
  <1>3. AnswerOK(k, charges, Money!Read(k, "settle", id))
    BY <1>1, ReadTells
  <1> QED
    BY <1>2, <1>3, ToldSpelt

(* One charge moves on.                                                    *)
LEMMA ChargeGoes ==
  ASSUME MoneyInv, NEW id \in DOMAIN charges, NEW c \in Charges, NEW cs, cs = [charges EXCEPT ![id] = c],
         ChargeOK(c, sale.hold, clock, gateway), charges[id].deleted => c.deleted, Gone(charges[id]) => Gone(c)
  PROVE  Better(cs) /\ Len(cs) = Len(charges) /\ cs[id] = c
  <1>1. charges \in Seq(Charges) /\ Len(charges) \in Nat /\ DOMAIN charges = 1..Len(charges)
    BY MoneyFacts
  <1>2. /\ cs \in Seq(Charges) /\ Len(cs) = Len(charges) /\ DOMAIN cs = DOMAIN charges /\ cs[id] = c
        /\ \A i \in DOMAIN charges : i # id => cs[i] = charges[i]
    BY <1>1
  <1>3. \A i \in DOMAIN cs : ChargeOK(cs[i], sale.hold, clock, gateway)
    BY <1>2, MoneyFacts
  <1>4. \A i \in DOMAIN charges : /\ charges[i].deleted => cs[i].deleted
                                  /\ Gone(charges[i]) => Gone(cs[i])
    BY <1>2
  <1>5. Single(cs, gateway)
    BY <1>2, <1>4, MoneyFacts DEF Single
  <1>6. Ready(charges, gateway) => Ready(cs, gateway)
    <2>1. Len(charges) # 0 => Len(charges) \in DOMAIN charges
      BY <1>1
    <2> QED
      BY <1>2, <1>4, <2>1 DEF Ready
  <1>7. Len(cs) >= Len(charges)
    <2>1. PICK m : m = Len(charges)
      OBVIOUS
    <2> QED
      BY <1>1, <1>2, <2>1
  <1> QED
    BY <1>2, <1>3, <1>4, <1>5, <1>6, <1>7 DEF Better

LEMMA ChargeSpelt ==
  ASSUME MoneyInv, NEW id \in DOMAIN charges
  PROVE  /\ charges[id] \in Charges /\ ChargeOK(charges[id], sale.hold, clock, gateway)
         /\ charges[id].word \in Words /\ charges[id].until \in Nat /\ charges[id].backs \in Nat
  <1>1. charges[id] \in Charges /\ ChargeOK(charges[id], sale.hold, clock, gateway)
    BY MoneyFacts DEF ChargeOK
  <1> QED
    BY <1>1 DEF Charges

LEMMA DeletedOK ==
  ASSUME MoneyInv, NEW id \in DOMAIN charges, NEW c, c = [charges[id] EXCEPT !.deleted = TRUE],
         charges[id].word \in {"PENDING", "OVERDUE"}
  PROVE  c \in Charges /\ ChargeOK(c, sale.hold, clock, gateway) /\ c.deleted /\ Gone(c)
  <1>1. charges[id] \in Charges /\ ChargeOK(charges[id], sale.hold, clock, gateway)
    BY ChargeSpelt
  <1>2. c \in Charges /\ c.word = charges[id].word /\ c.until = charges[id].until /\ c.backs = charges[id].backs
    BY <1>1 DEF Charges
  <1>3. c.deleted
    BY <1>1 DEF Charges
  <1>4. ChargeOK(c, sale.hold, clock, gateway)
    BY <1>1, <1>2 DEF ChargeOK
  <1> QED
    BY <1>2, <1>3, <1>4, GoneRead

(* Another word for a charge that is not deleted, nor the one for running  *)
(* out.                                                                    *)
LEMMA RewordedOK ==
  ASSUME MoneyInv, NEW id \in DOMAIN charges, NEW word \in Words, NEW c, c = [charges[id] EXCEPT !.word = word],
         word = Lapse(gateway) => clock >= sale.hold, ~charges[id].deleted, charges[id].word \notin Dead,
         gateway = "asaas" /\ charges[id].word \in Back => word \in Back
  PROVE  /\ c \in Charges /\ ChargeOK(c, sale.hold, clock, gateway) /\ (charges[id].deleted => c.deleted)
         /\ (Gone(charges[id]) => Gone(c)) /\ c.word = word
  <1>1. charges[id] \in Charges /\ ChargeOK(charges[id], sale.hold, clock, gateway)
    BY ChargeSpelt
  <1>2. c \in Charges /\ c.word = word /\ c.until = charges[id].until /\ c.backs = charges[id].backs
    BY <1>1 DEF Charges
  <1>3. ~c.deleted
    BY <1>1 DEF Charges
  <1>4. ChargeOK(c, sale.hold, clock, gateway)
    BY <1>1, <1>2, <1>3 DEF ChargeOK
  <1>5. ~Gone(charges[id])
    BY GoneRead
  <1> QED
    BY <1>2, <1>3, <1>4, <1>5

LEMMA DeleteAnswers ==
  ASSUME MoneyInv, NEW k \in Money!Kinds, job[k].at = "delete", NEW a \in Money!DeletePayment(k)
  PROVE  Answered(k, a)
  <1>1. k = "void"
    BY OnlyCreate
  <1>2. PICK id \in DOMAIN charges : id = job[k].read.id
    BY <1>1, JobNow DEF JobOK
  <1>3. CASE a = Money!Told(charges, Money!Ended("parked"))
    <2>1. JobOK(k, Money!Ended("parked"), charges, gateway)
      BY EndsOK
    <2> QED
      BY <1>3, <2>1, TellsOnly, ToldSpelt
  <1>4. CASE charges[id].deleted /\ a = Money!Told(charges, Money!Deleted(id))
    <2>1. Gone(charges[id])
      BY <1>4, ChargeSpelt, GoneRead DEF ChargeOK
    <2>2. JobOK(k, Money!Deleted(id), charges, gateway)
      BY <1>1, <2>1, DeletedEndsOK
    <2> QED
      BY <1>4, <2>2, TellsOnly, ToldSpelt
  <1>5. ASSUME NEW c \in Charges, ChargeOK(c, sale.hold, clock, gateway), charges[id].deleted => c.deleted, Gone(c),
               a = Money!Told([charges EXCEPT ![id] = c], Money!Deleted(id))
        PROVE  Answered(k, a)
    <2>1. PICK cs : cs = [charges EXCEPT ![id] = c]
      OBVIOUS
    <2>2. Better(cs) /\ Len(cs) = Len(charges) /\ cs[id] = c
      BY <1>5, <2>1, ChargeGoes, ZenonT(60)
    <2>3. id \in DOMAIN cs
      BY <2>1
    <2>4. JobOK(k, Money!Deleted(id), cs, gateway)
      BY <1>1, <1>5, <2>2, <2>3, DeletedEndsOK
    <2>5. AnswerOK(k, cs, Money!Deleted(id))
      BY <2>2, <2>4 DEF AnswerOK
    <2> QED
      BY <1>5, <2>1, <2>5, ToldSpelt
  <1>6. CASE charges[id].word \in {"PENDING", "OVERDUE"} /\ a = Money!Told([charges EXCEPT ![id].deleted = TRUE], Money!Deleted(id))
    <2>1. PICK c : c = [charges[id] EXCEPT !.deleted = TRUE]
      OBVIOUS
    <2>2. c \in Charges /\ ChargeOK(c, sale.hold, clock, gateway) /\ c.deleted /\ Gone(c)
      BY <1>6, <2>1, DeletedOK
    <2>3. a = Money!Told([charges EXCEPT ![id] = c], Money!Deleted(id))
      BY <1>6, <2>1
    <2> QED
      BY <1>5, <2>2, <2>3
  <1>7. CASE /\ charges[id].word \in {"pending", "in_process"} /\ gateway # "asaas"
             /\ a = Money!Told([charges EXCEPT ![id].word = Money!Voided], Money!Deleted(id))
    <2>1. PICK word \in Words : word = Money!Voided /\ word = "cancelled"
      BY DEF Money!Voided, Words, Dead
    <2>2. PICK c : c = [charges[id] EXCEPT !.word = word]
      OBVIOUS
    <2>3. word # Lapse(gateway) /\ word \in Dead
      BY <1>7, <2>1 DEF Lapse, Dead
    <2>4. ~charges[id].deleted /\ charges[id].word \notin Dead
      BY <1>7, ChargeSpelt DEF ChargeOK, Dead
    <2>5. c \in Charges /\ ChargeOK(c, sale.hold, clock, gateway) /\ (charges[id].deleted => c.deleted) /\ c.word = word
      BY <1>7, <2>2, <2>3, <2>4, RewordedOK
    <2>6. Gone(c)
      BY <2>3, <2>5, GoneRead
    <2>7. a = Money!Told([charges EXCEPT ![id] = c], Money!Deleted(id))
      BY <1>7, <2>1, <2>2
    <2> QED
      BY <1>5, <2>5, <2>6, <2>7
  <1>8. \/ a = Money!Told(charges, Money!Ended("parked"))
        \/ charges[id].deleted /\ a = Money!Told(charges, Money!Deleted(id))
        \/ charges[id].word \in {"PENDING", "OVERDUE"} /\ a = Money!Told([charges EXCEPT ![id].deleted = TRUE], Money!Deleted(id))
        \/ /\ charges[id].word \in {"pending", "in_process"} /\ gateway # "asaas"
           /\ a = Money!Told([charges EXCEPT ![id].word = Money!Voided], Money!Deleted(id))
    BY <1>2, Zenon DEF Money!DeletePayment
  <1> QED
    BY <1>3, <1>4, <1>6, <1>7, <1>8

GivenBack(id, word) == [charges EXCEPT ![id].word = word, ![id].backs = @ + 1]

LEMMA RefundAnswers ==
  ASSUME MoneyInv, NEW k \in Money!Kinds, job[k].at = "give", NEW a \in Money!RefundPayment(k)
  PROVE  Answered(k, a)
  <1>1. k = "refund"
    BY OnlyCreate
  <1>2. PICK id \in DOMAIN charges : id = job[k].read.id
    BY <1>1, JobNow DEF JobOK
  <1>3. PICK then : then = Money!To(k, "fetch")
    OBVIOUS
  <1>4. ASSUME NEW cs PROVE JobOK(k, then, cs, gateway)
    <2>1. IsJob(then) /\ then.at = "fetch" /\ then.tries = job[k].tries
      BY <1>3, ToSpelt
    <2>2. then.tries \in 0..MaxAttempts /\ "fetch" \in Path(k)
      BY <1>1, <2>1, JobNow DEF Path
    <2> QED
      BY <1>1, <2>1, <2>2 DEF JobOK
  <1>5. CASE a = Money!Told(charges, Money!Ended("parked"))
    <2>1. JobOK(k, Money!Ended("parked"), charges, gateway)
      BY EndsOK
    <2> QED
      BY <1>5, <2>1, TellsOnly, ToldSpelt
  <1>6. CASE a = Money!Told(charges, then)
    BY <1>4, <1>6, TellsOnly, ToldSpelt
  <1>7. ASSUME NEW given \in Money!Refunded, ~Money!SameRefund(id),
               Money!MapStatus(charges[id].word) = "paid" \/ (gateway = "mercadopago" /\ charges[id].backs > 0),
               a = Money!Told(GivenBack(id, given), then)
        PROVE  Answered(k, a)
    <2>0. /\ charges[id] \in Charges /\ ChargeOK(charges[id], sale.hold, clock, gateway)
          /\ charges[id].backs \in Nat /\ gateway \in {"asaas", "mercadopago"}
      BY ChargeSpelt, MoneyFacts
    <2>1. charges[id].backs = 0 /\ Money!MapStatus(charges[id].word) = "paid"
      <3>1. CASE gateway = "asaas"
        <4>1. charges[id].word \notin Back /\ Money!MapStatus(charges[id].word) = "paid"
          BY <1>7, <3>1, WordsRead
        <4> QED
          BY <2>0, <3>1, <4>1 DEF ChargeOK
      <3>2. CASE gateway = "mercadopago"
        BY <1>7, <2>0, <3>2 DEF Money!SameRefund, Money!RefundKeyed
      <3> QED
        BY <2>0, <3>1, <3>2
    <2>2. PICK word \in Words : word = given /\ word # Lapse(gateway) /\ (gateway = "asaas" => word \in Back)
      <3>1. CASE gateway = "asaas"
        BY <1>7, <3>1 DEF Money!Refunded, Words, Back, Lapse
      <3>2. CASE gateway # "asaas"
        BY <1>7, <3>2 DEF Money!Refunded, Words, Back, Lapse
      <3> QED
        BY <3>1, <3>2
    <2>3. PICK backs : backs = charges[id].backs + 1
      OBVIOUS
    <2>4. backs = 1 /\ backs \in Nat
      BY <2>1, <2>3
    <2>5. PICK c : c = [charges[id] EXCEPT !.word = word, !.backs = backs]
      OBVIOUS
    <2>6. c \in Charges /\ c.word = word /\ c.until = charges[id].until /\ c.backs = backs
      BY <2>0, <2>4, <2>5 DEF Charges
    <2>7. ~Gone(charges[id])
      BY <2>1, GoneRead
    <2>8. ~charges[id].deleted /\ ~c.deleted
      <3>1. ~charges[id].deleted
        BY <2>0, <2>7, GoneRead DEF ChargeOK
      <3> QED
        BY <2>0, <2>5, <3>1 DEF Charges
    <2>9. ChargeOK(c, sale.hold, clock, gateway)
      BY <2>0, <2>2, <2>4, <2>6, <2>8 DEF ChargeOK
    <2>10. PICK cs : cs = [charges EXCEPT ![id] = c]
      OBVIOUS
    <2>11. Better(cs) /\ Len(cs) = Len(charges)
      BY <2>6, <2>7, <2>8, <2>9, <2>10, ChargeGoes, ZenonT(60)
    <2>12. a = Money!Told(cs, then)
      <3>1. GivenBack(id, given) = cs
        BY <2>2, <2>3, <2>5, <2>10, MoneyFacts DEF GivenBack
      <3> QED
        BY <1>7, <3>1
    <2>13. AnswerOK(k, cs, then)
      BY <1>4, <2>11 DEF AnswerOK
    <2> QED
      BY <2>12, <2>13, ToldSpelt
  <1>8. \/ a = Money!Told(charges, Money!Ended("parked"))
        \/ a = Money!Told(charges, then)
        \/ /\ ~Money!SameRefund(id)
           /\ Money!MapStatus(charges[id].word) = "paid" \/ (gateway = "mercadopago" /\ charges[id].backs > 0)
           /\ \E given \in Money!Refunded :
                 a = Money!Told(GivenBack(id, given), then)
    BY <1>2, <1>3, Zenon DEF Money!RefundPayment, GivenBack
  <1>9. CASE /\ ~Money!SameRefund(id)
             /\ Money!MapStatus(charges[id].word) = "paid" \/ (gateway = "mercadopago" /\ charges[id].backs > 0)
             /\ \E given \in Money!Refunded :
                   a = Money!Told(GivenBack(id, given), then)
    <2>1. PICK given \in Money!Refunded : a = Money!Told(GivenBack(id, given), then)
      BY <1>9
    <2> QED
      BY <1>7, <1>9, <2>1
  <1> QED
    BY <1>5, <1>6, <1>8, <1>9

LEMMA AllAnswer ==
  ASSUME MoneyInv, NEW k \in Money!Kinds, Money!Calling(k), NEW a \in Money!Answers(k)
  PROVE  Answered(k, a)
  <1>1. job[k].at \in {"search", "customer", "enrol", "post", "code", "fetch", "delete", "give"}
    <2>1. job[k].at \in Path(k) \ (Rest \cup {"settle"})
      BY JobNow DEF Money!Calling, Money!Working, JobOK, Rest
    <2> QED
      BY <2>1 DEF Path, Rest
  <1>2. CASE job[k].at = "search"
    BY <1>2, SearchAnswers DEF Money!Answers
  <1>3. CASE job[k].at = "customer"
    BY <1>3, CustomerAnswers DEF Money!Answers
  <1>4. CASE job[k].at = "enrol"
    BY <1>4, CustomerAnswers DEF Money!Answers
  <1>5. CASE job[k].at = "post"
    BY <1>5, PostAnswers DEF Money!Answers
  <1>6. CASE job[k].at = "code"
    BY <1>6, CodeAnswers DEF Money!Answers
  <1>7. CASE job[k].at = "fetch"
    BY <1>7, FetchAnswers DEF Money!Answers
  <1>8. CASE job[k].at = "delete"
    BY <1>8, DeleteAnswers DEF Money!Answers
  <1>9. CASE job[k].at = "give"
    BY <1>9, RefundAnswers DEF Money!Answers
  <1> QED
    BY <1>1, <1>2, <1>3, <1>4, <1>5, <1>6, <1>7, <1>8, <1>9

-----------------------------------------------------------------------------
(* The steps of a run.                                                     *)
LEMMA SeenOK ==
  ASSUME MoneyInv, NEW seen \in Money!Seen
  PROVE  seen.charge # 0 => seen.charge \in DOMAIN charges
  BY MoneyFacts DEF Money!Seen, Money!Row

LEMMA FirstReady ==
  ASSUME MoneyInv, NEW k \in Money!Kinds, NEW seen, NEW stage, stage = Money!FirstStage(k, seen),
         stage \notin {"done", "parked"}
  PROVE  /\ stage \in Path(k) \ {"due", "code", "settle", "customer", "enrol"}
         /\ stage = "post" => gateway # "asaas"
         /\ stage \in {"delete", "give"} => seen.charge # 0
  <1>1. k \in {"create", "sync", "void", "refund"}
    BY OnlyCreate
  <1>2. CASE k = "create"
    BY <1>2 DEF Money!FirstStage, Path, Rest
  <1>3. CASE k = "sync"
    BY <1>3 DEF Money!FirstStage, Path, Rest
  <1>4. CASE k = "void"
    <2>1. CASE seen.charge = 0 \/ seen.status \notin {"expired", "cancelled"}
      <3>1. stage = "done"
        BY <1>4, <2>1 DEF Money!FirstStage
      <3> QED
        BY <3>1
    <2>2. CASE ~(seen.charge = 0 \/ seen.status \notin {"expired", "cancelled"})
      <3>1. stage = "delete"
        BY <1>4, <2>2 DEF Money!FirstStage
      <3> QED
        BY <1>4, <2>2, <3>1 DEF Path, Rest
    <2> QED
      BY <2>1, <2>2
  <1>5. CASE k = "refund"
    BY <1>5 DEF Money!FirstStage, Path, Rest
  <1> QED
    BY <1>1, <1>2, <1>3, <1>4, <1>5

LEMMA AttemptKept ==
  ASSUME MoneyInv, NEW k \in Money!Kinds, Money!Attempt(k)
  PROVE  MoneyInv'
  <1>1. PICK seen \in Money!Seen :
          job' = [job EXCEPT ![k] = IF Money!FirstStage(k, seen) \in {"done", "parked"}
                                    THEN Money!Ended(Money!FirstStage(k, seen))
                                    ELSE [at |-> Money!FirstStage(k, seen), tries |-> job[k].tries + 1,
                                          read |-> Money!About(IF Money!FirstStage(k, seen) \in {"delete", "give"}
                                                               THEN seen.charge ELSE 0)]]
    BY DEF Money!Attempt
  <1>2. job[k].at = "due" /\ UNCHANGED <<gateway, clock, sale, copy, charges>>
    BY DEF Money!Attempt
  <1>3. PICK stage : stage = Money!FirstStage(k, seen)
    OBVIOUS
  <1>4. CASE stage \in {"done", "parked"}
    <2>1. job' = [job EXCEPT ![k] = Money!Ended(stage)]
      BY <1>1, <1>3, <1>4
    <2>2. JobOK(k, Money!Ended(stage), charges, gateway)
      BY <1>4, EndsOK
    <2> QED
      BY <1>2, <2>1, <2>2, BetterSame, MoneyAdvances
  <1>5. CASE stage \notin {"done", "parked"}
    <2>1. PICK id : id = IF stage \in {"delete", "give"} THEN seen.charge ELSE 0
      OBVIOUS
    <2>2. PICK tries, read : tries = job[k].tries + 1 /\ read = Money!About(id)
      OBVIOUS
    <2>3. PICK j : j = [at |-> stage, tries |-> tries, read |-> read]
      OBVIOUS
    <2>4. job' = [job EXCEPT ![k] = j]
      BY <1>1, <1>3, <1>5, <2>1, <2>2, <2>3
    <2>5. IsRead(read) /\ read.id = id
      BY <2>2 DEF IsRead, Money!About
    <2>6. IsJob(j) /\ j.at = stage /\ j.tries = tries /\ j.read = read
      BY <2>3, <2>5 DEF IsJob
    <2>7. job[k].tries < MaxAttempts
      BY <1>2, JobNow DEF JobOK
    <2>8. tries \in 0..MaxAttempts
      BY <2>2, <2>7, JobNow
    <2>9. /\ stage \in Path(k) \ {"due", "code", "settle", "customer", "enrol"}
          /\ stage = "post" => gateway # "asaas"
          /\ stage \in {"delete", "give"} => id # 0 /\ id = seen.charge
      BY <1>3, <1>5, <2>1, FirstReady
    <2>10. stage \in {"delete", "give"} => id \in DOMAIN charges
      BY <2>9, SeenOK
    <2>11. JobOK(k, j, charges, gateway)
      BY <1>5, <2>5, <2>6, <2>8, <2>9, <2>10 DEF JobOK, Ready
    <2> QED
      BY <1>2, <2>4, <2>11, BetterSame, MoneyAdvances
  <1> QED
    BY <1>4, <1>5

LEMMA CallKept ==
  ASSUME MoneyInv, NEW k \in Money!Kinds, Money!Call(k)
  PROVE  MoneyInv'
  <1>1. PICK a \in Money!Answers(k) : charges' = a.charges /\ job' = [job EXCEPT ![k] = a.then]
    BY DEF Money!Call
  <1>2. Money!Calling(k) /\ UNCHANGED <<gateway, clock, sale, copy>>
    BY DEF Money!Call
  <1>3. AnswerOK(k, a.charges, a.then)
    BY <1>2, AllAnswer DEF Answered
  <1> QED
    BY <1>1, <1>2, <1>3, MoneyAdvances DEF AnswerOK

LEMMA UnansweredKept ==
  ASSUME MoneyInv, NEW k \in Money!Kinds, Money!Unanswered(k)
  PROVE  MoneyInv'
  <1>1. PICK a \in Money!Answers(k) : charges' = a.charges /\ job' = [job EXCEPT ![k] = Money!Without(k)]
    BY DEF Money!Unanswered
  <1>2. Money!Calling(k) /\ UNCHANGED <<gateway, clock, sale, copy>>
    BY DEF Money!Unanswered
  <1>3. Better(a.charges) /\ (Len(a.charges) = Len(charges) \/ k = "create")
    BY <1>2, AllAnswer DEF Answered, AnswerOK
  <1>4. JobOK(k, Money!Without(k), a.charges, gateway)
    BY <1>2, <1>3, WithoutOK DEF Money!Calling
  <1> QED
    BY <1>1, <1>2, <1>3, <1>4, MoneyAdvances

LEMMA CallFailsKept ==
  ASSUME MoneyInv, NEW k \in Money!Kinds, Money!CallFails(k)
  PROVE  MoneyInv'
  <1>1. PICK then \in {Money!Without(k), Money!Refused(k)} : job' = [job EXCEPT ![k] = then]
    BY DEF Money!CallFails
  <1>2. Money!Working(k) /\ UNCHANGED <<gateway, clock, sale, copy, charges>>
    BY DEF Money!CallFails, Money!Calling
  <1>3. JobOK(k, Money!Without(k), charges, gateway)
    BY <1>2, BetterSame, WithoutOK
  <1>5. JobOK(k, Money!Ended("parked"), charges, gateway)
    BY EndsOK
  <1>6. JobOK(k, then, charges, gateway)
    BY <1>3, <1>5 DEF Money!Refused
  <1> QED
    BY <1>1, <1>2, <1>6, BetterSame, MoneyAdvances

LEMMA SettleFailsKept ==
  ASSUME MoneyInv, NEW k \in Money!Kinds, Money!SettleFails(k)
  PROVE  MoneyInv'
  <1>1. job' = [job EXCEPT ![k] = Money!Failed(k)] /\ UNCHANGED <<gateway, clock, sale, copy, charges>>
    BY DEF Money!SettleFails
  <1>2. JobOK(k, Money!Failed(k), charges, gateway)
    BY FailedOK
  <1> QED
    BY <1>1, <1>2, BetterSame, MoneyAdvances

-----------------------------------------------------------------------------
(* The order's own steps: what is told of it stays true, and no job       *)
(* depends on it.                                                          *)
Adopted(s) == SaleOK(s, charges) /\ s.hold = sale.hold
IsTable(js) == js = [k \in Money!Kinds |-> js[k]] /\ \A k \in Money!Kinds : JobOK(k, js[k], charges, gateway)

LEMMA TableNow ==
  ASSUME MoneyInv
  PROVE  IsTable(job)
  BY MoneyFacts DEF IsTable, MoneyInv

LEMMA SaleAdvances ==
  ASSUME MoneyInv, UNCHANGED <<gateway, clock, copy, charges>>, NEW s, sale' = s, Adopted(s), IsTable(job')
  PROVE  MoneyInv'
  BY DEF MoneyInv, Adopted, IsTable

LEMMA SaleSame ==
  ASSUME MoneyInv
  PROVE  Adopted(sale)
  BY MoneyFacts DEF Adopted

LEMMA EndsInTable ==
  ASSUME MoneyInv, NEW k \in Money!Kinds, NEW js, js = [job EXCEPT ![k] = Money!Ended("done")]
  PROVE  IsTable(js)
  <1>1. IsTable(job)
    BY TableNow
  <1>2. JobOK(k, Money!Ended("done"), charges, gateway)
    BY EndsOK
  <1> QED
    BY <1>1, <1>2 DEF IsTable

LEMMA SchedulesInTable ==
  ASSUME MoneyInv, NEW k \in Money!Kinds, NEW js, IsTable(js)
  PROVE  IsTable(Money!Scheduled(js, k))
  <1>1. PICK due : due = Money!Due
    OBVIOUS
  <1>2. PICK read : read = Money!Nothing
    OBVIOUS
  <1>3. IsRead(read)
    BY <1>2, JobNow
  <1>4. due = [at |-> "due", tries |-> 0, read |-> read]
    BY <1>1, <1>2 DEF Money!Due, Money!NoJob
  <1>5. IsJob(due) /\ due.at = "due" /\ due.tries = 0
    BY <1>3, <1>4 DEF IsJob
  <1>6. "due" \in Path(k) /\ 0 \in 0..MaxAttempts /\ 0 < MaxAttempts
    BY JobNow DEF Path, Rest
  <1>7. JobOK(k, due, charges, gateway)
    BY <1>5, <1>6 DEF JobOK
  <1>8. Money!Scheduled(js, k) = js \/ Money!Scheduled(js, k) = [js EXCEPT ![k] = due]
    BY <1>1 DEF Money!Scheduled
  <1> QED
    BY <1>7, <1>8 DEF IsTable

LEMMA SettledOK ==
  ASSUME MoneyInv, NEW k \in Money!Kinds, job[k].at = "settle", NEW s \in Money!Settled(job[k].read)
  PROVE  Adopted(s)
  <1>1. PICK read : read = job[k].read
    OBVIOUS
  <1>2. ReadOK(read, charges) /\ read.id \in DOMAIN charges /\ read.code \in BOOLEAN
    BY <1>1, JobNow DEF JobOK, ReadOK
  <1>3. read.id \in 0..Len(charges) /\ read.id # 0
    BY <1>2, MoneyFacts
  <1>4. PICK both \in BOOLEAN : both = (sale.code \/ read.code)
    OBVIOUS
  <1>5. PICK id : id = read.id
    OBVIOUS
  <1>6. SaleOK(sale, charges) /\ IsSale(sale)
    BY MoneyFacts DEF SaleOK
  <1>7. PICK a : a = [sale EXCEPT !.charge = id, !.code = both]
    OBVIOUS
  <1>8. /\ IsSale(a) /\ a.charge = id /\ a.code = both /\ a.status = sale.status /\ a.hold = sale.hold
        /\ a.told = sale.told
    BY <1>6, <1>7 DEF IsSale
  <1>9. Money!AttachCharge(read) = a
    BY <1>4, <1>5, <1>7 DEF Money!AttachCharge
  <1>10. sale.told \in {0, 1} /\ (sale.told = 1 => sale.code /\ sale.charge # 0)
    BY <1>6 DEF SaleOK
  <1>11. sale.told = 1 => both
    BY <1>4, <1>10
  <1>12. CASE s = sale
    BY <1>12, SaleSame
  <1>13. ASSUME NEW told, s = [a EXCEPT !.told = told],
                told = sale.told \/ (sale.told = 0 /\ told = 1 /\ both)
         PROVE  Adopted(s)
    <2>1. /\ IsSale(s) /\ s.charge = id /\ s.code = both /\ s.status = sale.status /\ s.hold = sale.hold
          /\ s.told = told
      BY <1>8, <1>13 DEF IsSale
    <2>2. told = 0 \/ (told = 1 /\ both)
      BY <1>10, <1>11, <1>13
    <2>3. SaleOK(s, charges)
      BY <1>3, <1>5, <1>6, <2>1, <2>2 DEF SaleOK
    <2> QED
      BY <2>1, <2>3 DEF Adopted
  <1>14. ASSUME NEW reached \in Money!Statuses, s = [a EXCEPT !.status = reached]
         PROVE  Adopted(s)
    <2>1. /\ IsSale(s) /\ s.charge = id /\ s.code = both /\ s.status = reached /\ s.hold = sale.hold
          /\ s.told = sale.told
      BY <1>8, <1>14 DEF IsSale
    <2>2. SaleOK(s, charges)
      BY <1>3, <1>5, <1>6, <1>10, <1>11, <2>1 DEF SaleOK
    <2> QED
      BY <2>1, <2>2 DEF Adopted
  <1>15. CASE read.status \notin DOMAIN Money!StatusFor
    <2>1. CASE Money!Final(sale.status) /\ sale.charge # 0
      BY <1>1, <1>12, <1>15, <2>1 DEF Money!Settled
    <2>2. CASE ~(Money!Final(sale.status) /\ sale.charge # 0)
      <3>1. PICK told : told = IF sale.status = "pending_payment" /\ sale.charge = 0 /\ a.code
                               THEN sale.told + 1 ELSE sale.told
        OBVIOUS
      <3>2. s = [a EXCEPT !.told = told]
        <4>1. s = [a EXCEPT !.told = IF sale.status = "pending_payment" /\ sale.charge = 0 /\ a.code
                                     THEN a.told + 1 ELSE a.told]
          BY <1>1, <1>9, <1>15, <2>2 DEF Money!Settled
        <4> QED
          BY <1>8, <3>1, <4>1
      <3>3. told = sale.told \/ (sale.told = 0 /\ told = 1 /\ both)
        BY <1>8, <1>10, <3>1
      <3> QED
        BY <1>13, <3>2, <3>3
    <2> QED
      BY <2>1, <2>2
  <1>16. CASE read.status \in DOMAIN Money!StatusFor
    <2>1. PICK word : word = read.status /\ word \in {"paid", "rejected", "cancelled", "refunded", "charged_back"}
      BY <1>16 DEF Money!StatusFor
    <2>2. PICK next : /\ s = [a EXCEPT !.status = IF <<sale.status, next>> \in Money!CanTransition THEN next ELSE a.status]
                      /\ next \in (IF Money!StatusFor[word] = "paid" /\ sale.status # "pending_payment"
                                   THEN {"paid", "refund_required"} ELSE {Money!StatusFor[word]})
      <3> USE <1>1, <1>9, <1>16, <2>1
      <3> QED
        BY DEF Money!Settled
    <2>3. Money!StatusFor[word] \in {"paid", "failed", "expired", "refunded"}
      BY <2>1 DEF Money!StatusFor
    <2>4. PICK reached : reached = IF <<sale.status, next>> \in Money!CanTransition THEN next ELSE sale.status
      OBVIOUS
    <2>5. s = [a EXCEPT !.status = reached]
      BY <1>8, <2>2, <2>4
    <2>6. reached \in Money!Statuses
      <3>1. next \in Money!Statuses /\ sale.status \in Money!Statuses
        BY <1>6, <2>2, <2>3 DEF SaleOK, Money!Statuses
      <3> QED
        BY <2>4, <3>1
    <2> QED
      BY <1>14, <2>5, <2>6
  <1> QED
    BY <1>15, <1>16

LEMMA SettleKept ==
  ASSUME MoneyInv, NEW k \in Money!Kinds, Money!Settle(k)
  PROVE  MoneyInv'
  <1>1. job[k].at = "settle" /\ sale' \in Money!Settled(job[k].read) /\ UNCHANGED <<gateway, clock, copy, charges>>
    BY DEF Money!Settle
  <1>2. PICK s : s = sale'
    OBVIOUS
  <1>3. Adopted(s)
    BY <1>1, <1>2, SettledOK
  <1>4. PICK js : js = [job EXCEPT ![k] = Money!Ended("done")]
    OBVIOUS
  <1>5. IsTable(js)
    BY <1>4, EndsInTable
  <1>6. IsTable(Money!Scheduled(js, "refund"))
    BY <1>5, SchedulesInTable DEF Money!Kinds
  <1>7. job' = js \/ job' = Money!Scheduled(js, "refund")
    BY <1>4 DEF Money!Settle
  <1> QED
    BY <1>1, <1>2, <1>3, <1>5, <1>6, <1>7, SaleAdvances

LEMMA CloseKept ==
  ASSUME MoneyInv, Money!ExpireHold \/ Money!Cancel
  PROVE  MoneyInv'
  <1>1. PICK closed \in {"expired", "cancelled"} : Money!Close(closed)
    BY DEF Money!ExpireHold, Money!Cancel
  <1>2. sale' = [sale EXCEPT !.status = closed] /\ UNCHANGED <<gateway, clock, copy, charges>>
    BY <1>1 DEF Money!Close
  <1>3. PICK s : s = [sale EXCEPT !.status = closed]
    OBVIOUS
  <1>4. SaleOK(sale, charges) /\ IsSale(sale)
    BY MoneyFacts DEF SaleOK
  <1>5. IsSale(s) /\ s.charge = sale.charge /\ s.code = sale.code /\ s.status = closed /\ s.hold = sale.hold /\ s.told = sale.told
    BY <1>3, <1>4 DEF IsSale
  <1>6. Adopted(s)
    BY <1>4, <1>5 DEF Adopted, SaleOK, Money!Statuses
  <1>7. IsTable(job) /\ IsTable(Money!Scheduled(job, "void"))
    BY TableNow, SchedulesInTable DEF Money!Kinds
  <1>8. job' = job \/ job' = Money!Scheduled(job, "void")
    BY DEF Money!ExpireHold, Money!Cancel
  <1> QED
    BY <1>2, <1>3, <1>6, <1>7, <1>8, SaleAdvances

LEMMA ScheduledKept ==
  ASSUME MoneyInv, Money!Reconcile \/ Money!Notified \/ Money!RequestRefund
  PROVE  MoneyInv'
  <1>1. PICK k \in {"create", "sync", "refund"} : job' = Money!Scheduled(job, k)
    BY DEF Money!Reconcile, Money!Notified, Money!RequestRefund
  <1>2. UNCHANGED <<gateway, clock, sale, copy, charges>>
    BY DEF Money!Reconcile, Money!Notified, Money!RequestRefund
  <1>3. Adopted(sale) /\ IsTable(job)
    BY SaleSame, TableNow
  <1>4. IsTable(job')
    BY <1>1, <1>3, SchedulesInTable DEF Money!Kinds
  <1> QED
    BY <1>2, <1>3, <1>4, SaleAdvances

LEMMA RememberKept ==
  ASSUME MoneyInv, Money!Remember
  PROVE  MoneyInv'
  <1>1. copy' = Money!Row /\ UNCHANGED <<gateway, clock, sale, charges, job>>
    BY DEF Money!Remember
  <1>2. copy'.status \in Money!Statuses /\ copy'.charge \in 0..Len(charges)
    BY <1>1, MoneyFacts DEF Money!Row, SaleOK
  <1> QED
    BY <1>1, <1>2 DEF MoneyInv

-----------------------------------------------------------------------------
(* What the buyer, the bank and time do to a charge.                       *)
LEMMA ChargesAdvance ==
  ASSUME MoneyInv, UNCHANGED <<gateway, clock, sale, copy, job>>, NEW id \in DOMAIN charges, NEW c \in Charges,
         charges' = [charges EXCEPT ![id] = c], ChargeOK(c, sale.hold, clock, gateway),
         charges[id].deleted => c.deleted, Gone(charges[id]) => Gone(c)
  PROVE  MoneyInv'
  <1>1. Better(charges') /\ Len(charges') = Len(charges)
    BY ChargeGoes
  <1>2. JobOK("sync", job["sync"], charges', gateway)
    BY <1>1, JobNow, JobStands DEF Money!Kinds
  <1>3. job' = [job EXCEPT !["sync"] = job["sync"]]
    BY DEF MoneyInv, Money!Kinds
  <1> QED
    BY <1>1, <1>2, <1>3, MoneyAdvances DEF Money!Kinds

LEMMA MovesForward ==
  ASSUME gateway \in {"asaas", "mercadopago"}, NEW move \in Turns
  PROVE  /\ move[1] \notin Dead /\ move[2] \in Words /\ move[2] # Lapse(gateway)
         /\ move[1] \in Back => move[2] \in Back
  BY MoneyConstants DEF Money!PossibleMoves, Dead, Back, Words, Lapse

LEMMA MovesKept ==
  ASSUME MoneyInv, Money!ChargeMoves
  PROVE  MoneyInv'
  <1>1. PICK id \in DOMAIN charges, move \in Turns :
          /\ charges[id].word = move[1] /\ ~charges[id].deleted
          /\ Money!ChargeBecomes(id, [charges[id] EXCEPT !.word = move[2]])
    BY DEF Money!ChargeMoves
  <1>2. PICK word \in Words : word = move[2]
    BY MovesForward, MoneyFacts
  <1>3. PICK c : c = [charges[id] EXCEPT !.word = word]
    OBVIOUS
  <1>4. charges' = [charges EXCEPT ![id] = c] /\ UNCHANGED <<gateway, clock, sale, copy, job>>
    BY <1>1, <1>2, <1>3 DEF Money!ChargeBecomes
  <1>5. charges[id].word \notin Dead /\ word # Lapse(gateway) /\ (charges[id].word \in Back => word \in Back)
    BY <1>1, <1>2, MovesForward, MoneyFacts
  <1>6. /\ c \in Charges /\ ChargeOK(c, sale.hold, clock, gateway) /\ (charges[id].deleted => c.deleted)
        /\ (Gone(charges[id]) => Gone(c))
    BY <1>1, <1>3, <1>5, RewordedOK
  <1> QED
    BY <1>4, <1>6, ChargesAdvance

LEMMA LapsesKept ==
  ASSUME MoneyInv, Money!ChargeLapses
  PROVE  MoneyInv'
  <1>1. PICK id \in DOMAIN charges :
          /\ charges[id].word = Money!Fresh /\ ~charges[id].deleted /\ clock >= charges[id].until
          /\ Money!ChargeBecomes(id, [charges[id] EXCEPT !.word = Money!Lapsed])
    BY DEF Money!ChargeLapses
  <1>2. Money!Lapsed = Lapse(gateway) /\ Lapse(gateway) \in Words
    BY DEF Money!Lapsed, Lapse, Words, Dead
  <1>3. PICK word \in Words : word = Money!Lapsed
    BY <1>2
  <1>4. PICK c : c = [charges[id] EXCEPT !.word = word]
    OBVIOUS
  <1>5. charges' = [charges EXCEPT ![id] = c] /\ UNCHANGED <<gateway, clock, sale, copy, job>>
    BY <1>1, <1>3, <1>4 DEF Money!ChargeBecomes
  <1>6. clock >= sale.hold
    <2>1. PICK until : until = charges[id].until
      OBVIOUS
    <2>2. until \in Nat /\ until >= sale.hold
      BY <2>1, ChargeSpelt DEF ChargeOK
    <2> QED
      BY <1>1, <2>1, <2>2, MoneyFacts
  <1>7. charges[id].word \notin Dead /\ charges[id].word \notin Back
    BY <1>1 DEF Money!Fresh, Dead, Back
  <1>8. /\ c \in Charges /\ ChargeOK(c, sale.hold, clock, gateway) /\ (charges[id].deleted => c.deleted)
        /\ (Gone(charges[id]) => Gone(c))
    BY <1>1, <1>4, <1>6, <1>7, RewordedOK
  <1> QED
    BY <1>5, <1>8, ChargesAdvance

LEMMA DeletedKept ==
  ASSUME MoneyInv, Money!ChargeDeleted
  PROVE  MoneyInv'
  <1>1. PICK id \in DOMAIN charges : charges[id].word = "PENDING" /\ charges' = [charges EXCEPT ![id].deleted = TRUE]
    BY DEF Money!ChargeDeleted, Money!Fresh
  <1>2. PICK c : c = [charges[id] EXCEPT !.deleted = TRUE]
    OBVIOUS
  <1>3. charges' = [charges EXCEPT ![id] = c] /\ UNCHANGED <<gateway, clock, sale, copy, job>>
    BY <1>1, <1>2 DEF Money!ChargeDeleted
  <1>4. c \in Charges /\ ChargeOK(c, sale.hold, clock, gateway) /\ c.deleted /\ Gone(c)
    BY <1>1, <1>2, DeletedOK
  <1> QED
    BY <1>3, <1>4, ChargesAdvance

LEMMA TickKept ==
  ASSUME MoneyInv, Money!Tick
  PROVE  MoneyInv'
  <1>1. clock' \in Nat /\ clock' > clock /\ copy' = Money!Row /\ UNCHANGED <<gateway, sale, charges, job>>
    BY MoneyConstants DEF Money!Tick
  <1>2. \A i \in DOMAIN charges : ChargeOK(charges[i], sale.hold, clock', gateway)
    <2> SUFFICES ASSUME NEW i \in DOMAIN charges PROVE ChargeOK(charges[i], sale.hold, clock', gateway)
      OBVIOUS
    <2>1. ChargeOK(charges[i], sale.hold, clock, gateway)
      BY MoneyFacts
    <2>2. clock >= sale.hold => clock' >= sale.hold
      BY <1>1, MoneyFacts
    <2> QED
      BY <2>1, <2>2 DEF ChargeOK
  <1>3. copy'.status \in Money!Statuses /\ copy'.charge \in 0..Len(charges)
    BY <1>1, MoneyFacts DEF Money!Row, SaleOK
  <1> QED
    BY <1>1, <1>2, <1>3 DEF MoneyInv

-----------------------------------------------------------------------------
LEMMA MoneyStarts ==
  ASSUME Money!Init
  PROVE  MoneyInv
  <1>1. gateway \in {"asaas", "mercadopago"} /\ clock = 0 /\ charges = <<>>
    BY DEF Money!Init
  <1>2. PICK hold \in Holds : sale = [status |-> "pending_payment", hold |-> hold, charge |-> 0, code |-> FALSE, told |-> 0]
    BY DEF Money!Init
  <1>3. charges \in Seq(Charges) /\ Len(charges) = 0 /\ DOMAIN charges = {}
    BY <1>1
  <1>4. SaleOK(sale, charges)
    <2>1. IsSale(sale) /\ sale.charge = 0 /\ sale.told = 0 /\ sale.status = "pending_payment" /\ sale.hold = hold
      BY <1>2 DEF IsSale
    <2>2. sale.code \in BOOLEAN
      BY <1>2
    <2>3. sale.charge \in 0..Len(charges)
      BY <1>3, <2>1
    <2>4. sale.hold \in Holds /\ sale.status \in Money!Statuses
      BY <2>1 DEF Money!Statuses
    <2> QED
      BY <2>1, <2>2, <2>3, <2>4 DEF SaleOK
  <1>5. Single(charges, gateway)
    BY <1>3 DEF Single
  <1>6. job = [k \in Money!Kinds |-> IF k = "create" THEN Money!Due ELSE Money!NoJob]
    BY DEF Money!Init
  <1>7. PICK read : read = Money!Nothing
    OBVIOUS
  <1>8. IsRead(read) /\ read.id = 0
    BY <1>7 DEF IsRead, Money!Nothing, Money!About
  <1>9. PICK due, none : due = Money!Due /\ none = Money!NoJob
    OBVIOUS
  <1>10. due = [at |-> "due", tries |-> 0, read |-> read] /\ none = [at |-> "done", tries |-> 0, read |-> read]
    BY <1>7, <1>9 DEF Money!Due, Money!NoJob
  <1>11. /\ IsJob(due) /\ due.at = "due" /\ due.tries = 0
         /\ IsJob(none) /\ none.at = "done" /\ none.tries = 0 /\ none.read.id = 0
    BY <1>8, <1>10 DEF IsJob
  <1>12. 0 \in 0..MaxAttempts /\ 0 < MaxAttempts
    BY MoneyConstants
  <1>13. \A k \in Money!Kinds : JobOK(k, job[k], charges, gateway)
    <2> SUFFICES ASSUME NEW k \in Money!Kinds PROVE JobOK(k, job[k], charges, gateway)
      OBVIOUS
    <2>1. "due" \in Path(k) /\ "done" \in Path(k)
      BY DEF Path, Rest
    <2>2. CASE k = "create"
      <3>1. job[k] = due
        BY <1>6, <1>9, <2>2
      <3> QED
        BY <1>11, <1>12, <2>1, <2>2, <3>1 DEF JobOK
    <2>3. CASE k # "create"
      <3>1. job[k] = none
        BY <1>6, <1>9, <2>3
      <3> QED
        BY <1>11, <1>12, <2>1, <3>1 DEF JobOK
    <2> QED
      BY <2>2, <2>3
  <1>14. job = [k \in Money!Kinds |-> job[k]]
    BY <1>6
  <1>15. copy.status \in Money!Statuses /\ copy.charge \in 0..Len(charges)
    BY <1>4 DEF Money!Init, Money!Row, SaleOK
  <1> QED
    BY <1>1, <1>3, <1>4, <1>5, <1>13, <1>14, <1>15 DEF MoneyInv

LEMMA MoneyKept ==
  ASSUME MoneyInv, [Money!Next]_moneyVars
  PROVE  MoneyInv'
  <1>1. ASSUME NEW k \in Money!Kinds, Money!Attempt(k) \/ Money!Call(k) \/ Money!Unanswered(k)
        PROVE  MoneyInv'
    BY <1>1, AttemptKept, CallKept, UnansweredKept
  <1>2. ASSUME NEW k \in Money!Kinds, Money!CallFails(k) \/ Money!Settle(k) \/ Money!SettleFails(k)
        PROVE  MoneyInv'
    BY <1>2, CallFailsKept, SettleKept, SettleFailsKept
  <1>3. CASE Money!ExpireHold \/ Money!Cancel
    BY <1>3, CloseKept
  <1>4. CASE Money!Reconcile \/ Money!Notified \/ Money!RequestRefund
    BY <1>4, ScheduledKept
  <1>5. CASE Money!Remember \/ Money!ChargeMoves \/ Money!ChargeLapses \/ Money!ChargeDeleted \/ Money!Tick
    BY <1>5, RememberKept, MovesKept, LapsesKept, DeletedKept, TickKept
  <1>6. CASE UNCHANGED moneyVars
    BY <1>6 DEF moneyVars, MoneyInv
  <1> QED
    BY <1>1, <1>2, <1>3, <1>4, <1>5, <1>6 DEF Money!Next

LEMMA MoneySafe ==
  ASSUME MoneyInv
  PROVE  Money!TypeOK /\ Money!ProvidersSound
  <1>1. SaleOK(sale, charges)
    BY MoneyFacts
  <1>2. Money!TypeOK
    <2>1. \A k \in Money!Kinds : job[k].at \in Money!Stages /\ job[k].tries \in 0..MaxAttempts
      <3> SUFFICES ASSUME NEW k \in Money!Kinds PROVE job[k].at \in Money!Stages /\ job[k].tries \in 0..MaxAttempts
        OBVIOUS
      <3>1. job[k].at \in Path(k) /\ job[k].tries \in 0..MaxAttempts
        BY JobNow DEF JobOK
      <3> QED
        BY <3>1 DEF Path, Rest, Money!Stages
    <2>2. sale.told \in Nat
      BY <1>1 DEF SaleOK
    <2> QED
      BY <1>1, <2>1, <2>2, MoneyFacts DEF Money!TypeOK, SaleOK
  <1>3. Money!OneCharge
    <2> SUFFICES ASSUME NEW a \in DOMAIN charges, NEW b \in DOMAIN charges, Money!Live(charges[a]), Money!Live(charges[b])
                 PROVE  a = b
      BY DEF Money!OneCharge
    <2>1. ~charges[a].deleted /\ ~charges[b].deleted
      BY DEF Money!Live
    <2>2. CASE gateway = "asaas"
      BY <2>1, <2>2, MoneyFacts DEF Single
    <2>3. CASE gateway = "mercadopago"
      <3>1. PICK m : m = Len(charges)
        OBVIOUS
      <3>2. m \in Nat /\ m <= 1 /\ a \in 1..m /\ b \in 1..m
        BY <2>3, <3>1, MoneyFacts DEF Single
      <3> QED
        BY <3>2
    <2> QED
      BY <2>2, <2>3, MoneyFacts
  <1>4. Money!OutlivesHold
    BY MoneyFacts DEF Money!OutlivesHold, ChargeOK, Money!Lapsed, Lapse
  <1>5. Money!ToldOnceWithCode
    BY <1>1 DEF SaleOK, Money!ToldOnceWithCode
  <1>6. Money!BackOnce
    BY MoneyFacts DEF Money!BackOnce, ChargeOK
  <1>7. Money!VoidedForGood
    BY JobNow DEF JobOK, Gone, Money!VoidedForGood, Money!Kinds
  <1> QED
    BY <1>2, <1>3, <1>4, <1>5, <1>6, <1>7 DEF Money!ProvidersSound

-----------------------------------------------------------------------------
(* Each part keeps its invariant while it moves.                           *)
BackstageInv ==
    /\ part = "money" => MoneyInv
    /\ part = "wire" => WireInv
    /\ part = "keys" => KeysInv
    /\ part = "post" => PostInv
    /\ part = "release" => ReleaseInv
    /\ part = "turnstile" => GateInv

LEMMA BackstageStarts == BackstageInit => BackstageInv
  <1> SUFFICES ASSUME BackstageInit PROVE BackstageInv
    OBVIOUS
  <1>1. (part = "post" => PostInv) /\ (part = "release" => ReleaseInv) /\ (part = "turnstile" => GateInv)
    BY PostStarts, ReleaseStarts, GateStarts DEF BackstageInit
  <1>2. part = "money" => MoneyInv
    BY MoneyStarts DEF BackstageInit
  <1>3. part = "wire" => WireInv
    BY WireStarts DEF BackstageInit
  <1>4. part = "keys" => KeysInv
    BY KeysStarts DEF BackstageInit
  <1> QED
    BY <1>1, <1>2, <1>3, <1>4 DEF BackstageInv

(* A step is one part's, and the other parts stand still.                  *)
LEMMA OnePartMoves ==
  ASSUME [BackstageNext]_backstageVars
  PROVE  /\ part' = part
         /\ part = "money" => [Money!Next]_moneyVars
         /\ part = "wire" => [Wire!Next]_wireVars
         /\ part = "keys" => [Keys!Next]_keysVars
         /\ part = "post" => [Post!Next]_postVars
         /\ part = "release" => [Release!Next]_releaseVars
         /\ part = "turnstile" => [Turnstile!Next]_turnstileVars
  <1>1. CASE MoneyMoves
    BY <1>1 DEF MoneyMoves
  <1>2. CASE WireMoves
    BY <1>2 DEF WireMoves
  <1>3. CASE KeysMove
    BY <1>3 DEF KeysMove
  <1>4. CASE PapersMove
    BY <1>4 DEF PapersMove
  <1>5. CASE ListingMoves
    BY <1>5 DEF ListingMoves
  <1>6. CASE PostMoves
    BY <1>6 DEF PostMoves
  <1>7. CASE FiguresMove
    BY <1>7 DEF FiguresMove
  <1>8. CASE ReleaseMoves
    BY <1>8 DEF ReleaseMoves
  <1>9. CASE BackfillMoves
    BY <1>9 DEF BackfillMoves
  <1>10. CASE TurnstileMoves
    BY <1>10 DEF TurnstileMoves
  <1>11. CASE UNCHANGED backstageVars
    BY <1>11 DEF backstageVars, firstVars, lastVars
  <1> QED
    BY <1>1, <1>2, <1>3, <1>4, <1>5, <1>6, <1>7, <1>8, <1>9, <1>10, <1>11 DEF BackstageNext

LEMMA BackstageStep == BackstageInv /\ [BackstageNext]_backstageVars => BackstageInv'
  <1> SUFFICES ASSUME BackstageInv, [BackstageNext]_backstageVars PROVE BackstageInv'
    OBVIOUS
  <1>1. (part = "money" => MoneyInv)'
    BY OnePartMoves, MoneyKept DEF BackstageInv
  <1>2. (part = "wire" => WireInv)'
    BY OnePartMoves, WireKept DEF BackstageInv
  <1>3. (part = "keys" => KeysInv)'
    BY OnePartMoves, KeysKept DEF BackstageInv
  <1>4. (part = "post" => PostInv)'
    BY OnePartMoves, PostKept DEF BackstageInv
  <1>5. (part = "release" => ReleaseInv)'
    BY OnePartMoves, ReleaseKept DEF BackstageInv
  <1>6. (part = "turnstile" => GateInv)'
    BY OnePartMoves, GateKept DEF BackstageInv
  <1> QED
    BY <1>1, <1>2, <1>3, <1>4, <1>5, <1>6 DEF BackstageInv

(* Every part with an invariant stays in its type.                         *)
THEOREM BackstageTyped == BackstageSpec => []BackstageTypes
  <1>1. BackstageInv => BackstageTypes
    BY MoneySafe, WireSafe, KeysSafe, PostSafe, ReleaseSafe, GateSafe DEF BackstageInv, BackstageTypes
  <1> QED
    BY <1>1, BackstageStarts, BackstageStep, PTL DEF BackstageSpec

(* At the edges: however many calls are lost or obeyed without an answer,  *)
(* and however late a job looks the order up, an order never has two       *)
(* charges that could be paid, none runs out while the hold stands, the    *)
(* buyer is told once, money goes back once and a voided charge is not     *)
(* paid; what the broker confirmed is queued, owed or handled, within the  *)
(* prefetch; one message reaches its reader and none for a void ticket;    *)
(* and the gate's slots come back, its budgets are kept and waiting helps. *)
THEOREM EdgesStaySound == BackstageSpec => []EdgesSound
  <1>1. BackstageInv => EdgesSound
    BY MoneySafe, WireSafe, PostSafe, GateSafe DEF BackstageInv, EdgesSound
  <1> QED
    BY <1>1, BackstageStarts, BackstageStep, PTL DEF BackstageSpec

(* Across a release and a change of keys: whatever dies half way, no sale  *)
(* is lost or counted twice, nobody serves before the tables and rules it  *)
(* needs, every document opens and belongs to one account, and what its    *)
(* owner sent is on file unless a request that sent none overtook it.      *)
THEOREM ReleaseStaysSound == BackstageSpec => []ReleaseSound
  <1>1. BackstageInv => ReleaseSound
    BY ReleaseSafe, KeysSafe DEF BackstageInv, ReleaseSound
  <1> QED
    BY <1>1, BackstageStarts, BackstageStep, PTL DEF BackstageSpec
=============================================================================
