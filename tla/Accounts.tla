------------------------------- MODULE Accounts -------------------------------
(***************************************************************************)
(* Signing in by a code sent to an address, the account that the first one *)
(* makes, and the profile its owner fills in.  Challenges, accounts and    *)
(* profiles are each read in one statement and written in another: other   *)
(* requests come between.                                                  *)
(***************************************************************************)
EXTENDS Integers, FiniteSets

CONSTANTS
    Callers,        \* concurrent requests
    Addresses,
    Ids,            \* ids for new accounts
    Members,        \* accounts there already: id -> address
    Phones,
    Codes,          \* ids for new challenges
    MaxCodeAttempts, MaxChallengesPerDestination,   \* five each, in the code
    Moments,        \* seconds at which something happens; 0 is one of them
    None

(* Rows of the table of accounts.                                          *)
Emails == Addresses \cup {Members[u] : u \in DOMAIN Members}
Profiles == [email : Emails, phone : Phones \cup {None}, document : {None, "cpf"},
             completed : Moments \cup {None}]

AccountAssumption ==
    /\ Moments \subseteq Nat /\ 0 \in Moments /\ MaxCodeAttempts \in Nat
    /\ DOMAIN Members \subseteq Ids
    /\ \A u, v \in DOMAIN Members : Members[u] = Members[v] => u = v
    /\ None \notin Profiles

VARIABLES clock, challenges, users, sessions, proved, desk

accountVars == <<clock, challenges, users, sessions, proved, desk>>

CodeTTL == 600
ResendInterval == 60
ChallengeWindow == 3600

Free == [stage |-> "free"]
InHand(c, record) == desk' = [desk EXCEPT ![c] = record]
Answer(c) == InHand(c, Free)

NewAccount(address) == [email |-> address, phone |-> None, document |-> None, completed |-> None]

Init ==
    /\ clock = 0
    /\ challenges = [k \in Codes |-> None]
    /\ users = [u \in Ids |-> IF u \in DOMAIN Members THEN NewAccount(Members[u]) ELSE None]
    /\ sessions = {}
    /\ proved = {}
    /\ desk = [c \in Callers |-> Free]

-----------------------------------------------------------------------------
(* Challenges: purpose and destination, how often guessed, when spent.     *)
SentTo(purpose, to) ==
    {k \in Codes : challenges[k] # None /\ challenges[k].purpose = purpose /\ challenges[k].to = to}
CountRecent(purpose, to) ==
    Cardinality({k \in SentTo(purpose, to) : challenges[k].created >= clock - ChallengeWindow})

MaySend(purpose, to) ==
    /\ \A k \in SentTo(purpose, to) : clock - challenges[k].created >= ResendInterval
    /\ CountRecent(purpose, to) < MaxChallengesPerDestination

Live(k) ==
    /\ ~challenges[k].consumed
    /\ clock < challenges[k].created + CodeTTL
    /\ challenges[k].attempts < MaxCodeAttempts

(* The row goes in before the message goes out, and stays if it does not.  *)
Start(c, purpose, to, user) ==
    /\ desk[c].stage = "free"
    /\ IF MaySend(purpose, to)
       THEN InHand(c, [stage |-> "send", purpose |-> purpose, to |-> to, user |-> user])
       ELSE UNCHANGED desk
    /\ UNCHANGED <<clock, challenges, users, sessions, proved>>
StartEmailSignIn(c, address) == Start(c, "sign_in", address, None)
StartPhoneVerification(c, u, phone) == users[u] # None /\ Start(c, "phone", phone, u)

Send(c, k) ==
    /\ desk[c].stage = "send" /\ challenges[k] = None
    /\ challenges' = [challenges EXCEPT ![k] =
          [purpose |-> desk[c].purpose, to |-> desk[c].to, user |-> desk[c].user,
           attempts |-> 0, consumed |-> FALSE, created |-> clock]]
    /\ Answer(c)
    /\ UNCHANGED <<clock, users, sessions, proved>>

(* Consuming reads the row and compares the code; what it learned is       *)
(* written by a second statement.                                          *)
Present(c, k, purpose, owner, right) ==
    /\ desk[c].stage = "free" /\ challenges[k] # None
    /\ IF challenges[k].purpose = purpose /\ Live(k)
       THEN InHand(c, [stage |-> IF right THEN "spend" ELSE "count", code |-> k, owner |-> owner,
                       row |-> challenges[k]])
       ELSE UNCHANGED desk
    /\ UNCHANGED <<clock, challenges, users, sessions, proved>>

Count(c) ==
    /\ desk[c].stage = "count"
    /\ challenges' = IF challenges[desk[c].code] = None THEN challenges
                     ELSE [challenges EXCEPT ![desk[c].code].attempts = desk[c].row.attempts + 1,
                                             ![desk[c].code].consumed = desk[c].row.consumed]
    /\ Answer(c)
    /\ UNCHANGED <<clock, users, sessions, proved>>

(* Mutant of PhoneOf: the account that asks, whoever the code was sent to. *)
PhoneOfCaller(row, owner) == owner
PhoneOf(row, owner) == IF row.user = owner THEN owner ELSE None

Spend(c) ==
    LET k == desk[c].code
        row == desk[c].row
    IN  /\ desk[c].stage = "spend"
        /\ IF challenges[k] = None
           THEN Answer(c) /\ UNCHANGED <<challenges, proved>>
           ELSE /\ challenges' = [challenges EXCEPT ![k].consumed = TRUE, ![k].attempts = row.attempts]
                /\ proved' = proved \cup {<<row.user, row.to>>}
                /\ IF row.purpose = "sign_in"
                   THEN InHand(c, [stage |-> "find", to |-> row.to])
                   ELSE IF PhoneOf(row, desk[c].owner) = None
                        THEN Answer(c)
                        ELSE InHand(c, [stage |-> "prove", to |-> row.to,
                                        user |-> PhoneOf(row, desk[c].owner)])
        /\ UNCHANGED <<clock, users, sessions>>

DeleteOlderThan ==
    /\ challenges' = [k \in Codes |-> IF challenges[k] # None /\ challenges[k].created < clock - ChallengeWindow
                                      THEN None ELSE challenges[k]]
    /\ challenges' # challenges
    /\ UNCHANGED <<clock, users, sessions, proved, desk>>

-----------------------------------------------------------------------------
(* Accounts.  The first sign-in makes one; two at once make one between    *)
(* them, and both are signed in to it.                                     *)
ByEmail(address) == {u \in Ids : users[u] # None /\ users[u].email = address}

FindByEmail(c) ==
    /\ desk[c].stage \in {"find", "again"}
    /\ IF ByEmail(desk[c].to) # {}
       THEN /\ sessions' = sessions \cup (ByEmail(desk[c].to) \X {desk[c].to})
            /\ Answer(c)
       ELSE /\ InHand(c, [stage |-> "create", to |-> desk[c].to]) /\ UNCHANGED sessions
    /\ UNCHANGED <<clock, challenges, users, proved>>

(* Mutant of EmailFree: the index is gone, and the earlier look decides.   *)
EmailFreeUnindexed(address) == address # None
EmailFree(address) == ByEmail(address) = {}

Create(c, u) ==
    /\ desk[c].stage = "create" /\ users[u] = None
    /\ IF EmailFree(desk[c].to)
       THEN /\ users' = [users EXCEPT ![u] = NewAccount(desk[c].to)]
            /\ sessions' = sessions \cup {<<u, desk[c].to>>}
            /\ Answer(c)
       ELSE /\ InHand(c, [stage |-> "again", to |-> desk[c].to]) /\ UNCHANGED <<users, sessions>>
    /\ UNCHANGED <<clock, challenges, proved>>

-----------------------------------------------------------------------------
(* The profile: both writers read the whole block and write the whole      *)
(* block, the phone with its proof in it.                                  *)
ReadProfile(c, u, next) ==
    InHand(c, [stage |-> "write", user |-> u, next |-> next, profile |-> users[u]])

VerifyPhone(c) ==
    /\ desk[c].stage = "prove"
    /\ ReadProfile(c, desk[c].user, [phone |-> desk[c].to])
    /\ UNCHANGED <<clock, challenges, users, sessions, proved>>

Save(c, u, document) ==
    /\ desk[c].stage = "free" /\ users[u] # None
    /\ IF document = None /\ users[u].completed = None
       THEN UNCHANGED desk
       ELSE ReadProfile(c, u, [document |-> IF document = None THEN users[u].document ELSE document])
    /\ UNCHANGED <<clock, challenges, users, sessions, proved>>

(* Mutant of DocumentFree: one document may serve several accounts.        *)
DocumentFreeAlways(document, u) == document # u
DocumentFree(document, u) ==
    \A v \in Ids \ {u} : document # None /\ users[v] # None => users[v].document # document

SaveProfile(c) ==
    LET k == desk[c]
        u == k.user
        written ==
            IF "phone" \in DOMAIN k.next
            THEN [k.profile EXCEPT !.phone = k.next.phone]
            ELSE [k.profile EXCEPT !.document = k.next.document,
                                   !.completed = IF @ = None THEN clock ELSE @]
    IN  /\ k.stage = "write"
        /\ users' = IF DocumentFree(written.document, u) THEN [users EXCEPT ![u] = written] ELSE users
        /\ Answer(c)
        /\ UNCHANGED <<clock, challenges, sessions, proved>>

Tick ==
    /\ clock' \in {m \in Moments : m > clock}
    /\ UNCHANGED <<challenges, users, sessions, proved, desk>>

Next ==
    \/ Tick \/ DeleteOlderThan
    \/ \E c \in Callers :
          \/ \E a \in Addresses : StartEmailSignIn(c, a)
          \/ \E u \in Ids, phone \in Phones : StartPhoneVerification(c, u, phone)
          \/ \E k \in Codes : Send(c, k)
          \/ \E k \in Codes, right \in BOOLEAN : Present(c, k, "sign_in", None, right)
          \/ \E k \in Codes, u \in Ids : users[u] # None /\ Present(c, k, "phone", u, TRUE)
          \/ Count(c) \/ Spend(c) \/ FindByEmail(c)
          \/ \E u \in Ids : Create(c, u)
          \/ VerifyPhone(c) \/ SaveProfile(c)
          \/ \E u \in Ids, document \in {None, "cpf"} : Save(c, u, document)

Spec == Init /\ [][Next]_accountVars

-----------------------------------------------------------------------------
(* Type invariant of challenges and accounts.                              *)
TypeOK ==
    /\ \A k \in Codes : challenges[k] # None => challenges[k].attempts \in 0..MaxCodeAttempts
    /\ \A u \in Ids : users[u] # None =>
          users[u].email \in Emails /\ users[u].phone \in Phones \cup {None}

(* A code proves what it says and no more.  Two first sign-ins of one      *)
(* address end in one account; whoever is signed in by a code is signed in *)
(* to the account of the address the code went to; a verified phone was    *)
(* proved by the account that carries it; one document, one account.       *)
IdentityProven ==
    /\ \A u, v \in Ids : users[u] # None /\ users[v] # None =>
          /\ users[u].email = users[v].email => u = v
          /\ users[u].document # None /\ users[u].document = users[v].document => u = v
    /\ \A s \in sessions : users[s[1]] # None /\ users[s[1]].email = s[2]
    /\ \A u \in Ids : users[u] # None /\ users[u].phone # None => <<u, users[u].phone>> \in proved

(* What saving promises of a phone already proven: filling in the identity *)
(* block again must not silently un-verify it.  A save that read the block *)
(* before the phone was proven writes the block it read.                   *)
ProvenPhoneStays ==
    [][\A u \in Ids : users[u] # None /\ users[u].phone # None => users'[u].phone # None]_accountVars
=============================================================================
