------------------------------- MODULE Office -------------------------------
(***************************************************************************)
(* The office: checkout keys, printed codes, refunds, the ledger,          *)
(* accounts, sessions, the locks of a basket and recurring jobs, side by   *)
(* side.  One of them moves in a behaviour; the others stand where they    *)
(* began.  Every constant of a part is a constant here.                    *)
(***************************************************************************)
EXTENDS CheckoutReplay, AdmissionCode

CONSTANTS
    idle,                                           \* a part that does not move, and no row or owner
    Callers,                                        \* the requests that meet
    Orders, People, MaxRequests, Days, ShowDays,                                \* refund requests
    Sales, Faces, Quantities, BookMoments, ShowTimes, Holidays,                 \* the ledger
    Addresses, Ids, Members, Phones, Codes,                                     \* accounts
    MaxCodeAttempts, MaxChallengesPerDestination, AccountMoments,
    MaxTokens, Moments, SessionSeconds,                                         \* sessions
    BasketOrders, BuyerOf, Sent, Quantity, TierOf,                              \* the till
    MaxOrders, MaxPerTier, MaxQuantityPerOrder,
    Workers, Every, Interval, Late, JobTimeout, Finalization, ConfiguredStale,  \* recurring jobs
    MaxAttempts, BackoffBase, BackoffCeiling, MaxSpread, RetryAfters, MaxClock, MaxFaults

VARIABLES
    part,
    today, show, purchase, requests, money, call,
    clock, happening, sale, ledger,
    acctClock, challenges, users, sessions, proved, acctDesk,
    now, session, issued, jar, cache, pointer, tab, died,
    table, committed, locks, tx,
    time, due, jobs, made, failed, hands, faults

Desk == INSTANCE RefundDesk
Books == INSTANCE Ledger WITH Moments <- BookMoments
Users == INSTANCE Accounts WITH
    Moments <- AccountMoments, None <- idle, clock <- acctClock, desk <- acctDesk
Login == INSTANCE Sessions WITH Tabs <- Callers, None <- idle, row <- session
Till == INSTANCE Baskets WITH Connections <- Callers, Orders <- BasketOrders, Nobody <- idle, row <- table
Clerks == INSTANCE Cadence WITH Schedulers <- Callers, clock <- time

(* What the parts with theorems of their own ask of their constants.       *)
ASSUME OfficeAssumption ==
    /\ Desk!DeskAssumption /\ Users!AccountAssumption /\ Login!SessionAssumption
    /\ Clerks!CadenceAssumption /\ Books!LedgerAssumption /\ Till!TillAssumption

codesIdle == code = idle /\ typed = idle /\ slip = idle
deskIdle == today = idle /\ show = idle /\ purchase = idle /\ requests = idle /\ money = idle /\ call = idle
booksIdle == clock = idle /\ happening = idle /\ sale = idle /\ ledger = idle
clerksIdle ==
    /\ time = idle /\ due = idle /\ jobs = idle /\ made = idle /\ failed = idle /\ hands = idle
    /\ faults = idle

deskVars == <<today, show, purchase, requests, money, call>>
booksVars == <<clock, happening, sale, ledger>>
membersVars == <<acctClock, challenges, users, sessions, proved, acctDesk>>
loginVars == <<now, session, issued, jar, cache, pointer, tab, died>>
tillVars == <<table, committed, locks, tx>>
clerksVars == <<time, due, jobs, made, failed, hands, faults>>
officeVars == <<part, vars, codeVars, deskVars, booksVars, membersVars, loginVars, tillVars, clerksVars>>

OfficeInit ==
    /\ Init /\ Users!Init /\ Login!Init /\ Till!Init
    /\ \/ part \in {"replay", "members", "login", "till"} /\ codesIdle /\ deskIdle /\ booksIdle /\ clerksIdle
       \/ part = "codes" /\ CodeInit /\ deskIdle /\ booksIdle /\ clerksIdle
       \/ part = "desk" /\ Desk!Init /\ codesIdle /\ booksIdle /\ clerksIdle
       \/ part = "books" /\ Books!Init /\ codesIdle /\ deskIdle /\ clerksIdle
       \/ part = "clerks" /\ Clerks!Init /\ codesIdle /\ deskIdle /\ booksIdle

ReplayMoves ==
    /\ part = "replay" /\ Next
    /\ UNCHANGED <<part, codeVars, deskVars, booksVars, membersVars, loginVars, tillVars, clerksVars>>
CodesMove ==
    /\ part = "codes" /\ CodeNext
    /\ UNCHANGED <<part, vars, deskVars, booksVars, membersVars, loginVars, tillVars, clerksVars>>
DeskMoves ==
    /\ part = "desk" /\ Desk!Next
    /\ UNCHANGED <<part, vars, codeVars, booksVars, membersVars, loginVars, tillVars, clerksVars>>
BooksMove ==
    /\ part = "books" /\ Books!Next
    /\ UNCHANGED <<part, vars, codeVars, deskVars, membersVars, loginVars, tillVars, clerksVars>>
MembersMove ==
    /\ part = "members" /\ Users!Next
    /\ UNCHANGED <<part, vars, codeVars, deskVars, booksVars, loginVars, tillVars, clerksVars>>
LoginMoves ==
    /\ part = "login" /\ Login!Next
    /\ UNCHANGED <<part, vars, codeVars, deskVars, booksVars, membersVars, tillVars, clerksVars>>
TillMoves ==
    /\ part = "till" /\ Till!Next
    /\ UNCHANGED <<part, vars, codeVars, deskVars, booksVars, membersVars, loginVars, clerksVars>>
ClerksMove ==
    /\ part = "clerks" /\ Clerks!Next
    /\ UNCHANGED <<part, vars, codeVars, deskVars, booksVars, membersVars, loginVars, tillVars>>

OfficeNext ==
    \/ ReplayMoves \/ CodesMove \/ DeskMoves \/ BooksMove \/ MembersMove
    \/ LoginMoves \/ TillMoves \/ ClerksMove
OfficeSpec == OfficeInit /\ [][OfficeNext]_officeVars

(* Type invariant of every part but the till, whose own is in TillSound.   *)
OfficeTypes ==
    CASE part = "replay" -> TypeOK
      [] part = "desk" -> Desk!TypeOK
      [] part = "books" -> Books!TypeOK
      [] part = "members" -> Users!TypeOK
      [] part = "login" -> Login!TypeOK
      [] part = "clerks" -> Clerks!TypeOK
      [] OTHER -> part = "codes" => code \in {NewCode(d) : d \in Drawn}

(* The parts' own properties, where the part moves: what each says is in   *)
(* its module.                                                             *)
(* AdmissionCode: a code typed without a slip is read as the ticket's; one *)
(* wrong character, or two exchanged, is refused.                          *)
CodesHold == part = "codes" => ReadsBack /\ SlipsCaught
(* Baskets: hold limits are kept, what is committed adds up, and baskets   *)
(* never wait for each other in a circle over counters.                    *)
TillSound == part = "till" => Till!TypeOK /\ Till!BasketsSound
(* RefundDesk: a decision is final, and never rewrites what was asked.     *)
DecisionsStand == [][part = "desk" => Desk!DecisionKept]_officeVars
(* Accounts: a code proves what it says and no more.                       *)
(* Sessions: a dead token is let in for a cache's lifetime at most.        *)
(* Ledger: the claim follows the money, and falls due on banking days.     *)
AccountsSound ==
    /\ part = "books" => Books!LedgerSound
    /\ part = "members" => Users!IdentityProven
    /\ part = "login" => Login!DeadTokensLapse
(* RefundDesk: a refund is owed once, and on record.                       *)
(* Cadence: a sweep has one job a turn, its turns come, and a job is in    *)
(* one handler at a time.                                                  *)
TurnsTaken ==
    /\ part = "desk" => Desk!RequestsAccountable
    /\ part = "clerks" => Clerks!CadenceSound
=============================================================================
