----------------------------- MODULE Backstage -----------------------------
(***************************************************************************)
(* Backstage: payment providers, the message broker, what buyers say of    *)
(* themselves and the keys it is kept under, the catalogue, messages,      *)
(* reports, the start of a new release, tickets for orders older than the  *)
(* door, and the gate every request passes, side by side.  One of them     *)
(* moves in a behaviour; the variables of the others stand at idle.  Every *)
(* constant of a part is a constant here.                                  *)
(***************************************************************************)
EXTENDS Integers, Sequences

CONSTANTS
    idle,                                           \* a part that does not move, and no row or owner
    Callers, Hosts,                                 \* the requests, runs or owners that meet; replicas
    Holds, Moments, Day, DueDays, Turns,            \* charges
    MinPixExpiry, MaxPixExpiry, MaxAttempts,
    Messages, Prefetch,                             \* references to jobs
    MaxConnections, MaxDeliveries,
    Documents, Versions, production,                \* documents and the keys they are sealed under
    Stems, Passports, Forms, Todays, Phones,        \* what a buyer types
    ufs, Genders,
    EventIds, Card, TiersOf, Cities, Filters,       \* the listing
    PageLimits, DefaultPageSize, MaxPageSize,
    MaxOffset, MaxCities, Changes,
    Notes, KeyOf, Template, Channel, Senders,       \* messages to buyers
    Admissions, MaxDeliveryAttempts, MaxSends,
    Sold, Book, OwnerOf, Price,                     \* reports
    exportBatch, MaxExportRows, cityLimit, MaxDays,
    Tiers, Sales, Rules, Speed, Replacing,          \* the start of a release
    OldOrders, LinesOf, Old, RunLimits, MaxPage,    \* tickets for orders older than the door
    MaxMoves,
    Journeys, LimitOf, CheckoutMaxInFlight, Window, \* the gate
    MaxFaults, MaxMisses

VARIABLES
    part,
    gateway, clock, sale, copy, known, charges, job, lost,
    row, hand, accepted, inbox, token, good, void, missed,
    order, today, asking, cut,
    schema, event, events, media, sold, index, superseded, twice, lock, replica, oldServes, broken,
    paid, admissions, run, moves, failed,
    slots, gauge, request, counter, admitted, faults,
    spoiled, open, dials, broker, watch, published, work, dead, consume, parcels, delivered, chore, polled,
    process, spent, handled,
    environ, ring, seal, edit, owns,
    date, paper, typed, slips, stored, claims, phone,
    status, stall, reader, offered, changes

Money == INSTANCE Providers WITH order <- sale, faults <- lost
Wire == INSTANCE Broker WITH hand <- parcels, job <- chore
Keys == INSTANCE Keyring WITH Replicas <- Hosts, Accounts <- Callers, Requests <- Callers, row <- seal
Papers == INSTANCE Identity WITH today <- date, owns <- claims
Listing == INSTANCE Catalogue WITH Events <- EventIds, Limits <- PageLimits, sale <- stall
Post == INSTANCE Notices WITH MaxFaults <- MaxMisses, Nobody <- idle, faults <- missed
Figures == INSTANCE Reports WITH Orders <- Sold, request <- asking, faults <- cut
Release == INSTANCE Startup WITH
    Replicas <- Callers, MaxFaults <- MaxMisses, Nobody <- idle, order <- sold, faults <- broken
Backfill == INSTANCE DoorDesk WITH Orders <- OldOrders, Runs <- Callers, Limits <- RunLimits, order <- paid, faults <- failed
Turnstile == INSTANCE Gate WITH Replicas <- Hosts, Requests <- Callers

(* What the parts with theorems ask of their constants.                    *)
ASSUME BackstageAssumption ==
    /\ Money!ProvidersAssumption /\ Wire!BrokerAssumption /\ Keys!KeyringAssumption
    /\ Post!NoticesAssumption /\ Release!StartupAssumption /\ Turnstile!GateAssumption

moneyIdle ==
    /\ gateway = idle /\ clock = idle /\ sale = idle /\ copy = idle /\ known = idle /\ charges = idle /\ job = idle
    /\ lost = idle
wireIdle ==
    /\ spoiled = idle /\ open = idle /\ dials = idle /\ broker = idle /\ watch = idle /\ published = idle
    /\ work = idle /\ dead = idle /\ consume = idle /\ parcels = idle /\ delivered = idle /\ chore = idle
    /\ polled = idle /\ process = idle /\ spent = idle /\ handled = idle
keysIdle ==
    environ = idle /\ ring = idle /\ seal = idle /\ edit = idle /\ owns = idle
papersIdle ==
    /\ date = idle /\ paper = idle /\ typed = idle /\ slips = idle /\ stored = idle /\ claims = idle
    /\ phone = idle
listingIdle == status = idle /\ stall = idle /\ reader = idle /\ offered = idle /\ changes = idle
postIdle ==
    /\ row = idle /\ hand = idle /\ accepted = idle /\ inbox = idle /\ token = idle /\ good = idle /\ void = idle
    /\ missed = idle
figuresIdle == order = idle /\ today = idle /\ asking = idle /\ cut = idle
releaseIdle ==
    /\ schema = idle /\ event = idle /\ events = idle /\ media = idle /\ sold = idle /\ index = idle
    /\ superseded = idle /\ twice = idle /\ lock = idle /\ replica = idle /\ oldServes = idle /\ broken = idle
backfillIdle == paid = idle /\ admissions = idle /\ run = idle /\ moves = idle /\ failed = idle
turnstileIdle ==
    slots = idle /\ gauge = idle /\ request = idle /\ counter = idle /\ admitted = idle /\ faults = idle

moneyVars == <<gateway, clock, sale, copy, known, charges, job, lost>>
postVars == <<row, hand, accepted, inbox, token, good, void, missed>>
figuresVars == <<order, today, asking, cut>>
releaseVars ==
    <<schema, event, events, media, sold, index, superseded, twice, lock, replica, oldServes, broken>>
backfillVars == <<paid, admissions, run, moves, failed>>
turnstileVars == <<slots, gauge, request, counter, admitted, faults>>
wireVars ==
    <<spoiled, open, dials, broker, watch, published, work, dead, consume, parcels, delivered, chore, polled,
      process, spent, handled>>
keysVars == <<environ, ring, seal, edit, owns>>
papersVars == <<date, paper, typed, slips, stored, claims, phone>>
listingVars == <<status, stall, reader, offered, changes>>
firstVars == <<moneyVars, wireVars, keysVars, papersVars, listingVars>>
lastVars == <<postVars, figuresVars, releaseVars, backfillVars, turnstileVars>>
backstageVars == <<part, firstVars, lastVars>>

BackstageInit ==
    /\ part \in {"money", "wire", "keys", "papers", "listing", "post", "figures", "release", "backfill", "turnstile"}
    /\ IF part = "money" THEN Money!Init ELSE moneyIdle
    /\ IF part = "wire" THEN Wire!Init ELSE wireIdle
    /\ IF part = "keys" THEN Keys!Init ELSE keysIdle
    /\ IF part = "papers" THEN Papers!Init ELSE papersIdle
    /\ IF part = "listing" THEN Listing!Init ELSE listingIdle
    /\ IF part = "post" THEN Post!Init ELSE postIdle
    /\ IF part = "figures" THEN Figures!Init ELSE figuresIdle
    /\ IF part = "release" THEN Release!Init ELSE releaseIdle
    /\ IF part = "backfill" THEN Backfill!Init ELSE backfillIdle
    /\ IF part = "turnstile" THEN Turnstile!Init ELSE turnstileIdle

MoneyMoves ==
    /\ part = "money" /\ Money!Next
    /\ UNCHANGED <<part, wireVars, keysVars, papersVars, listingVars, lastVars>>
WireMoves ==
    /\ part = "wire" /\ Wire!Next
    /\ UNCHANGED <<part, moneyVars, keysVars, papersVars, listingVars, lastVars>>
KeysMove ==
    /\ part = "keys" /\ Keys!Next
    /\ UNCHANGED <<part, moneyVars, wireVars, papersVars, listingVars, lastVars>>
PapersMove ==
    /\ part = "papers" /\ Papers!Next
    /\ UNCHANGED <<part, moneyVars, wireVars, keysVars, listingVars, lastVars>>
ListingMoves ==
    /\ part = "listing" /\ Listing!Next
    /\ UNCHANGED <<part, moneyVars, wireVars, keysVars, papersVars, lastVars>>
PostMoves ==
    /\ part = "post" /\ Post!Next
    /\ UNCHANGED <<part, firstVars, figuresVars, releaseVars, backfillVars, turnstileVars>>
FiguresMove ==
    /\ part = "figures" /\ Figures!Next
    /\ UNCHANGED <<part, firstVars, postVars, releaseVars, backfillVars, turnstileVars>>
ReleaseMoves ==
    /\ part = "release" /\ Release!Next
    /\ UNCHANGED <<part, firstVars, postVars, figuresVars, backfillVars, turnstileVars>>
BackfillMoves ==
    /\ part = "backfill" /\ Backfill!Next
    /\ UNCHANGED <<part, firstVars, postVars, figuresVars, releaseVars, turnstileVars>>
TurnstileMoves ==
    /\ part = "turnstile" /\ Turnstile!Next
    /\ UNCHANGED <<part, firstVars, postVars, figuresVars, releaseVars, backfillVars>>
BackstageNext ==
    \/ MoneyMoves \/ WireMoves \/ KeysMove \/ PapersMove \/ ListingMoves
    \/ PostMoves \/ FiguresMove \/ ReleaseMoves \/ BackfillMoves \/ TurnstileMoves
BackstageSpec == BackstageInit /\ [][BackstageNext]_backstageVars

(* Type invariant of the parts with theorems.                              *)
BackstageTypes ==
    /\ part = "money" => Money!TypeOK
    /\ part = "wire" => Wire!TypeOK
    /\ part = "keys" => Keys!TypeOK
    /\ part = "post" => Post!TypeOK
    /\ part = "release" => Release!TypeOK
    /\ part = "turnstile" => Turnstile!TypeOK

(* The parts' own properties, where the part moves: what each says is in   *)
(* its module.                                                             *)
(* Providers: an order is charged once, for as long as its hold stands,    *)
(* its buyer is told once, its money goes back once, and what a void took  *)
(* back stays unpaid.                                                      *)
(* Broker: what it confirmed is handled or still queued, never by more     *)
(* hands than its prefetch.                                                *)
(* Notices: a message reaches its reader once, and says what is true.      *)
(* Gate: slots come back, budgets are kept, and waiting as told is enough. *)
EdgesSound ==
    /\ part = "money" => Money!ProvidersSound
    /\ part = "wire" => Wire!BrokerSound
    /\ part = "post" => Post!NoticesSound
    /\ part = "turnstile" => Turnstile!GateSound
(* Startup: no release loses a sale or serves without its tables.          *)
(* Keyring: across a change of keys every document opens and serves one    *)
(* account, and is lost only to a write that had read the row before       *)
(* another wrote it.                                                       *)
ReleaseSound ==
    /\ part = "release" => Release!StartupSound
    /\ part = "keys" => Keys!KeyringSound
(* Catalogue: the pages of a still catalogue show every match once, and    *)
(* its totals and filter options are of what they say.                     *)
(* Reports: breakdowns account for their totals, nobody sees another's     *)
(* buyers, and an export repeats no line and misses none but chairs of the *)
(* order and tier on which a batch ended.                                  *)
(* Identity: a miscopied document is refused, and an edit keeps the one on *)
(* file.                                                                   *)
(* DoorDesk: every place of a paid order older than the door gets one      *)
(* ticket, and an order passed over is counted.                            *)
TellingSound ==
    /\ part = "listing" => Listing!TypeOK /\ Listing!CatalogueTrue
    /\ part = "figures" => Figures!TypeOK /\ Figures!ReportsSound
    /\ part = "papers" => Papers!TypeOK /\ Papers!IdentitySound
    /\ part = "backfill" => Backfill!TypeOK /\ Backfill!DeskSound
=============================================================================
