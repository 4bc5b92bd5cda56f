------------------------------- MODULE Sessions -------------------------------
(***************************************************************************)
(* One account's session: the row with its rotating refresh token, the     *)
(* cache that answers "is this access token's session live", and the       *)
(* browser whose tabs share one cookie jar.                                *)
(*                                                                         *)
(* Tokens are numbered as they are issued: a number stands for the refresh *)
(* token, its hash and the access token issued with it.                    *)
(***************************************************************************)
EXTENDS Integers, FiniteSets

CONSTANTS
    Tabs,           \* concurrent requests of the browser
    MaxTokens,      \* bound on the tokens issued
    Moments,        \* seconds at which something happens; 0 is one of them
    SessionSeconds, \* how long a session lasts
    None

SessionAssumption ==
    /\ MaxTokens \in Nat \ {0} /\ Moments \subseteq Nat /\ SessionSeconds \in Nat
    /\ None \notin Nat /\ None \notin [until : Nat]

VARIABLES now, row, issued, jar, cache, pointer, tab, died

sessionVars == <<now, row, issued, jar, cache, pointer, tab, died>>

RefreshRetryGrace == 10
SessionTTL == 30

Idle == [stage |-> "idle"]
Hand(t, record) == tab' = [tab EXCEPT ![t] = record]
Tokens == 1..MaxTokens

Init ==
    /\ now = 0
    /\ row = [hash |-> 1, previous |-> None, rotated |-> 0, revoked |-> FALSE, expires |-> SessionSeconds]
    /\ issued = 1
    /\ jar = 1
    /\ cache = [j \in Tokens |-> None]
    /\ pointer = None
    /\ tab = [t \in Tabs |-> Idle]
    /\ died = [j \in Tokens |-> None]

Active(session) == ~session.revoked /\ now < session.expires

(* A refusal clears the cookies.                                           *)
SignedOut == jar' = None

-----------------------------------------------------------------------------
(* The row.                                                                *)
FindByAccessJTI(j) == row.hash = j /\ ~row.revoked
Dies(j) == died' = [died EXCEPT ![j] = IF @ = None THEN now ELSE @]

CanRotate(expected) == row.hash = expected /\ ~row.revoked

-----------------------------------------------------------------------------
(* Refresh.  The look finds the token as the current one or the one before *)
(* it, which an honest client retries within the grace; any failure of the *)
(* look reads as no session, and a refusal clears the cookies.             *)
RefreshFinds(t) ==
    /\ tab[t].stage = "idle" /\ jar # None
    /\ \/ /\ jar = row.hash
          /\ IF Active(row)
             THEN Hand(t, [stage |-> "rotate", expected |-> row.hash]) /\ UNCHANGED jar
             ELSE SignedOut /\ UNCHANGED tab
          /\ UNCHANGED <<row, died>>
       \/ /\ jar # row.hash /\ jar = row.previous /\ now - row.rotated <= RefreshRetryGrace
          /\ IF Active(row)
             THEN Hand(t, [stage |-> "rotate", expected |-> row.hash]) /\ UNCHANGED jar
             ELSE SignedOut /\ UNCHANGED tab
          /\ UNCHANGED <<row, died>>
       \/ /\ jar # row.hash /\ jar = row.previous /\ now - row.rotated > RefreshRetryGrace
          /\ IF row.revoked
             THEN SignedOut /\ UNCHANGED <<row, tab, died>>
             ELSE /\ row' = [row EXCEPT !.revoked = TRUE]
                  /\ Dies(row.hash)
                  /\ Hand(t, [stage |-> "forget", then |-> None]) /\ UNCHANGED jar
       \/ /\ jar \notin {row.hash, row.previous}
          /\ SignedOut /\ UNCHANGED <<row, tab, died>>
    /\ UNCHANGED <<now, issued, cache, pointer>>

(* The database did not answer, to the look or to the update.              *)
RefreshFails(t) ==
    /\ tab[t].stage \in {"idle", "rotate"} /\ jar # None
    /\ SignedOut /\ Hand(t, Idle)
    /\ UNCHANGED <<now, row, issued, cache, pointer, died>>

Rotate(t) ==
    /\ tab[t].stage = "rotate" /\ issued < MaxTokens
    /\ issued' = issued + 1
    /\ IF CanRotate(tab[t].expected)
       THEN /\ row' = [row EXCEPT !.hash = issued', !.previous = tab[t].expected, !.rotated = now]
            /\ Dies(row.hash)
            /\ Hand(t, [stage |-> "forget", then |-> issued'])
            /\ UNCHANGED jar
       ELSE /\ SignedOut /\ Hand(t, Idle)
            /\ UNCHANGED <<row, died>>
    /\ UNCHANGED <<now, cache, pointer>>

(* Forgetting goes through the pointer; a cache that fails is left to its  *)
(* lifetime.  The answer follows, and may be lost on the way.              *)
Forget(t) ==
    /\ tab[t].stage = "forget"
    /\ \/ UNCHANGED <<cache, pointer>>
       \/ /\ pointer # None
          /\ cache' = [cache EXCEPT ![pointer.jti] = None]
          /\ pointer' = None
    /\ Hand(t, [stage |-> "answered", then |-> tab[t].then])
    /\ UNCHANGED <<now, row, issued, jar, died>>

Answered(t) ==
    /\ tab[t].stage = "answered"
    /\ \/ UNCHANGED jar
       \/ jar' = tab[t].then
    /\ Hand(t, Idle)
    /\ UNCHANGED <<now, row, issued, cache, pointer, died>>

-----------------------------------------------------------------------------
(* An authenticated request: the cache, then the row, then two writes.     *)
Lookup(t) ==
    /\ tab[t].stage = "idle" /\ jar # None
    /\ IF cache[jar] # None
       THEN UNCHANGED tab
       ELSE IF FindByAccessJTI(jar)
            THEN Hand(t, [stage |-> "store", jti |-> jar, expires |-> row.expires])
            ELSE UNCHANGED tab
    /\ UNCHANGED <<now, row, issued, jar, cache, pointer, died>>

(* Mutant of LivesFor: the entry lives as long as the session it names.    *)
LivesForSession(expires) == expires
LivesFor(expires) == IF expires - now < SessionTTL THEN expires ELSE now + SessionTTL

Store(t) ==
    /\ tab[t].stage = "store"
    /\ IF tab[t].expires > now
       THEN /\ cache' = [cache EXCEPT ![tab[t].jti] = [until |-> LivesFor(tab[t].expires)]]
            /\ Hand(t, [stage |-> "point", jti |-> tab[t].jti])
       ELSE Hand(t, Idle) /\ UNCHANGED cache
    /\ UNCHANGED <<now, row, issued, jar, pointer, died>>

(* The second write; if it fails the first is taken back.                  *)
Point(t) ==
    /\ tab[t].stage = "point"
    /\ \/ pointer' = [jti |-> tab[t].jti, until |-> LivesFor(row.expires)] /\ UNCHANGED cache
       \/ cache' = [cache EXCEPT ![tab[t].jti] = None] /\ UNCHANGED pointer
    /\ Hand(t, Idle)
    /\ UNCHANGED <<now, row, issued, jar, died>>

(* Logout: allowed in by the guard, found through the cache as well.       *)
Authenticates(j) ==
    \/ cache[j] # None
    \/ FindByAccessJTI(j) /\ Active(row)

Logout(t) ==
    /\ tab[t].stage = "idle" /\ jar # None
    /\ Authenticates(jar)
    /\ IF row.revoked
       THEN UNCHANGED <<row, died, tab, jar>>
       ELSE /\ row' = [row EXCEPT !.revoked = TRUE]
            /\ Dies(row.hash)
            /\ Hand(t, [stage |-> "forget", then |-> None])
            /\ UNCHANGED jar
    /\ UNCHANGED <<now, issued, cache, pointer>>

(* Time passes between requests: one ends within the moment it began.      *)
Tick ==
    /\ \A t \in Tabs : tab[t].stage = "idle"
    /\ now' \in {m \in Moments : m > now}
    /\ cache' = [j \in Tokens |-> IF cache[j] # None /\ cache[j].until <= now' THEN None ELSE cache[j]]
    /\ pointer' = IF pointer # None /\ pointer.until <= now' THEN None ELSE pointer
    /\ UNCHANGED <<row, issued, jar, tab, died>>

Next ==
    \/ Tick
    \/ \E t \in Tabs :
          \/ RefreshFinds(t) \/ RefreshFails(t) \/ Rotate(t) \/ Forget(t) \/ Answered(t)
          \/ Lookup(t) \/ Store(t) \/ Point(t) \/ Logout(t)

Spec == Init /\ [][Next]_sessionVars

-----------------------------------------------------------------------------
(* Type invariant of the session and of what is cached about it.           *)
TypeOK ==
    /\ row.hash \in Tokens /\ row.previous \in Tokens \cup {None} /\ row.revoked \in BOOLEAN
    /\ jar \in Tokens \cup {None}
    /\ \A j \in Tokens : cache[j] # None => cache[j].until <= row.expires

(* Caching an authentication decision is safe.  An access token that died, *)
(* by rotation or by logout, is let in for a lifetime of the cache at most *)
(* after its death and never past the session's own end, whatever reads    *)
(* and forgets crossed; and one that is neither current nor cached is not  *)
(* let in at all.  The rotation is a chain: the token before the current   *)
(* one is the one it replaced, so a retry is told from a stolen token.     *)
DeadTokensLapse ==
    /\ \A j \in Tokens : died[j] # None /\ cache[j] # None => cache[j].until <= died[j] + SessionTTL
    /\ \A j \in Tokens : Authenticates(j) /\ died[j] = None => j = row.hash /\ ~row.revoked
    /\ row.previous # None => died[row.previous] # None /\ row.previous < row.hash

(* What the grace is for: an honest client may send a token again, and is  *)
(* not taken for a thief.  When the two cross, the one that comes second   *)
(* is refused as revoked, and the browser drops the cookies of a session   *)
(* that is good.                                                           *)
HonestRetryStaysSignedIn ==
    [][\A t \in Tabs :
          tab[t].stage = "rotate" /\ issued' # issued /\ tab'[t].stage = "idle" /\ Active(row) =>
              jar' # None]_sessionVars
=============================================================================
