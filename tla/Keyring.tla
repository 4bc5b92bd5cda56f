------------------------------ MODULE Keyring ------------------------------
(* The keys buyers' documents are sealed under: an environment of numbered *)
(* keys that operators change, replicas that load it as they start, and    *)
(* accounts read and written, with nothing locked in between, by requests  *)
(* to replicas of different keyrings.  Finding a document again goes by an *)
(* index that no version enters.                                           *)
EXTENDS Integers, FiniteSets, FiniteSetsExt

CONSTANTS
    Replicas, Accounts, Documents,
    Requests,       \* to one account or to several at a time
    production,     \* no replica starts without its keys
    Versions        \* the numbers keys may have

VARIABLES
    environ,    \* [keys, active]: the versions set, and the one named, 0 when none is
    ring,       \* replica -> what it loaded; an empty ring seals and opens nothing
    row,        \* account -> [sealed, version, blind, complete]
    edit,       \* request -> the account it has read, and what it will write
    owns        \* history: account -> [saved: what its owner last sent, torn: a write
                \* that sent no document had read the row before another write]

keyVars == <<environ, ring, row, edit, owns>>

Blank == ""
KeyringAssumption ==
    /\ production \in BOOLEAN
    /\ IsFiniteSet(Versions) /\ Versions # {} /\ Versions \subseteq Nat \ {0}
    /\ Blank \notin Documents /\ "none" \notin Accounts
Absent == <<>>      \* a NULL column
Ring(keys, active) == [keys |-> keys, active |-> active]
Down == Ring({}, -1)
Bare == Ring({}, 0)
Up(r) == ring[r] # Down
Free == [at |-> "none", account |-> "none", sent |-> Blank, document |-> Blank, complete |-> FALSE, fresh |-> TRUE]
Null == [sealed |-> Blank, version |-> 0, blind |-> Absent, complete |-> FALSE]

Init ==
    /\ environ = [keys |-> {Min(Versions)}, active |-> 0]
    /\ ring = [r \in Replicas |-> Down]
    /\ row = [u \in Accounts |-> Null] /\ edit = [q \in Requests |-> Free]
    /\ owns = [u \in Accounts |-> [saved |-> Blank, torn |-> FALSE]]

-----------------------------------------------------------------------------
(* What a replica does with the keys it has.                               *)
Encrypt(r, document) == [sealed |-> document, version |-> ring[r].active]
(* Mutant of Decrypt: a key this process was not given reads as empty.     *)
DecryptQuietly(r, u) == IF row[u].version \in ring[r].keys THEN <<row[u].sealed>> ELSE <<Blank>>
(* What comes out; nothing does without the key.                           *)
Decrypt(r, u) == IF row[u].version \in ring[r].keys THEN <<row[u].sealed>> ELSE <<>>
Scan(r, u) == IF row[u].sealed = Blank THEN <<Blank>> ELSE Decrypt(r, u)
(* Mutant of BlindIndex: the index follows the version that seals.         *)
BlindIndexOfVersion(r, document) == <<ring[r].active, document>>
BlindIndex(r, document) == <<"document", document>>
NewBlindIndex(r, document) == IF document = Blank THEN Absent ELSE BlindIndex(r, document)

(* The environment.  A key goes only when no row is sealed under it and no *)
(* replica seals under it, as an operator is told.                         *)
InUse == {row[u].version : u \in {u \in Accounts : row[u].sealed # Blank}}
         \cup {ring[r].active : r \in {r \in Replicas : ring[r].keys # {}}}
SetEnvironment(keys, active) ==
    /\ InUse \subseteq keys /\ environ' = [keys |-> keys, active |-> active]
    /\ environ' # environ
    /\ UNCHANGED <<ring, row, edit, owns>>

Loads == environ.keys # {} /\ environ.active \in environ.keys \cup {0}
resolveActiveVersion == IF environ.active # 0 THEN environ.active ELSE Max(environ.keys)
Boot(r) ==
    /\ ~Up(r) /\ (Loads \/ ~production)
    /\ ring' = [ring EXCEPT ![r] = IF Loads THEN Ring(environ.keys, resolveActiveVersion) ELSE Bare]
    /\ UNCHANGED <<environ, row, edit, owns>>
(* A deploy, a scale-down, a crash.                                        *)
Stop(r) ==
    /\ Up(r) /\ ring' = [ring EXCEPT ![r] = Down]
    /\ edit' = [q \in Requests |-> IF edit[q].at = r THEN Free ELSE edit[q]]
    /\ UNCHANGED <<environ, row, owns>>

(* Both writers of a profile read all of it and later write all of it.  A  *)
(* blank document is carried forward on a complete profile, and refused    *)
(* before; a phone that is proven carries what it read.                    *)
Reads(q, r, u, sent, document, complete) ==
    /\ Up(r) /\ edit[q] = Free
    /\ edit' = [edit EXCEPT ![q] = [at |-> r, account |-> u, sent |-> sent, document |-> document,
                                    complete |-> complete, fresh |-> TRUE]]
    /\ UNCHANGED <<environ, ring, row, owns>>
Save(q, r, u, sent) ==
    LET document == IF sent = Blank /\ row[u].complete THEN Scan(r, u)[1] ELSE sent
    IN  Scan(r, u) # <<>> /\ document # Blank /\ Reads(q, r, u, sent, document, TRUE)
VerifyPhone(q, r, u) == Scan(r, u) # <<>> /\ Reads(q, r, u, Blank, Scan(r, u)[1], row[u].complete)
SaveProfile(q) ==
    LET e == edit[q]
        u == e.account
        blind == NewBlindIndex(e.at, e.document)
        taken == \E v \in Accounts \ {u} : blind # Absent /\ row[v].blind = blind
        sealed == IF e.document = Blank THEN [sealed |-> Blank, version |-> 0] ELSE Encrypt(e.at, e.document)
    IN  /\ e # Free
        /\ IF taken \/ ring[e.at].keys = {}
           THEN edit' = [edit EXCEPT ![q] = Free] /\ UNCHANGED <<row, owns>>
           ELSE /\ edit' = [p \in Requests |->
                     IF p = q THEN Free
                     ELSE IF edit[p].account = u THEN [edit[p] EXCEPT !.fresh = FALSE] ELSE edit[p]]
                /\ row' = [row EXCEPT ![u] = [sealed |-> sealed.sealed, version |-> sealed.version, blind |-> blind,
                                              complete |-> e.complete]]
                /\ owns' = [owns EXCEPT ![u] = IF e.sent # Blank THEN [saved |-> e.sent, torn |-> FALSE]
                                               ELSE IF e.fresh THEN @ ELSE [@ EXCEPT !.torn = TRUE]]
        /\ UNCHANGED <<environ, ring>>

Next ==
    \/ \E keys \in SUBSET Versions, active \in Versions \cup {0} : SetEnvironment(keys, active)
    \/ \E r \in Replicas :
          \/ Boot(r) \/ Stop(r)
          \/ \E q \in Requests, u \in Accounts :
                 VerifyPhone(q, r, u) \/ (\E sent \in Documents \cup {Blank} : Save(q, r, u, sent))
    \/ \E q \in Requests : SaveProfile(q)
Spec == Init /\ [][Next]_keyVars

-----------------------------------------------------------------------------
TypeOK ==
    /\ environ.keys \subseteq Versions /\ environ.active \in Versions \cup {0}
    /\ \A r \in Replicas : ring[r].keys \subseteq Versions /\ ring[r].active \in Versions \cup {0, -1}
    /\ \A u \in Accounts : row[u].sealed \in Documents \cup {Blank} /\ row[u].version \in Versions \cup {0}

(* A document its owner sent stays on file, whatever keys the replicas     *)
(* hold, unless a request that sent none had read the account before       *)
(* another wrote it, and wrote after it.                                   *)
DocumentsKept == \A u \in Accounts : ~owns[u].torn => row[u].sealed = owns[u].saved
(* One document is on file for one account, whichever keys its owners'     *)
(* replicas seal under, also when an old one is put back.                  *)
OneAccountPerDocument ==
    \A u, v \in Accounts : u # v /\ row[u].sealed # Blank => row[u].sealed # row[v].sealed
(* A replica that starts now opens every row there is.                     *)
RowsOpen == \A u \in Accounts : row[u].sealed # Blank => row[u].version \in environ.keys

KeyringSound == DocumentsKept /\ OneAccountPerDocument /\ RowsOpen

(* Refuted: on an account that has already filled the block in, a BLANK    *)
(* identity field means "leave it as it is".  What it leaves is what it    *)
(* read, over a correction made meanwhile; so does a phone check.          *)
LeftAsItIs == \A u \in Accounts : row[u].sealed = owns[u].saved

(* "add V2, point ACTIVE at it, deploy" (loader.go:20-25): while the       *)
(* deploy rolls, a replica of the old keys cannot open what a new one      *)
(* sealed.                                                                 *)
EveryReplicaReads == \A r \in Replicas, u \in Accounts : ring[r].keys # {} => Scan(r, u) # <<>>
=============================================================================
