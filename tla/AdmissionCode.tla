---------------------------- MODULE AdmissionCode ----------------------------
(***************************************************************************)
(* The printed code: eleven characters of an alphabet of thirty-one and a  *)
(* check character.  A character is its index in the alphabet.  Somebody   *)
(* copies a code by hand; the door reads what they typed.                  *)
(***************************************************************************)
EXTENDS Integers, FiniteSets, Sequences

CONSTANTS
    Separator,   \* what a person or a label printer puts between groups
    LookAlike,   \* letters taken for digits, and the digit each stands for
    Foreign,     \* a character that is neither
    Drawn,       \* the data parts of the codes under consideration
    MaxTyped     \* bound: characters typed

AlphabetSize == 31
DataLength == 11
Alphabet == 0..(AlphabetSize - 1)
Data == [1..DataLength -> Alphabet]

ASSUME CodeAssumption ==
    /\ Drawn \subseteq Data
    /\ Separator \notin Alphabet /\ Foreign \notin Alphabet \cup {Separator}
    /\ LookAlike \in [DOMAIN LookAlike -> Alphabet]
    /\ DOMAIN LookAlike \cap (Alphabet \cup {Separator, Foreign}) = {}
    /\ MaxTyped \in Nat

VARIABLES
    code,    \* the code on the ticket
    typed,   \* what was typed from it
    slip     \* how it was mistyped: none, substituted, swapped

codeVars == <<code, typed, slip>>

-----------------------------------------------------------------------------
(* Mutant of Weighted: positions counted from zero.                        *)
WeightedFromZero(d) ==
    d[2] + 2*d[3] + 3*d[4] + 4*d[5] + 5*d[6] + 6*d[7] + 7*d[8] + 8*d[9] + 9*d[10] + 10*d[11]

Weighted(d) ==
    d[1] + 2*d[2] + 3*d[3] + 4*d[4] + 5*d[5] + 6*d[6] + 7*d[7] + 8*d[8]
         + 9*d[9] + 10*d[10] + 11*d[11]

CheckCharacter(d) == Weighted(d) % AlphabetSize

NewCode(d) == Append([i \in 1..DataLength |-> d[i]], CheckCharacter(d))

Malformed == <<>>

(* Mutant of Meant: look-alikes are not in the alphabet.                   *)
MeantLiterally(c) == c
Meant(c) == IF c \in DOMAIN LookAlike THEN LookAlike[c] ELSE c

(* What was typed without its separators, in the order it was typed.       *)
Marks(raw) == {p \in DOMAIN raw : raw[p] # Separator}
MarksUpTo(raw, p) == {q \in Marks(raw) : q <= p}
NthMark(raw, n) == CHOOSE p \in Marks(raw) : Cardinality(MarksUpTo(raw, p)) = n
Characters(raw) == [n \in 1..Cardinality(Marks(raw)) |-> Meant(raw[NthMark(raw, n)])]

Verified(c) ==
    /\ Len(c) = DataLength + 1
    /\ \A i \in 1..Len(c) : c[i] \in Alphabet
    /\ c[DataLength + 1] = CheckCharacter(c)

ParseCode(raw) == IF Verified(Characters(raw)) THEN Characters(raw) ELSE Malformed

-----------------------------------------------------------------------------
CodeInit ==
    /\ code \in {NewCode(d) : d \in Drawn}
    /\ typed = code
    /\ slip = "none"

(* Where a character stands, not counting separators, decides nothing:     *)
(* a separator may be typed anywhere.                                      *)
Separate(i) ==
    /\ Len(typed) < MaxTyped
    /\ typed' = SubSeq(typed, 1, i) \o <<Separator>> \o SubSeq(typed, i + 1, Len(typed))
    /\ UNCHANGED <<code, slip>>

MisreadAs(i, c) ==
    /\ typed[i] = LookAlike[c]
    /\ typed' = [typed EXCEPT ![i] = c]
    /\ UNCHANGED <<code, slip>>

Substitute(i, c) ==
    /\ slip = "none" /\ typed[i] # Separator
    /\ c # Meant(typed[i])
    /\ typed' = [typed EXCEPT ![i] = c]
    /\ slip' = "substituted"
    /\ UNCHANGED code

Swap(i, j) ==
    /\ slip = "none" /\ Separator \notin {typed[i], typed[j]}
    /\ Meant(typed[i]) # Meant(typed[j])
    /\ typed' = [typed EXCEPT ![i] = typed[j], ![j] = typed[i]]
    /\ slip' = "swapped"
    /\ UNCHANGED code

CodeNext ==
    \/ \E i \in 0..Len(typed) : Separate(i)
    \/ \E i \in DOMAIN typed, c \in DOMAIN LookAlike : MisreadAs(i, c)
    \/ \E i \in DOMAIN typed, c \in Alphabet \cup {Foreign} : Substitute(i, c)
    \/ \E i \in DOMAIN typed, j \in DOMAIN typed : Swap(i, j)

CodeSpec == CodeInit /\ [][CodeNext]_codeVars

-----------------------------------------------------------------------------
(* Separators and look-alikes cost nothing: a code typed without a slip is *)
(* read as the code on the ticket.                                         *)
ReadsBack == slip = "none" => ParseCode(typed) = code

(* One wrong character, or any two exchanged - the check character         *)
(* included - is refused before the database is asked.                     *)
SlipsCaught == slip # "none" => ParseCode(typed) = Malformed
=============================================================================
