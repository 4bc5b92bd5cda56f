------------------------------ MODULE Identity ------------------------------
(* What a buyer types about themselves and what is kept of it: a document  *)
(* with two check digits, copied with at most one slip; a date of birth; a *)
(* phone number.  Characters are numbers: 0..9 the digits, 10 and more     *)
(* letters, -1 a dot or a dash, -2 a space.                                *)
EXTENDS Integers, Sequences

CONSTANTS
    Stems,      \* kind of document -> what stands before the check digits
    Passports,  \* as typed
    Forms,      \* the rest of a draft: [name, birth, gender, uf]
    Todays,     \* dates <<year, month, day>>, in order of time
    Phones,     \* as typed
    ufs, Genders

VARIABLES
    today,      \* an index into Todays
    paper,      \* the document in the buyer's hand: [kind, number]
    typed,      \* what has been typed of it
    slips,
    stored,     \* the profile
    owns,       \* history: the document last sent and kept
    phone       \* the number kept

identityVars == <<today, paper, typed, slips, stored, owns, phone>>

Empty == [kind |-> "", document |-> <<>>, birth |-> <<>>, complete |-> FALSE]
IsDigit(c) == c \in 0..9
onlyDigits(s) == SelectSeq(s, IsDigit)
IsSpace(c) == c = -2
NotSpace(c) == c # -2
MinimumAge == 18

-----------------------------------------------------------------------------
(* The check digits.                                                       *)
Weighted(s, w) ==
    LET sum[i \in 0..Len(s)] == IF i = 0 THEN 0 ELSE sum[i - 1] + s[i] * w[i] IN sum[Len(s)]
CPFCheck(s) ==
    LET left == (Weighted(s, [i \in 1..Len(s) |-> Len(s) + 2 - i]) * 10) % 11
    IN  IF left = 10 THEN 0 ELSE left
CNPJWeights == <<6, 5, 4, 3, 2, 9, 8, 7, 6, 5, 4, 3, 2>>
CNPJCheck(s) ==
    LET left == Weighted(s, SubSeq(CNPJWeights, 14 - Len(s), 13)) % 11
    IN  IF left < 2 THEN 0 ELSE 11 - left
CheckDigit(kind, s) == IF kind = "cpf" THEN CPFCheck(s) ELSE CNPJCheck(s)
Length(kind) == IF kind = "cpf" THEN 11 ELSE 14
allSame(s) == \A i \in 2..Len(s) : s[i] = s[1]
(* Mutant of ValidNumber: only the last check digit is looked at.          *)
ValidNumberOnce(kind, s) == ~allSame(s) /\ CheckDigit(kind, SubSeq(s, 1, Len(s) - 1)) = s[Len(s)]
ValidNumber(kind, s) ==
    ~allSame(s) /\ \A i \in {Len(s) - 1, Len(s)} : CheckDigit(kind, SubSeq(s, 1, i - 1)) = s[i]
Issued(kind, stem) == LET begun == Append(stem, CheckDigit(kind, stem)) IN Append(begun, CheckDigit(kind, begun))

(* What is kept of a document; nothing of one that is refused.             *)
normalizeDocument(kind, s) ==
    IF kind \in {"cpf", "cnpj"}
    THEN LET digits == onlyDigits(s)
         IN  IF Len(digits) = Length(kind) /\ ValidNumber(kind, digits) THEN digits ELSE <<>>
    ELSE LET passport == SelectSeq(s, NotSpace)
         IN  IF Len(passport) \in 5..20 /\ \A i \in DOMAIN passport : passport[i] >= 0 THEN passport ELSE <<>>

Later(d, e) == \E n \in 1..3 : d[n] > e[n] /\ \A m \in 1..(n - 1) : d[m] = e[m]
(* Mutant of ageOn: days are counted within the year.                      *)
DayOfYear(d) == <<0, 31, 59, 90, 120, 151, 181, 212, 243, 273, 304, 334>>[d[2]] + d[3]
                + (IF d[2] > 2 /\ d[1] % 4 = 0 THEN 1 ELSE 0)
ageOnByDays(birth, now) == (now[1] - birth[1]) - (IF DayOfYear(now) < DayOfYear(birth) THEN 1 ELSE 0)
ageOn(birth, now) ==
    (now[1] - birth[1]) - (IF now[2] < birth[2] \/ (now[2] = birth[2] /\ now[3] < birth[3]) THEN 1 ELSE 0)

BirthAccepted(birth, now) == ~Later(birth, now) /\ birth[1] >= 1900 /\ ageOn(birth, now) >= MinimumAge
FormAccepted(form) == form.name = "full" /\ form.gender \in Genders \cup {""} /\ form.uf \in ufs \cup {""}

NormalizePhone(s) ==
    LET digits == onlyDigits(s)
    IN  IF Len(digits) = 11 THEN <<5, 5>> \o digits ELSE IF Len(digits) \in 8..15 THEN digits ELSE <<>>

-----------------------------------------------------------------------------
Init ==
    /\ today = 1 /\ typed = <<>> /\ slips = 0 /\ stored = Empty /\ owns = <<>> /\ phone = <<>>
    /\ paper \in {[kind |-> kind, number |-> Issued(kind, stem)] : kind \in {"cpf"}, stem \in Stems["cpf"]}
                 \cup {[kind |-> kind, number |-> Issued(kind, stem)] : kind \in {"cnpj"}, stem \in Stems["cnpj"]}
                 \cup {[kind |-> "passport", number |-> p] : p \in Passports}
    /\ paper.kind # "passport" => ~allSame(paper.number)

(* The document is copied, punctuated or not, with one slip at most.       *)
Types ==
    /\ typed = <<>>
    /\ \E n \in 1..Len(paper.number) :
          \/ typed' = paper.number /\ UNCHANGED slips
          \/ typed' = SubSeq(paper.number, 1, n) \o <<-1>> \o SubSeq(paper.number, n + 1, Len(paper.number)) /\ UNCHANGED slips
          \/ \E d \in (0..9) \ {paper.number[n]} : typed' = [paper.number EXCEPT ![n] = d] /\ slips' = slips + 1
          \/ /\ n < Len(paper.number) /\ paper.number[n] # paper.number[n + 1]
             /\ typed' = [paper.number EXCEPT ![n] = paper.number[n + 1], ![n + 1] = paper.number[n]]
             /\ slips' = slips + 1
    /\ UNCHANGED <<today, paper, stored, owns, phone>>
Retypes ==
    /\ typed # <<>> /\ typed' = <<>> /\ slips' = 0 /\ UNCHANGED <<today, paper, stored, owns, phone>>

(* A blank field of a complete profile is taken from what is stored.       *)
Save(form, kind, sent) ==
    LET carried == stored.complete /\ sent = <<>>
        draftKind == IF carried /\ kind = "" THEN stored.kind ELSE kind
        birth == IF stored.complete /\ form.birth = <<>> THEN stored.birth ELSE form.birth
        name == IF stored.complete /\ form.name = "" THEN "full" ELSE form.name
        document == normalizeDocument(draftKind, IF carried THEN stored.document ELSE sent)
    IN  /\ draftKind \in {"cpf", "cnpj", "passport"} /\ document # <<>>
        /\ FormAccepted([form EXCEPT !.name = name]) /\ birth # <<>> /\ BirthAccepted(birth, Todays[today])
        /\ stored' = [kind |-> draftKind, document |-> document, birth |-> birth, complete |-> TRUE]
        /\ owns' = IF carried THEN owns ELSE document
        /\ UNCHANGED <<today, paper, typed, slips, phone>>

VerifyPhone(number) ==
    /\ NormalizePhone(number) # <<>> /\ phone' = NormalizePhone(number)
    /\ UNCHANGED <<today, paper, typed, slips, stored, owns>>
Midnight ==
    /\ today < Len(Todays) /\ today' = today + 1 /\ UNCHANGED <<paper, typed, slips, stored, owns, phone>>

Next ==
    \/ Types \/ Retypes \/ Midnight
    \/ \E form \in Forms, kind \in {"", paper.kind} : Save(form, kind, typed)
    \/ \E number \in Phones : VerifyPhone(number)
Spec == Init /\ [][Next]_identityVars

-----------------------------------------------------------------------------
TypeOK ==
    /\ today \in DOMAIN Todays /\ slips \in 0..1
    /\ (stored.complete <=> stored.document # <<>>)

(* A document kept of a paper that was miscopied is only ever one whose    *)
(* check digits cannot tell: a remainder of ten is written as nought.      *)
Checks(s) == {s[Len(s) - 1], s[Len(s)]}
SlipsCaught ==
    paper.kind \in {"cpf", "cnpj"} /\ owns \notin {<<>>, paper.number} => 0 \in Checks(paper.number)

(* Somebody is let in from their eighteenth birthday on, which is never    *)
(* earlier than its date, leap years or not.                               *)
OfAge == \A form \in Forms :
    LET eighteenth == [form.birth EXCEPT ![1] = @ + MinimumAge]
    IN  form.birth # <<>> /\ form.birth[1] >= 1900 =>
            (BirthAccepted(form.birth, Todays[today]) <=> ~Later(eighteenth, Todays[today]))

(* Editing something else keeps the document.                              *)
DocumentKept == stored.document = owns

(* A number proven is written one way, and stays so when written again.    *)
PhoneSettled == phone # <<>> => NormalizePhone(phone) = phone

IdentitySound == SlipsCaught /\ OfAge /\ DocumentKept /\ PhoneSettled
=============================================================================
