---------------------------- MODULE MCBackstage ----------------------------
(* Small instances of the parts backstage.                                 *)
EXTENDS Backstage, TLC

CONSTANTS
    one, two,   \* the requests, runs or replicas that meet
    x, y        \* replicas of the gate

BackstageSymmetry == Permutations({one, two}) \cup Permutations({x, y})

(* One provider's disputes, the other's refunds and its charges paid or    *)
(* declined.                                                               *)
MCTurns ==
    {<<"PENDING", "RECEIVED">>,
     <<"pending", "in_process">>, <<"in_process", "approved">>, <<"in_process", "rejected">>,
     <<"approved", "in_mediation">>, <<"in_mediation", "charged_back">>}

(* A receipt, two codes for one phone, and a message nobody carries.       *)
MCKeyOf == <<"receipt", "whatsapp code", "whatsapp code", "sms">>
MCTemplate == <<"order_confirmed", "sign_in_code", "sign_in_code", "sign_in_code">>
MCChannel == <<"email", "whatsapp", "whatsapp", "sms">>

(* A guest and an account, in two towns, on both sides of eighteen; one of *)
(* them took two chairs of a tier, and a place that has none.              *)
MCBook ==
    (1 :> [event |-> "gig", buyer |-> "u", city |-> "Natal", age |-> 18, lines |-> <<<<1, 1>>, <<1, 1>>, <<2, 1>>>>])
 @@ (2 :> [event |-> "gig", buyer |-> "", city |-> "Mossoro", age |-> 19, lines |-> <<<<1, 1>>>>])
MCOwnerOf == "gig" :> "ana" @@ "fair" :> "bia"

(* Two owners used one name, one of them twice.                            *)
Priced(owner, drawn) == [owner |-> owner, name |-> "gig", drawn |-> drawn]
Order(tier, quantity, total, new) == [tier |-> tier, quantity |-> quantity, total |-> total, new |-> new]
MCTiers == <<Priced("ana", FALSE), Priced("ana", TRUE), Priced("bia", TRUE)>>
MCSales == <<Order(2, 2, 6, FALSE), Order(3, 1, 0, FALSE), Order(1, 1, 3, TRUE)>>
MCRules == <<"dedupe", "payment">>
MCSpeed == <<"pending">>

(* Two chairs on two lines, a line of two, and an order paid meanwhile.    *)
Line(name, quantity, chair) == [tier |-> name, quantity |-> quantity, chair |-> chair]
MCLinesOf ==
    <<<<Line("stalls", 1, "a1"), Line("stalls", 1, "a2")>>, <<Line("floor", 2, "")>>, <<Line("floor", 1, "")>>,
      <<Line("floor", 1, "")>>>>

(* One buyer's checkouts, and sign-ins to her account from one address.    *)
MCJourneys ==
    {[kind |-> "checkout", budgets |-> <<"checkout:user:ana">>],
     [kind |-> "login", budgets |-> <<"auth:ip:hall", "login:email:ana">>]}
MCLimitOf == "checkout:user:ana" :> 1 @@ "auth:ip:hall" :> 2 @@ "login:email:ana" :> 1

(* A CPF, a CNPJ and a passport; birthdays on both sides of a leap day.    *)
MCStems == [cpf |-> {<<5, 2, 9, 9, 8, 2, 2, 4, 7>>}, cnpj |-> {<<1, 1, 2, 2, 2, 3, 3, 3, 0, 0, 0, 1>>}]
MCPassports == {<<10, 11, 1, 2, -2, 3, 4>>}
Form(birth, name, gender, uf) == [birth |-> birth, name |-> name, gender |-> gender, uf |-> uf]
MCForms ==
    {Form(<<2008, 2, 29>>, "full", "", ""), Form(<<2008, 9, 13>>, "full", "female", "RN"),
     Form(<<>>, "", "", ""), Form(<<2000, 1, 1>>, "short", "", ""), Form(<<2000, 1, 1>>, "full", "", "XX")}
MCTodays == <<<<2026, 2, 28>>, <<2026, 9, 12>>, <<2026, 9, 13>>>>
MCPhones == {<<8, 4, -2, 9, 9, 4, 4, 0, -1, 9, 6, 2, 4>>, <<1, 2, 3>>}

(* Two shows on one night in a city spelt two ways, and a play with no     *)
(* tickets.                                                                *)
Show(owner, city, category, starts, created) ==
    [owner |-> owner, city |-> city, category |-> category, starts |-> starts, created |-> created]
MCCard ==
    <<Show("ana", "Natal", "show", 2, 1), Show("ana", "NATAL", "show", 2, 1), Show("bia", "", "play", 1, 2)>>
MCTiersOf == <<(1 :> 5 @@ 2 :> 0), (1 :> 5), <<>>>>
MCCities == "Natal" :> "natal" @@ "NATAL" :> "natal" @@ "" :> ""
Anything ==
    [owner |-> "", status |-> "", ids |-> {}, city |-> "", category |-> "", from |-> 0, until |-> 9,
     available |-> FALSE, most |-> -1, free |-> FALSE, sort |-> "starts_at"]
MCFilters ==
    {Anything, [Anything EXCEPT !.sort = "price", !.city = "Natal"],
     [Anything EXCEPT !.available = TRUE, !.sort = "relevance"],
     [Anything EXCEPT !.free = TRUE, !.sort = "created_at"],
     [Anything EXCEPT !.most = 4, !.from = 2], [Anything EXCEPT !.ids = {1, 3}]}
=============================================================================
