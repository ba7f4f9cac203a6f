----------------------------- MODULE MCMailAuth -----------------------------
(* Two sessions and two domains, with a cache of one entry.                  *)
EXTENDS MailAuth, TLC

CONSTANTS s1, s2, d1, d2

Mech(q, net) == [qualifier |-> q, net |-> net]
Error(e) == [err |-> e, records |-> <<>>]
Txt(records) == [err |-> "nil", records |-> records]

OnlyS1 == <<Mech("Neutral", {}), Mech("Pass", {s1}), Mech("Fail", {s1, s2})>>
Broken == <<Mech("SoftFail", {s2}), Mech("Pass", Nil), Mech("Pass", {s1, s2})>>

MCAnswers ==
    {Error("notfound"), Error("dns"), Txt(<<OnlyS1>>), Txt(<<Broken>>), Txt(<<OnlyS1, Broken>>)}

MCSubdomainOf == {<<d2, d1>>}
MCDmarcRecords ==
    d1 :> [Policy |-> "reject", SPFAlignment |-> "r", DKIMAlignment |-> "s"] @@ d2 :> Nil
MCVerifications ==
    {<<>>, <<[err |-> "temp", domain |-> d1]>>,
     <<[err |-> "perm", domain |-> d2], [err |-> "nil", domain |-> d1]>>}
=============================================================================
