-------------------------------- MODULE MCHub --------------------------------
(* A small instance of Hub for TLC; Hub_all.cfg names the values.          *)
EXTENDS Hub

\* One order the platform's coupon and points pay for, one whose vendor bears
\* the coupon and whose delivery is free; a chart without two of the accounts.
MCDeal(net, tax, coupon, absorber, loyalty, waived, sold) ==
    [net |-> net, tax |-> tax, coupon |-> coupon, absorber |-> absorber, loyalty |-> loyalty,
     other |-> 20, delivery |-> 100, waived |-> waived, sold |-> sold]
MCDeals == {MCDeal(1000, 130, 100, "Platform", 50, FALSE, 1000),
            MCDeal(1000, 130, 100, "Vendor", 0, TRUE, 600)}
MCLedger == {"cash", "revenue", "vat", "coupon", "loyalty", "delivery", "clearing",
             "logistics", "commission", "vat input"}
MCCharts == {MCLedger, MCLedger \ {"clearing", "revenue"}}

\* setup_platform_accounts' names, each found by the keywords of its key.
MCKeywords == [
    clearing_vendor |-> <<"Clearing Account - Vendor", "Accounts Payable">>,
    clearing_logistics |-> <<"Clearing Account - Logistics", "Accounts Payable">>,
    vat_output |-> <<"Output VAT", "VAT">>, vat_input |-> <<"Input VAT", "VAT">>]
MCKeys == DOMAIN MCKeywords
MCOwnAccounts == {"Accounts Payable", "VAT"}
MCSetUp == <<"Clearing Account - Vendor - SM", "Clearing Account - Logistics - SM",
             "Input VAT - SM", "Output VAT - SM">>
MCMatching ==
    [w \in UNION {{MCKeywords[k][1], MCKeywords[k][2]} : k \in DOMAIN MCKeywords} |->
        CASE w = "Clearing Account - Vendor" -> {MCSetUp[1]}
          [] w = "Clearing Account - Logistics" -> {MCSetUp[2]}
          [] w = "Input VAT" -> {MCSetUp[3]}
          [] w = "Output VAT" -> {MCSetUp[4]}
          [] w = "VAT" -> {"VAT", MCSetUp[3], MCSetUp[4]}
          [] OTHER -> {w}]

\* An event published twice under one event_id, once with another content, and
\* that content's repetition under an id of its own.
MCIdOf == <<"a", "a", "b">>
MCTypeOf == <<"t", "t", "t">>
MCContentOf == <<"x", "y", "x">>

\* One vendor raises its price and then undercuts the other, who raises too.
MCPriceOf == [v \in {1, 2} |->
    IF v = 1 THEN [n \in 0..2 |-> <<5, 3, 6>>[n + 1]] ELSE [n \in 0..1 |-> <<4, 7>>[n + 1]]]
=============================================================================
