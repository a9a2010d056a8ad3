----------------------------- MODULE MCPlatform -----------------------------
(* The constants of every part, small. *)
EXTENDS Platform

CONSTANTS r1, r2, r3, m1

-----------------------------------------------------------------------------
(* Guidance: one contact and one threshold are declared, one contact is not. *)

MCBodies == {("tol" :> "v2") @@ ("ghost" :> "v1"), ("owner" :> "v1"),
             ("tol" :> "v2") @@ ("owner" :> "null")}
Objects(p, t, m) == [pdf |-> p, txt |-> t, md |-> m]
MCCorpora == {Objects("absent", "rule", "empty"), Objects("rule", "denied", "absent")}

-----------------------------------------------------------------------------
(* Precedents: two cases of one type and band, a third of another; an exemplar a type. *)

MCType     == ("c1" :> "A") @@ ("c2" :> "A") @@ ("c3" :> "B")
MCSupplier == ("c1" :> "s1") @@ ("c2" :> "s2") @@ ("c3" :> "s1")
MCAmount   == ("c1" :> 50) @@ ("c2" :> 60) @@ ("c3" :> 100)

-----------------------------------------------------------------------------
(* Intake: two cases whose ids differ in trailing zeros, one of them in two spellings, an
   id with a stray full stop and one with a word missing. *)

Setting(s, c, q) == [secret |-> s, channel |-> c, queue |-> q]
MCWebhookSettings == {Setting(TRUE, "jira", TRUE), Setting(TRUE, "ses", TRUE), Setting(FALSE, "ses", FALSE)}

Word(s, c, z) == [stem |-> s, chars |-> c, zeros |-> z, legal |-> TRUE]
Junk == [stem |-> "2026.", chars |-> 5, zeros |-> 0, legal |-> FALSE]
Stem == Word("doc", 4, 0)
One  == <<Stem, Word("item", 1, 0)>>
Two  == <<Stem, Word("item", 1, 4)>>
Spelt(w, p) == [words |-> w, sep |-> p]
Study == Spelt(<<Word("case", 4, 0), Word("study", 5, 0)>>, "-")
MCSpellings == {Study, Spelt(One, "-"), Spelt(One, "#"), Spelt(Two, "-"), Spelt(<<Stem, Junk>>, "-"),
                Spelt(<<Stem>>, "-")}
Text(e, w, o) == [explicit |-> e, word |-> w, order |-> o]
MCTexts == {Text(Spelt(One, "-"), None, FALSE), Text(Spelt(One, "#"), Study, FALSE),
            Text(Spelt(Two, "-"), None, TRUE), Text(Spelt(<<Stem, Junk>>, "-"), None, FALSE),
            Text(None, Study, FALSE), Text(None, None, TRUE), Text(None, None, FALSE)}
MCRecords ==
  {[source |-> "ses", body |-> b, subject |-> s, field |-> None] : b \in MCTexts, s \in MCTexts}
  \cup {[source |-> s, body |-> t, subject |-> t, field |-> f] :
          s \in {"servicenow", "jira", "other"}, t \in MCTexts,
          f \in {None, Spelt(One, "-"), Spelt(<<Stem>>, "-")}}

-----------------------------------------------------------------------------
(* SapFeed: the invoice domain, whose lines may be blank, skipped, illegal or no number. *)

Invoice(d, y, a, ls) ==
  [fields |-> ("SupplierInvoice" :> d) @@ ("FiscalYear" :> y) @@ ("Amount" :> a), lines |-> ls]
OrderLine(po, q) == ("PurchaseOrder" :> po) @@ ("Quantity" :> q)
Invoices == {Invoice("4500", "2026", "12", <<OrderLine("A", "12"), OrderLine("", "0")>>),
             Invoice("4500", "", "", <<>>),
             Invoice("4501", "2026", "text", <<OrderLine("A", "")>>),
             Invoice("", "2026", "12", <<OrderLine("A", "12")>>),
             Invoice("4500/2", "2026", "0", <<OrderLine("A", "12")>>),
             Invoice("4502", "2026", "12", <<OrderLine("", "0"), OrderLine("A", "12")>>)}
MCFeeds == {<<e>> : e \in Invoices} \cup {<<e, f>> : e \in Invoices, f \in Invoices}
FieldKey(f, fallback) == [scope |-> "parent", field |-> f, fallback |-> fallback, index |-> FALSE]
Map(s, f, c, o) == [scope |-> s, field |-> f, cast |-> c, omit |-> o]
Condition(o, s, f) == [op |-> o, scope |-> s, field |-> f]
MCConfig ==
  [by_line |-> TRUE, allow_empty |-> TRUE,
   document |-> FieldKey("SupplierInvoice", ""), item |-> FieldKey("FiscalYear", "0001"),
   skip_when |-> {Condition("blank", "parent", "SupplierInvoice"),
                  [op |-> "and", conditions |-> {Condition("lte", "child", "Quantity"),
                                                 Condition("present", "parent", "FiscalYear")}]},
   types |-> <<[when |-> Condition("present", "child", "PurchaseOrder"), then |-> "matched"]>>,
   default |-> "invoice_matching",
   mapped |-> ("amount" :> Map("parent", "Amount", TRUE, FALSE))
              @@ ("po" :> Map("child", "PurchaseOrder", FALSE, TRUE))
              @@ ("qty" :> Map("any", "Quantity", TRUE, TRUE))]

-----------------------------------------------------------------------------
(* WriteReview: two documents; a call may name no key at all. One answer begins with a navigation property. *)

MCKeyOf == ("k1" :> "d1") @@ ("k2" :> "d2") @@ ("" :> "d1")
MCAnswers == {<<"items", "price", "qty">>, <<"qty", "price">>}
Payload(o, k) == [op |-> o, key |-> k, sets |-> ("price" :> 1)]
MCPayloads == {Payload("update", "k1"), Payload("create", ""), Payload("function_import", "k1")}
Claim(f, c) == [name |-> f, current |-> c, proposed |-> 1]
Proposal(o, k, fs) == [op |-> o, key |-> k, fields |-> fs]
MCProposals == {Proposal("update", "k1", <<Claim("price", 0)>>),
                Proposal("update", "", <<Claim("", 0), Claim("price", Unsaid)>>),
                Proposal("delete", "k1", <<Claim("price", 0)>>)}

-----------------------------------------------------------------------------
(* Provision: templates that differ in code, in identity provider, in policies and mode. *)

Template(c, e, a, p, m) ==
  [code |-> c, endpoints |-> e, url |-> "idp", client |-> a, policies |-> p, mode |-> m]
MCTemplates == {Template("v1", "", "app", <<"reads", "writes">>, "LOG_ONLY"),
                Template("v2", "", "app", <<"reads">>, "ENFORCE"),
                Template("v1", "xsuaa", "", <<"reads", "writes">>, "ENFORCE")}
MCSecrets == {[client |-> "", value |-> "plain"], [client |-> "sap", value |-> "json"]}

-----------------------------------------------------------------------------
(* Launch: one Lambda that reads SAP credentials and one that does not. *)

MCHomeOf == ("api" :> "backend") @@ ("poller" :> "backend")
MCLocal  == ("sops" :> {"a"})
MCStray  == ("sops" :> {"old"})

-----------------------------------------------------------------------------
(* AuthProfile: every combination of two providers, the modes and two flows, and a profile
   each that is in no catalog, acts for Okta's users or has the remaining values. *)

Tuple(f, i, m, o) == [frontend |-> f, inbound |-> i, modes |-> m, outbound |-> o]
MCBasic == Tuple("cognito", "cognito", {"autonomous", "live"}, "basic")
MCEntra == Tuple("direct-entra", "entra", {"live"}, "obo")
MCOkta  == Tuple("direct-okta", "okta", {"live"}, "basic")
MCSelectable ==
  {p \in Profile : /\ p.frontend \in {"cognito", "direct-entra"} /\ p.inbound \in {"cognito", "entra"}
                   /\ p.outbound \in {"basic", "obo"}}
  \cup {MCOkta, Tuple("cognito", "okta", {"live"}, "basic"),
        Tuple("direct-okta", "okta", {"live"}, "obo-okta"),
        Tuple("cognito", "entra", {"live", "autonomous"}, "m2m-sap"),
        Tuple("cognito+federated", "cognito", {"live", "batch"}, "m2m-oidc"),
        Tuple("cognito+federated", "cognito", {"live"}, "user-federation")}
MCCatalog == MCSelectable \ {Tuple("cognito", "okta", {"live"}, "basic")}
MCChoice(p, m) == [profile |-> p, clients |-> TRUE, login |-> TRUE, mcp |-> m, runtime |-> "M2M"]
MCEdited == {MCChoice(MCOkta, FALSE)}
MCExported == {[profile |-> MCEntra, clients |-> TRUE], [profile |-> MCBasic, clients |-> FALSE]}

-----------------------------------------------------------------------------
(* SiteDeploy: of two people on CDK one brings his own issuer, a third is on Terraform. *)

MCIssuers == ("op1" :> FALSE) @@ ("op2" :> TRUE) @@ ("tf" :> FALSE)
=============================================================================
