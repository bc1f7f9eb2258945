----------------------------- MODULE MCAssembly -----------------------------
EXTENDS Assembly

MCOrder      == <<"docs/README.md", "guide", "req1", "adr1", "adr2">>
MCCollection == [f \in {"docs/README.md", "guide", "req1", "adr1", "adr2"} |->
                    CASE f = "docs/README.md" -> "overview"
                      [] f = "guide" -> "handbook"
                      [] f = "req1" -> "requirements"
                      [] OTHER -> "decisions"]
MCIds    == {"project", "guide-id", "REQ-001", "ADR-001", "ADR-002", "ADR-0001"}
MCPrefix == [i \in MCIds |-> CASE i = "REQ-001" -> "REQ"
                               [] i \in {"ADR-001", "ADR-002", "ADR-0001"} -> "ADR"
                               [] OTHER -> "none"]
MCNumber == [i \in MCIds |-> IF i = "ADR-002" THEN 2 ELSE 1]
MCReadme == [d \in {"docs/handbook"} |-> None]

Page(c, id) == [wellFormed |-> TRUE, collection |-> c, id |-> id, position |-> 1, status |-> "",
                supersededBy |-> None, related |-> {}, links |-> {}, images |-> {}, index |-> <<>>]
RowTo(c, f) == [section |-> c, links |-> <<f>>, purpose |-> TRUE]
Home(rows)  == [Page("overview", "project") EXCEPT !.index = rows]

Guide == [Page("handbook", "guide-id") EXCEPT !.links = {"docs/README.md", "req1"}, !.images = {"logo.png"},
                                              !.related = {"ADR-001"}]
Req   == [Page("requirements", "REQ-001") EXCEPT !.status = "accepted"]
Adr(id, status, by) == [Page("decisions", id) EXCEPT !.status = status, !.supersededBy = by]

Head1 == <<RowTo("handbook", "guide")>>
WithReq == <<RowTo("requirements", "req1")>>
Adrs    == <<RowTo("decisions", "adr1"), RowTo("decisions", "adr2")>>

MCDrafts == [f \in {"docs/README.md", "guide", "req1", "adr1", "adr2"} |->
    CASE f = "docs/README.md" -> {Garbled, Home(Head1 \o Adrs), Home(Head1 \o WithReq \o <<Adrs[2], Adrs[1]>>)}
      [] f = "guide" -> {[Guide EXCEPT !.links = {"docs/handbook", External}, !.images = {"docs/handbook"}]}
      [] f = "req1"  -> {Absent, [Req EXCEPT !.links = {Outside}]}
      [] f = "adr1"  -> {Adr("ADR-001", "accepted", None), Adr("ADR-002", "accepted", None)}
      [] f = "adr2"  -> {Adr("ADR-002", "superseded", "ADR-001"), Adr("ADR-002", "proposed", None),
                         Adr("ADR-0001", "accepted", None)}]

MCSeeds == {[f \in {"docs/README.md", "guide", "req1", "adr1", "adr2"} |->
    CASE f = "docs/README.md" -> Home(Head1 \o WithReq \o Adrs)
      [] f = "guide" -> [Guide EXCEPT !.links = {"docs/README.md"}]
      [] f = "req1"  -> Req
      [] f = "adr1"  -> Adr("ADR-001", "superseded", "ADR-002")
      [] f = "adr2"  -> Adr("ADR-002", "accepted", None)]}

Web(secret) == [kind |-> "web", credentials |-> secret]
MCEnvs == {[explicit |-> None, ci |-> Web(FALSE), origin |-> None],
           [explicit |-> None, ci |-> None, origin |-> Web(TRUE)],
           [explicit |-> None, ci |-> None, origin |-> [kind |-> "path", credentials |-> FALSE]]}

\* A requirement that names a replacement, as nothing refuses it.
MisusedSeeds == {[MCSeeds1 EXCEPT !["req1"] = [Req EXCEPT !.supersededBy = "ADR-002"]] : MCSeeds1 \in MCSeeds}
NoDrafts == [f \in {"docs/README.md", "guide", "req1", "adr1", "adr2"} |-> {}]
=============================================================================
