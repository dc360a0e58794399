---------------------------- MODULE BillingAtomic ----------------------------
(***************************************************************************)
(* What the billing-profile service promises for one client: every request *)
(* of api/services/billing_profile_service.py takes effect at once, on the *)
(* committed table.  BillingProfiles refines this when requests run one at *)
(* a time.                                                                 *)
(***************************************************************************)
EXTENDS BillingTable

VARIABLE rows

Init == rows \in {t \in [Profiles -> Rows \cup {NoRow}] : Settled(t)}

Create(p, tax, want) ==
    /\ "create" \in Kinds
    /\ \A q \in Live(rows) : q < p
    /\ ~TaxTaken(rows, tax, Profiles)
    /\ LET first == Live(rows) = {}
           base  == IF want /\ ~first THEN Demote(rows, Profiles) ELSE rows
       IN  rows' = [base EXCEPT ![p] = [tax |-> tax, dflt |-> first \/ want]]

Update(p, tax) ==
    /\ "update" \in Kinds
    /\ p \in Live(rows)
    /\ ~TaxTaken(rows, tax, Others(rows, p))
    /\ rows' = [rows EXCEPT ![p].tax = tax]

\* The default goes only if a sibling can be promoted in its place.
Delete(p) ==
    /\ "delete" \in Kinds
    /\ p \in Live(rows)
    /\ \/ ~rows[p].dflt /\ rows' = [rows EXCEPT ![p] = NoRow]
       \/ /\ rows[p].dflt
          /\ \E h \in Others(rows, p) :
                /\ Oldest(h, Others(rows, p))
                /\ rows' = [rows EXCEPT ![h].dflt = TRUE, ![p] = NoRow]

SetDefault(p) ==
    /\ "set_default" \in Kinds
    /\ p \in Live(rows)
    /\ rows' = [Demote(rows, Profiles) EXCEPT ![p].dflt = TRUE]

Next == \E p \in Profiles :
            \/ \E tax \in TaxIds, want \in BOOLEAN : Create(p, tax, want)
            \/ \E tax \in TaxIds : Update(p, tax)
            \/ Delete(p)
            \/ SetDefault(p)

Spec == Init /\ [][Next]_rows

-----------------------------------------------------------------------------
TypeOK == rows \in [Profiles -> Rows \cup {NoRow}]

\* A client with profiles has exactly one default one, and no tax id twice.
Consistent == UniqueTaxIds(rows) /\ SomeDefault(rows) /\ OneDefault(rows)

\* exceptions.py: "A client must always have at least one billing profile once created."
NeverEmptied == [][Live(rows) # {} => Live(rows)' # {}]_rows
=============================================================================
