----------------------------- MODULE BillingTable -----------------------------
(***************************************************************************)
(* The rows of table billing_profiles that belong to one client, and the   *)
(* queries the service makes on them.  Every statement of the service is   *)
(* restricted to one client_id (or one id), so clients do not interact.    *)
(* Profiles are named by the order of their created_at.                    *)
(***************************************************************************)
EXTENDS Naturals

CONSTANTS Profiles,    \* profile ids, in the order of created_at
          TaxIds,      \* values of the tax_id column
          NoRow,       \* what a table holds under an id that has no row
          Kinds,       \* the requests that callers issue
          InitialCounts\* how many profiles the client may start with

ASSUME ProfilesAssumption == Profiles \subseteq Nat \ {0}
ASSUME NoRowAssumption    == NoRow \notin [tax : TaxIds, dflt : BOOLEAN]

Rows == [tax : TaxIds, dflt : BOOLEAN]

Live(t) == {p \in Profiles : t[p] # NoRow}
Others(t, p) == Live(t) \ {p}
Oldest(p, S) == p \in S /\ \A q \in S : p <= q
TaxTaken(t, tax, S) == \E p \in S : t[p] # NoRow /\ t[p].tax = tax

\* UPDATE billing_profiles SET is_default = FALSE over the rows S
Demote(t, S) == [p \in Profiles |-> IF p \in S /\ t[p] # NoRow
                                    THEN [t[p] EXCEPT !.dflt = FALSE] ELSE t[p]]

UniqueTaxIds(t) == \A p, q \in Live(t) : t[p].tax = t[q].tax => p = q
SomeDefault(t)  == Live(t) # {} => \E p \in Live(t) : t[p].dflt
OneDefault(t)   == \A p, q \in Live(t) : t[p].dflt /\ t[q].dflt => p = q

\* A table that a client may have before the requests modelled here: convert_from_lead
\* leaves none or one, and each later create or set_default keeps it in this shape.
Settled(t) == /\ t \in [Profiles -> Rows \cup {NoRow}]
              /\ \E n \in InitialCounts : Live(t) = Profiles \cap 1..n
              /\ UniqueTaxIds(t) /\ SomeDefault(t) /\ OneDefault(t)

=============================================================================
