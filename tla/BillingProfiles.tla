--------------------------- MODULE BillingProfiles ---------------------------
(***************************************************************************)
(* The billing profiles of one client under concurrent HTTP requests.      *)
(* Each session is one request with its own AsyncSession and Postgres      *)
(* transaction (READ COMMITTED): every statement is a step, writes stay    *)
(* private (pend) and lock their row until the route commits.              *)
(* Statements of api/services/billing_profile_service.py are steps of a    *)
(* session; the locking and unique-index rules are Postgres's, external.   *)
(***************************************************************************)
EXTENDS BillingTable

CONSTANTS Sessions,    \* requests that may run at the same time
          Unwritten    \* a session has not written this row (or column)

ASSUME UnwrittenAssumption ==
    /\ Unwritten \notin [tax : TaxIds, dflt : BOOLEAN] \cup {NoRow}
    /\ Unwritten \notin TaxIds

VARIABLES db,     \* the committed table
          pend,   \* the uncommitted row versions of each session; they are its row locks
          pc,     \* the next statement of each session
          loc     \* its locals: the request, and what it has loaded

vars == <<db, pend, pc, loc>>

Atomic == INSTANCE BillingAtomic WITH rows <- db

Version == Rows \cup {NoRow}
NoRequest == [kind |-> "none", id |-> 0, tax |-> Unwritten, dflt |-> FALSE,
              heir |-> 0, todo |-> {}]
Clean == [p \in Profiles |-> Unwritten]

-----------------------------------------------------------------------------
(* What Postgres gives a session.                                          *)

\* The table as session s reads it: the last commit, under its own writes.
View(s) == [p \in Profiles |-> IF pend[s][p] = Unwritten THEN db[p] ELSE pend[s][p]]

HoldsRow(u, p) == pend[u][p] # Unwritten

\* u is adding or removing a row version with this tax id.
HoldsKey(u, tax) ==
    \E p \in Profiles : /\ HoldsRow(u, p)
                       /\ \/ pend[u][p] # NoRow /\ pend[u][p].tax = tax
                          \/ db[p] # NoRow /\ db[p].tax = tax

RowFree(s, p)   == \A u \in Sessions \ {s} : ~HoldsRow(u, p)
KeyFree(s, tax) == \A u \in Sessions \ {s} : ~HoldsKey(u, tax)

Goto(s, step) == pc' = [pc EXCEPT ![s] = step]

\* A statement that writes nothing, and one that writes (and so locks) row p.
Advance(s, step) == Goto(s, step) /\ UNCHANGED <<db, pend, loc>>
Write(s, p, version, step) == /\ pend' = [pend EXCEPT ![s][p] = version]
                              /\ Goto(s, step)
                              /\ UNCHANGED <<db, loc>>

Start(s, step, request) == /\ pc[s] = "idle"
                           /\ Goto(s, step)
                           /\ loc' = [loc EXCEPT ![s] = request]
                           /\ UNCHANGED <<db, pend>>

\* Mutant: the session goes back to the pool without ROLLBACK.
RollbackKeepsLocks(s) == /\ Goto(s, "idle")
                         /\ loc' = [loc EXCEPT ![s] = NoRequest]
                         /\ UNCHANGED <<db, pend>>

\* session.rollback(), by the handler or by get_async_session on any exception
Rollback(s) == /\ Goto(s, "idle")
               /\ loc'  = [loc EXCEPT ![s] = NoRequest]
               /\ pend' = [pend EXCEPT ![s] = Clean]
               /\ UNCHANGED db

\* await session.commit() in the route
Commit(s) == /\ pc[s] = "commit"
             /\ db'   = View(s)
             /\ Goto(s, "idle")
             /\ loc'  = [loc EXCEPT ![s] = NoRequest]
             /\ pend' = [pend EXCEPT ![s] = Clean]

-----------------------------------------------------------------------------
(* create_for_client                                                       *)

\* Ids that name a row, or that an open request refers to: created_at, and so the id, of a
\* new profile comes after these.
UsedIds == Live(db) \cup UNION {{loc[s].id, loc[s].heir} \cup loc[s].todo : s \in Sessions}

BeginCreate(s) ==
    /\ "create" \in Kinds
    /\ \E p \in Profiles, tax \in TaxIds, want \in BOOLEAN :
          /\ p - 1 \in UsedIds
          /\ \A q \in UsedIds : q < p
          /\ ~TaxTaken(View(s), tax, Profiles)
          /\ Start(s, "count", [NoRequest EXCEPT !.kind = "create", !.id = p, !.tax = tax,
                                                !.dflt = want])

CountProfiles(s) ==
    /\ pc[s] = "count"
    /\ \/ /\ Live(View(s)) = {}
          /\ loc' = [loc EXCEPT ![s].dflt = TRUE]
          /\ Goto(s, "insert")
       \/ /\ Live(View(s)) # {}
          /\ Goto(s, IF loc[s].dflt THEN "bulk" ELSE "insert")
          /\ UNCHANGED loc
    /\ UNCHANGED <<db, pend>>

\* Mutant: no unique constraint behind _assert_unique_tax_id.
InsertUnchecked(s) == /\ pc[s] = "insert"
                      /\ Write(s, loc[s].id, [tax |-> loc[s].tax, dflt |-> loc[s].dflt],
                               "commit")

\* The INSERT waits for a transaction that holds the same key, then takes the key or fails.
InsertProfile(s) ==
    /\ pc[s] = "insert"
    /\ KeyFree(s, loc[s].tax)
    /\ IF TaxTaken(View(s), loc[s].tax, Profiles)
       THEN Rollback(s)
       ELSE Write(s, loc[s].id, [tax |-> loc[s].tax, dflt |-> loc[s].dflt], "commit")

-----------------------------------------------------------------------------
(* The bulk UPDATE ... SET is_default = FALSE of create_for_client and      *)
(* set_default: the rows are those committed when the statement starts, and *)
(* each is locked, and read again, when its turn comes.                     *)

\* Mutant: the UPDATE only looks at rows that are the default.
DemoteOnlyDefaults(s) ==
    /\ pc[s] = "bulk"
    /\ Goto(s, "demote")
    /\ loc' = [loc EXCEPT ![s].todo = {p \in Others(View(s), loc[s].id) : db[p].dflt}]
    /\ UNCHANGED <<db, pend>>

StartDemotion(s) ==
    /\ pc[s] = "bulk"
    /\ Goto(s, "demote")
    /\ loc' = [loc EXCEPT ![s].todo = Others(View(s), loc[s].id)]
    /\ UNCHANGED <<db, pend>>

DemoteRow(s, p) ==
    /\ pc[s] = "demote"
    /\ p \in loc[s].todo
    /\ RowFree(s, p)
    /\ IF db[p] = NoRow THEN UNCHANGED pend
                        ELSE pend' = [pend EXCEPT ![s][p] = [db[p] EXCEPT !.dflt = FALSE]]
    /\ loc' = [loc EXCEPT ![s].todo = @ \ {p}]
    /\ UNCHANGED <<db, pc>>

\* A flush writes only changed attributes: a profile loaded as the default is not updated.
EndDemotion(s) ==
    /\ pc[s] = "demote"
    /\ loc[s].todo = {}
    /\ Advance(s, IF loc[s].kind = "create" THEN "insert"
                  ELSE IF loc[s].dflt THEN "refresh" ELSE "promote")

-----------------------------------------------------------------------------
(* set_default, and the promotion it shares with delete                    *)

BeginSetDefault(s) ==
    /\ "set_default" \in Kinds
    /\ \E p \in Live(db) :
          Start(s, "bulk", [NoRequest EXCEPT !.kind = "set_default", !.id = p, !.heir = p,
                                             !.dflt = db[p].dflt])

\* flush of is_default = True; an UPDATE that finds no row is a StaleDataError
Promote(s) ==
    LET heir == loc[s].heir
    IN  /\ pc[s] = "promote"
        /\ RowFree(s, heir)
        /\ IF db[heir] = NoRow
           THEN Rollback(s)
           ELSE Write(s, heir, [View(s)[heir] EXCEPT !.dflt = TRUE],
                      IF loc[s].kind = "delete" THEN "remove" ELSE "refresh")

\* session.refresh(profile) raises when the row is gone
Refresh(s) ==
    /\ pc[s] = "refresh"
    /\ IF View(s)[loc[s].id] = NoRow
       THEN Rollback(s)
       ELSE Advance(s, "commit")

-----------------------------------------------------------------------------
(* delete                                                                  *)

BeginDelete(s) ==
    /\ "delete" \in Kinds
    /\ \E p \in Live(db) :
          Start(s, IF db[p].dflt THEN "siblings" ELSE "remove",
                [NoRequest EXCEPT !.kind = "delete", !.id = p])

\* Mutants of the choice of an heir: the default is removed without one, without a sibling
\* to be one, or the newest sibling is taken.
RemoveWithoutHeir(s) == /\ pc[s] = "siblings"
                        /\ IF Others(View(s), loc[s].id) = {}
                           THEN Rollback(s)
                           ELSE Advance(s, "remove")
RemoveOnlyProfile(s) == /\ pc[s] = "siblings"
                        /\ Others(View(s), loc[s].id) = {}
                        /\ Advance(s, "remove")
PromoteNewest(s) ==
    /\ pc[s] = "siblings"
    /\ \E h \in Others(View(s), loc[s].id) :
          /\ \A q \in Others(View(s), loc[s].id) : q <= h
          /\ loc' = [loc EXCEPT ![s].heir = h]
          /\ Goto(s, "promote")
    /\ UNCHANGED <<db, pend>>

SelectSiblings(s) ==
    LET others == Others(View(s), loc[s].id)
    IN  /\ pc[s] = "siblings"
        /\ \/ others = {} /\ Rollback(s)
           \/ \E h \in others :
                 /\ Oldest(h, others)
                 /\ loc' = [loc EXCEPT ![s].heir = h]
                 /\ Goto(s, IF db[h].dflt THEN "remove" ELSE "promote")
                 /\ UNCHANGED <<db, pend>>

\* A DELETE that finds no row only warns.
RemoveRow(s) ==
    LET p == loc[s].id
    IN  /\ pc[s] = "remove"
        /\ RowFree(s, p)
        /\ IF db[p] = NoRow THEN Advance(s, "commit") ELSE Write(s, p, NoRow, "commit")

-----------------------------------------------------------------------------
(* update                                                                  *)

BeginUpdate(s) ==
    /\ "update" \in Kinds
    /\ \E p \in Live(db), tax \in TaxIds :
          LET request == [NoRequest EXCEPT !.kind = "update", !.id = p]
          IN  IF db[p].tax = tax THEN Start(s, "write", request)
              ELSE Start(s, "check", [request EXCEPT !.tax = tax])

CheckTaxId(s) ==
    /\ pc[s] = "check"
    /\ IF TaxTaken(View(s), loc[s].tax, Profiles \ {loc[s].id})
       THEN Rollback(s)
       ELSE Advance(s, "write")

\* Mutants: the UPDATE always sets tax_id; a missing row is inserted.
WriteEveryColumn(s) == /\ pc[s] = "write"
                       /\ RowFree(s, loc[s].id)
                       /\ db[loc[s].id] # NoRow
                       /\ Write(s, loc[s].id, [db[loc[s].id] EXCEPT !.tax = loc[s].tax],
                                "refresh")
WriteOrInsert(s) == /\ pc[s] = "write"
                    /\ loc[s].tax # Unwritten
                    /\ RowFree(s, loc[s].id)
                    /\ Write(s, loc[s].id, [tax |-> loc[s].tax, dflt |-> FALSE], "refresh")

\* The UPDATE locks the row first; the other edited columns are not modelled.
WriteUpdate(s) ==
    LET p == loc[s].id
    IN  /\ pc[s] = "write"
        /\ RowFree(s, p)
        /\ IF db[p] = NoRow
           THEN Rollback(s)
           ELSE Write(s, p, db[p], IF loc[s].tax = Unwritten THEN "refresh" ELSE "key")

\* ... then the new version enters the unique index.
WriteKey(s) ==
    LET p == loc[s].id
    IN  /\ pc[s] = "key"
        /\ KeyFree(s, loc[s].tax)
        /\ IF TaxTaken(View(s), loc[s].tax, Profiles \ {p})
           THEN Rollback(s)
           ELSE Write(s, p, [View(s)[p] EXCEPT !.tax = loc[s].tax], "refresh")

-----------------------------------------------------------------------------
(* Failures                                                                *)

\* s cannot go on before u ends.
WaitsFor(s, u) ==
    LET t == loc[s]
    IN  /\ u # s
        /\ \/ /\ pc[s] = "demote"
              /\ \E p \in t.todo : HoldsRow(u, p)
              /\ \A p \in t.todo : ~RowFree(s, p)
           \/ pc[s] = "promote" /\ HoldsRow(u, t.heir)
           \/ pc[s] \in {"remove", "write"} /\ HoldsRow(u, t.id)
           \/ pc[s] \in {"insert", "key"} /\ HoldsKey(u, t.tax)

\* Postgres aborts a transaction that is part of a cycle of waits.
DeadlockVictim(s) ==
    /\ \E S \in SUBSET Sessions :
          /\ s \in S
          /\ \A x \in S : (\E y \in S : WaitsFor(x, y)) /\ (\E y \in S : WaitsFor(y, x))
    /\ Rollback(s)

\* The connection, or the whole API process, is lost before COMMIT.
ConnectionLost(s) == pc[s] # "idle" /\ Rollback(s)

-----------------------------------------------------------------------------
Init ==
    /\ db \in {t \in [Profiles -> Version] : Settled(t)}
    /\ pend = [s \in Sessions |-> Clean]
    /\ pc = [s \in Sessions |-> "idle"]
    /\ loc = [s \in Sessions |-> NoRequest]

Begin(s) == BeginCreate(s) \/ BeginSetDefault(s) \/ BeginDelete(s) \/ BeginUpdate(s)

\* One more statement of the request in session s.
Proceed(s) ==
    \/ CountProfiles(s) \/ InsertProfile(s)
    \/ StartDemotion(s) \/ (\E p \in Profiles : DemoteRow(s, p)) \/ EndDemotion(s)
    \/ Promote(s) \/ Refresh(s)
    \/ SelectSiblings(s) \/ RemoveRow(s)
    \/ CheckTaxId(s) \/ WriteUpdate(s) \/ WriteKey(s)
    \/ Commit(s)

Next == \E s \in Sessions :
            Begin(s) \/ Proceed(s) \/ DeadlockVictim(s) \/ ConnectionLost(s)

Spec == Init /\ [][Next]_vars

\* Lock queues are first come, first served, so a wait that ends again and again ends for s.
FairSpec == Spec /\ \A s \in Sessions : SF_vars(Proceed(s)) /\ WF_vars(DeadlockVictim(s))

-----------------------------------------------------------------------------
ControlStates == {"idle", "count", "insert", "bulk", "demote", "promote", "refresh",
                  "siblings", "remove", "check", "write", "key", "commit"}

Locals == [kind : {"none", "create", "set_default", "delete", "update"},
           id : Nat, tax : TaxIds \cup {Unwritten}, dflt : BOOLEAN, heir : Nat,
           todo : SUBSET Profiles]

TypeOK == /\ db \in [Profiles -> Version]
          /\ pend \in [Sessions -> [Profiles -> Version \cup {Unwritten}]]
          /\ pc \in [Sessions -> ControlStates]
          /\ loc \in [Sessions -> Locals]

\* uq_billing_profile_client_tax_id, which the two-step check-then-insert relies on: no
\* interleaving of creates, updates and deletes commits one tax id twice.
TaxIdUnique == UniqueTaxIds(db)

\* At most one profile is the default.  Concurrent promotions and edits keep this (their
\* bulk UPDATEs lock every row of the client); creates and deletes do not, see the README.
AtMostOneDefault == OneDefault(db)

\* Exactly one default whenever the client has profiles, when requests run one at a time.
ExactlyOneDefault == SomeDefault(db) /\ OneDefault(db)

\* set_default: "zero-default is impossible mid-flush".
DefaultNeverLost == SomeDefault(db)

\* Neither a late UPDATE (of an edit, or of a promotion) nor a rollback brings back a
\* profile that a committed DELETE removed.
DeletedStaysDeleted ==
    [][\A p \in Profiles : db[p] = NoRow /\ db'[p] # NoRow
          => \E s \in Sessions : loc[s].kind = "create" /\ loc[s].id = p]_vars

\* CannotDeleteOnlyDefaultError: "A client must always have at least one billing profile
\* once created."
NeverEmptied == [][Live(db) # {} => Live(db)' # {}]_vars

\* Every request ends: no wait on a row lock or on the tax id index is for ever.
RequestsFinish == \A s \in Sessions : pc[s] # "idle" ~> pc[s] = "idle"

\* One request at a time, the service does what BillingAtomic says.
ImplementsAtomic == Atomic!Spec
=============================================================================
