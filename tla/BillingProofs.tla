---------------------------- MODULE BillingProofs ----------------------------
(***************************************************************************)
(* Theorems about BillingProfiles, for every set of profiles, tax ids and  *)
(* sessions.                                                               *)
(***************************************************************************)
EXTENDS BillingProfiles, TLAPS

-----------------------------------------------------------------------------
(* Typing.  The types alone are not inductive: a session reads back the row *)
(* versions it wrote, so one that has deleted a row must have nothing left  *)
(* to write, and the row whose key is being changed must exist.             *)

DeletesAreLast  == \A s \in Sessions, p \in Profiles : pend[s][p] = NoRow => pc[s] = "commit"
RequestsName    == \A s \in Sessions : pc[s] # "idle" => loc[s].id \in Profiles
KeysBelongToRow == \A s \in Sessions : pc[s] = "key" => pend[s][loc[s].id] # Unwritten
KeysAreGiven    == \A s \in Sessions :
                      /\ pc[s] \in {"count", "insert"} => loc[s].kind = "create"
                      /\ pc[s] = "key" \/ loc[s].kind = "create" => loc[s].tax # Unwritten

TypeInv == TypeOK /\ DeletesAreLast /\ RequestsName /\ KeysBelongToRow /\ KeysAreGiven

LEMMA NotARow == NoRow \notin Rows /\ Unwritten \notin Rows /\ Unwritten # NoRow
  BY NoRowAssumption, UnwrittenAssumption DEF Rows

LEMMA ViewType ==
    ASSUME TypeOK, NEW s \in Sessions
    PROVE  View(s) \in [Profiles -> Version]
  BY DEF TypeOK, View, Version

LEMMA NoRequestType == NoRequest \in Locals
  BY DEF NoRequest, Locals

LEMMA CleanType == Clean \in [Profiles -> Version \cup {Unwritten}]
  BY DEF Clean

LEMMA InitTypeInv == Init => TypeInv
  <1> SUFFICES ASSUME Init PROVE TypeInv
    OBVIOUS
  <1>1. TypeOK
    BY NoRequestType, CleanType DEF Init, TypeOK, ControlStates
  <1>2. QED
    BY <1>1, NotARow
       DEF Init, TypeInv, DeletesAreLast, RequestsName, KeysBelongToRow, KeysAreGiven,
           NoRequest, Clean

\* One lemma per way in which a step of a session may end.
LEMMA StartTypeInv ==
    ASSUME TypeInv, NEW s \in Sessions,
           NEW step \in ControlStates \ {"idle", "key", "insert"},
           NEW request \in Locals, request.id \in Profiles,
           step = "count" => request.kind = "create",
           request.kind = "create" => request.tax # Unwritten,
           Start(s, step, request)
    PROVE  TypeInv'
  BY DEF TypeInv, TypeOK, DeletesAreLast, RequestsName, KeysBelongToRow, KeysAreGiven,
         Start, Goto

LEMMA LocalTypeInv ==
    ASSUME TypeInv, NEW s \in Sessions, pc[s] \notin {"idle", "commit"},
           NEW step \in ControlStates \ {"idle", "key", "count"},
           step = "insert" => loc[s].kind = "create",
           NEW l \in Locals, l.kind = loc[s].kind, l.id = loc[s].id, l.tax = loc[s].tax,
           Goto(s, step), loc' = [loc EXCEPT ![s] = l], UNCHANGED <<db, pend>>
    PROVE  TypeInv'
  BY DEF TypeInv, TypeOK, DeletesAreLast, RequestsName, KeysBelongToRow, KeysAreGiven, Goto

LEMMA AdvanceTypeInv ==
    ASSUME TypeInv, NEW s \in Sessions, pc[s] \notin {"idle", "commit"},
           NEW step \in ControlStates \ {"idle", "key", "count"},
           step = "insert" => loc[s].kind = "create",
           Advance(s, step)
    PROVE  TypeInv'
  BY DEF TypeInv, TypeOK, DeletesAreLast, RequestsName, KeysBelongToRow, KeysAreGiven,
         Advance, Goto

LEMMA WriteTypeInv ==
    ASSUME TypeInv, NEW s \in Sessions, pc[s] \notin {"idle", "commit"},
           NEW step \in ControlStates \ {"idle", "count", "insert"},
           NEW p, NEW version,
           p \in Profiles => version \in Version /\ (version = NoRow => step = "commit"),
           step = "key" => p = loc[s].id /\ loc[s].tax # Unwritten,
           Write(s, p, version, step)
    PROVE  TypeInv'
  <1> USE NotARow
  <1>1. TypeOK'
    BY DEF TypeInv, TypeOK, Write, Goto
  <1>2. DeletesAreLast'
    BY DEF TypeInv, TypeOK, DeletesAreLast, Write, Goto
  <1>3. RequestsName'
    BY DEF TypeInv, TypeOK, RequestsName, Write, Goto
  <1>4. KeysBelongToRow'
    BY DEF TypeInv, TypeOK, RequestsName, KeysBelongToRow, Write, Goto, Version
  <1>5. KeysAreGiven'
    BY DEF TypeInv, TypeOK, KeysAreGiven, Write, Goto
  <1>6. QED
    BY <1>1, <1>2, <1>3, <1>4, <1>5 DEF TypeInv

LEMMA RollbackTypeInv ==
    ASSUME TypeInv, NEW s \in Sessions, Rollback(s)
    PROVE  TypeInv'
  <1>1. TypeOK'
    BY NoRequestType, CleanType DEF TypeInv, TypeOK, Rollback, Goto, ControlStates
  <1>2. QED
    BY <1>1, NotARow
       DEF TypeInv, TypeOK, DeletesAreLast, RequestsName, KeysBelongToRow,
           KeysAreGiven, Rollback, Goto, NoRequest, Clean

LEMMA CommitTypeInv ==
    ASSUME TypeInv, NEW s \in Sessions, Commit(s)
    PROVE  TypeInv'
  <1>1. TypeOK'
    BY NoRequestType, CleanType, ViewType DEF TypeInv, TypeOK, Commit, Goto, ControlStates
  <1>2. QED
    BY <1>1, NotARow
       DEF TypeInv, TypeOK, DeletesAreLast, RequestsName, KeysBelongToRow,
           KeysAreGiven, Commit, Goto, NoRequest, Clean

LEMMA StepTypeInv ==
    ASSUME TypeInv, [Next]_vars
    PROVE  TypeInv'
  <1> USE DEF ControlStates
  <1>1. ASSUME NEW s \in Sessions, BeginCreate(s) PROVE TypeInv'
    BY <1>1, StartTypeInv, ProfilesAssumption, UnwrittenAssumption DEF BeginCreate, NoRequest, Locals
  <1>2. ASSUME NEW s \in Sessions, BeginSetDefault(s) PROVE TypeInv'
    <2>1. PICK p \in Live(db) :
              Start(s, "bulk", [NoRequest EXCEPT !.kind = "set_default", !.id = p, !.heir = p,
                                                 !.dflt = db[p].dflt])
      BY <1>2 DEF BeginSetDefault
    <2>2. p \in Profiles /\ db[p].dflt \in BOOLEAN
      BY DEF TypeInv, TypeOK, Live, Version, Rows
    <2>3. QED
      BY <2>1, <2>2, StartTypeInv, ProfilesAssumption DEF NoRequest, Locals
  <1>3. ASSUME NEW s \in Sessions, BeginDelete(s) PROVE TypeInv'
    BY <1>3, StartTypeInv, ProfilesAssumption DEF BeginDelete, NoRequest, Locals, Live
  <1>4. ASSUME NEW s \in Sessions, BeginUpdate(s) PROVE TypeInv'
    BY <1>4, StartTypeInv, ProfilesAssumption DEF BeginUpdate, NoRequest, Locals, Live
  <1>5. ASSUME NEW s \in Sessions, CountProfiles(s) PROVE TypeInv'
    <2>1. loc[s] \in Locals /\ pc[s] = "count" /\ loc[s].kind = "create"
      BY <1>5 DEF CountProfiles, TypeInv, TypeOK, KeysAreGiven
    <2>2. CASE Live(View(s)) = {}
      <3>1. loc' = [loc EXCEPT ![s] = [loc[s] EXCEPT !.dflt = TRUE]] /\ Goto(s, "insert")
        BY <1>5, <2>2 DEF CountProfiles
      <3>2. [loc[s] EXCEPT !.dflt = TRUE] \in Locals
        BY <2>1 DEF Locals
      <3>3. QED
        BY <1>5, <2>1, <3>1, <3>2, LocalTypeInv DEF CountProfiles, Locals
    <2>3. CASE Live(View(s)) # {}
      <3>1. Advance(s, "bulk") \/ Advance(s, "insert")
        BY <1>5, <2>3 DEF CountProfiles, Advance
      <3>2. QED
        BY <2>1, <3>1, AdvanceTypeInv
    <2>4. QED
      BY <2>2, <2>3
  <1>6. ASSUME NEW s \in Sessions, InsertProfile(s) PROVE TypeInv'
    <2>1. [tax |-> loc[s].tax, dflt |-> loc[s].dflt] \in Rows
      BY <1>6 DEF InsertProfile, TypeInv, TypeOK, KeysAreGiven, Locals, Rows
    <2>2. QED
      BY <1>6, <2>1, RollbackTypeInv, WriteTypeInv, NotARow DEF InsertProfile, Version
  <1>7. ASSUME NEW s \in Sessions, StartDemotion(s) PROVE TypeInv'
    <2> DEFINE l == [loc[s] EXCEPT !.todo = Others(View(s), loc[s].id)]
    <2>1. l \in Locals /\ l.kind = loc[s].kind /\ l.id = loc[s].id /\ l.tax = loc[s].tax
      BY DEF Others, Live, TypeInv, TypeOK, Locals
    <2>2. loc' = [loc EXCEPT ![s] = l]
      BY <1>7 DEF StartDemotion
    <2>3. QED
      BY <1>7, <2>1, <2>2, LocalTypeInv DEF StartDemotion
  <1>8. ASSUME NEW s \in Sessions, NEW p \in Profiles, DemoteRow(s, p) PROVE TypeInv'
    <2> DEFINE l == [loc[s] EXCEPT !.todo = @ \ {p}]
    <2>1. pc' = pc /\ db' = db /\ loc' = [loc EXCEPT ![s] = l]
      BY <1>8 DEF DemoteRow
    <2>2. l \in Locals /\ l.kind = loc[s].kind /\ l.id = loc[s].id /\ l.tax = loc[s].tax
      BY DEF TypeInv, TypeOK, Locals
    <2>3. \/ pend' = pend
          \/ \E row \in Rows : pend' = [pend EXCEPT ![s][p] = row]
      <3>1. db[p] # NoRow => [db[p] EXCEPT !.dflt = FALSE] \in Rows
        BY DEF TypeInv, TypeOK, Version, Rows
      <3>2. QED
        BY <1>8, <3>1 DEF DemoteRow
    <2> HIDE DEF l
    <2>4. TypeOK'
      <3>1. pend' \in [Sessions -> [Profiles -> Version \cup {Unwritten}]]
        BY <2>3 DEF TypeInv, TypeOK, Version
      <3>2. loc' \in [Sessions -> Locals]
        BY <2>1, <2>2 DEF TypeInv, TypeOK
      <3>3. QED
        BY <2>1, <3>1, <3>2 DEF TypeInv, TypeOK
    <2>5. DeletesAreLast'
      BY <2>1, <2>3, NotARow DEF TypeInv, TypeOK, DeletesAreLast
    <2>8. KeysBelongToRow'
      BY <1>8, <2>1, <2>2, <2>3, NotARow
         DEF DemoteRow, TypeInv, TypeOK, KeysBelongToRow, RequestsName
    <2>6. RequestsName' /\ KeysAreGiven'
      BY <2>1, <2>2 DEF TypeInv, TypeOK, RequestsName, KeysAreGiven
    <2>7. QED
      BY <2>4, <2>5, <2>6, <2>8 DEF TypeInv
  <1>9. ASSUME NEW s \in Sessions, EndDemotion(s) PROVE TypeInv'
    BY <1>9, AdvanceTypeInv DEF EndDemotion
  <1>10. ASSUME NEW s \in Sessions, Promote(s) PROVE TypeInv'
    <2>1. CASE db[loc[s].heir] = NoRow
      BY <1>10, <2>1, RollbackTypeInv DEF Promote
    <2>2. CASE db[loc[s].heir] # NoRow
      <3>1. ASSUME loc[s].heir \in Profiles PROVE View(s)[loc[s].heir] \in Rows
        BY <1>10, <2>2, <3>1 DEF Promote, View, TypeInv, TypeOK, DeletesAreLast, Version
      <3>2. ASSUME loc[s].heir \in Profiles
            PROVE  [View(s)[loc[s].heir] EXCEPT !.dflt = TRUE] \in Rows
        BY <3>1, <3>2 DEF Rows
      <3> DEFINE step == IF loc[s].kind = "delete" THEN "remove" ELSE "refresh"
      <3>3. /\ pc[s] = "promote"
            /\ Write(s, loc[s].heir, [View(s)[loc[s].heir] EXCEPT !.dflt = TRUE], step)
        BY <1>10, <2>2 DEF Promote
      <3>4. step \in {"remove", "refresh"}
        OBVIOUS
      <3>5. QED
        BY <3>2, <3>3, <3>4, WriteTypeInv, NotARow DEF Version
    <2>3. QED
      BY <2>1, <2>2
  <1>11. ASSUME NEW s \in Sessions, Refresh(s) PROVE TypeInv'
    BY <1>11, RollbackTypeInv, AdvanceTypeInv DEF Refresh
  <1>12. ASSUME NEW s \in Sessions, SelectSiblings(s) PROVE TypeInv'
    <2>1. CASE Rollback(s)
      BY <2>1, RollbackTypeInv
    <2>2. CASE ~Rollback(s)
      <3>1. PICK h \in Others(View(s), loc[s].id) :
                /\ loc' = [loc EXCEPT ![s] = [loc[s] EXCEPT !.heir = h]]
                /\ Goto(s, IF db[h].dflt THEN "remove" ELSE "promote")
                /\ pc[s] = "siblings" /\ UNCHANGED <<db, pend>>
        BY <1>12, <2>2 DEF SelectSiblings
      <3>2. h \in Nat /\ loc[s] \in Locals
        BY ProfilesAssumption DEF Others, Live, TypeInv, TypeOK
      <3> DEFINE l == [loc[s] EXCEPT !.heir = h]
      <3>3. l \in Locals /\ l.kind = loc[s].kind /\ l.id = loc[s].id /\ l.tax = loc[s].tax
        BY <3>2 DEF Locals
      <3>4. PICK step \in {"remove", "promote"} : Goto(s, step)
        BY <3>1
      <3>5. loc' = [loc EXCEPT ![s] = l]
        BY <3>1
      <3> HIDE DEF l
      <3>6. QED
        BY <3>1, <3>3, <3>4, <3>5, LocalTypeInv
    <2>3. QED
      BY <2>1, <2>2
  <1>13. ASSUME NEW s \in Sessions, RemoveRow(s) PROVE TypeInv'
    BY <1>13, AdvanceTypeInv, WriteTypeInv DEF RemoveRow, Version
  <1>14. ASSUME NEW s \in Sessions, CheckTaxId(s) PROVE TypeInv'
    BY <1>14, RollbackTypeInv, AdvanceTypeInv DEF CheckTaxId
  <1>15. ASSUME NEW s \in Sessions, WriteUpdate(s) PROVE TypeInv'
    BY <1>15, RollbackTypeInv, WriteTypeInv, NotARow
       DEF WriteUpdate, TypeInv, TypeOK, Version
  <1>16. ASSUME NEW s \in Sessions, WriteKey(s) PROVE TypeInv'
    <2>1. View(s)[loc[s].id] \in Rows
      BY <1>16 DEF WriteKey, View, TypeInv, TypeOK, DeletesAreLast, RequestsName,
                   KeysBelongToRow, Version
    <2>2. [View(s)[loc[s].id] EXCEPT !.tax = loc[s].tax] \in Rows
      BY <1>16, <2>1 DEF WriteKey, TypeInv, TypeOK, KeysAreGiven, Locals, Rows
    <2>3. QED
      BY <1>16, <2>2, RollbackTypeInv, WriteTypeInv, NotARow DEF WriteKey, Version
  <1>17. ASSUME NEW s \in Sessions, DeadlockVictim(s) \/ ConnectionLost(s) PROVE TypeInv'
    BY <1>17, RollbackTypeInv DEF DeadlockVictim, ConnectionLost
  <1>18. CASE UNCHANGED vars
    BY <1>18 DEF vars, TypeInv, TypeOK, DeletesAreLast, RequestsName, KeysBelongToRow, KeysAreGiven
  <1>19. QED
    BY <1>1, <1>2, <1>3, <1>4, <1>5, <1>6, <1>7, <1>8, <1>9, <1>10, <1>11, <1>12, <1>13,
       <1>14, <1>15, <1>16, <1>17, <1>18, CommitTypeInv DEF Next, Begin, Proceed

\* Every reachable state has the types of TypeOK, whatever requests run and however their
\* statements, aborts and lost connections interleave.
THEOREM TypeCorrect == Spec => []TypeOK
  <1>1. TypeInv => TypeOK
    BY DEF TypeInv
  <1>2. QED
    BY InitTypeInv, StepTypeInv, <1>1, PTL DEF Spec

-----------------------------------------------------------------------------
(* Unique tax ids.  The committed table is unique because what each open    *)
(* transaction would commit is (ViewsUnique), and no two of them are        *)
(* putting the same key on two rows (KeysExclusive).  For that the row      *)
(* locks must be exclusive, the id of a new profile must be its own, and a  *)
(* row keeps its key until the last write of its transaction (TaxKept).     *)

IdleIsClean   == \A s \in Sessions : pc[s] = "idle" => loc[s] = NoRequest /\ pend[s] = Clean
LockExclusive == \A s, u \in Sessions, p \in Profiles :
                    HoldsRow(s, p) /\ HoldsRow(u, p) => s = u
FreshIds      == \A s \in Sessions : loc[s].kind = "create" =>
                    /\ db[loc[s].id] = NoRow
                    /\ \A u \in Sessions : loc[u].kind = "create" /\ loc[u].id = loc[s].id
                                              => u = s
WritesLive    == \A s \in Sessions, p \in Profiles : HoldsRow(s, p) =>
                    db[p] # NoRow \/ (loc[s].kind = "create" /\ loc[s].id = p)
Last          == {"refresh", "commit"}
TaxKept       == \A s \in Sessions, p \in Profiles :
                    pc[s] \notin Last /\ pend[s][p] \in Rows /\ db[p] # NoRow
                    => pend[s][p].tax = db[p].tax
RowsInv == IdleIsClean /\ LockExclusive /\ FreshIds /\ WritesLive /\ TaxKept

ViewsUnique   == \A s \in Sessions : UniqueTaxIds(View(s))
KeysExclusive == \A s, u \in Sessions, p, q \in Profiles :
                    /\ s # u
                    /\ pend[s][p] \in Rows /\ pend[u][q] \in Rows
                    => pend[s][p].tax # pend[u][q].tax
UniqueInv == TaxIdUnique /\ ViewsUnique /\ KeysExclusive

KeyInv == TypeInv /\ RowsInv /\ UniqueInv

LEMMA InitKeyInv == Init => KeyInv
  <1> SUFFICES ASSUME Init PROVE KeyInv
    OBVIOUS
  <1>1. TypeInv
    BY InitTypeInv
  <1>2. RowsInv
    BY NotARow DEF Init, RowsInv, IdleIsClean, LockExclusive, FreshIds, WritesLive, TaxKept,
                   HoldsRow, Clean, NoRequest
  <1>3. \A s \in Sessions : View(s) = db
    BY DEF Init, View, Clean
  <1>4. UniqueInv
    BY <1>3, NotARow DEF Init, UniqueInv, TaxIdUnique, ViewsUnique, KeysExclusive, Settled, Clean
  <1>5. QED
    BY <1>1, <1>2, <1>4 DEF KeyInv

\* A session may lock row p and give it a version that keeps its key, or one whose key no
\* other session holds and no row it sees has.
LEMMA WriteUnique ==
    ASSUME TypeInv, RowsInv, UniqueInv,
           NEW s \in Sessions, NEW p \in Profiles, NEW v \in Version,
           RowFree(s, p),
           \/ v = NoRow
           \/ v # NoRow /\ View(s)[p] # NoRow /\ v.tax = View(s)[p].tax
           \/ v # NoRow /\ KeyFree(s, v.tax) /\ ~TaxTaken(View(s), v.tax, Profiles \ {p}),
           pend' = [pend EXCEPT ![s][p] = v], UNCHANGED db
    PROVE  UniqueInv' /\ LockExclusive'
  <1>1. \A u \in Sessions, q \in Profiles :
           pend'[u][q] = IF u = s /\ q = p THEN v ELSE pend[u][q]
    BY DEF TypeInv, TypeOK
  <1>2. View(s)' = [View(s) EXCEPT ![p] = v]
    BY <1>1, NotARow DEF View, Version
  <1>3. \A u \in Sessions \ {s} : View(u)' = View(u)
    BY <1>1 DEF View
  <1>4. UniqueTaxIds(View(s)')
    BY <1>2, ViewType DEF TypeInv, UniqueInv, ViewsUnique, UniqueTaxIds, Live, TaxTaken
  <1>5. KeysExclusive'
    <2> SUFFICES ASSUME NEW u \in Sessions \ {s}, NEW q \in Profiles,
                        v \in Rows, pend[u][q] \in Rows
                 PROVE  v.tax # pend[u][q].tax
      BY <1>1 DEF UniqueInv, KeysExclusive
    <2>1. CASE KeyFree(s, v.tax)
      BY <2>1, NotARow DEF KeyFree, HoldsKey, HoldsRow
    <2>2. CASE View(s)[p] # NoRow /\ v.tax = View(s)[p].tax
      <3>1. CASE HoldsRow(s, p)
        BY <2>2, <3>1 DEF HoldsRow, View, UniqueInv, KeysExclusive, TypeInv, TypeOK, Version
      <3>2. CASE ~HoldsRow(s, p)
        <4>1. View(u)[p] = db[p] /\ View(s)[p] = db[p] /\ q # p
          BY <3>2, NotARow DEF RowFree, HoldsRow, View
        <4>2. View(u)[q] = pend[u][q]
          BY NotARow DEF View
        <4>3. p \in Live(View(u)) /\ q \in Live(View(u))
          BY <2>2, <4>1, <4>2, NotARow DEF Live
        <4>4. QED
          BY <2>2, <4>1, <4>2, <4>3 DEF UniqueInv, ViewsUnique, UniqueTaxIds
      <3>3. QED
        BY <3>1, <3>2
    <2>3. QED
      BY <2>1, <2>2, NotARow
  <1>6. LockExclusive'
    BY <1>1 DEF RowsInv, LockExclusive, RowFree, HoldsRow
  <1>7. QED
    BY <1>3, <1>4, <1>5, <1>6 DEF UniqueInv, ViewsUnique, TaxIdUnique

LEMMA RollbackKeyInv ==
    ASSUME KeyInv, NEW s \in Sessions, Rollback(s)
    PROVE  RowsInv' /\ UniqueInv'
  <1> USE NotARow DEF KeyInv
  <1>1. /\ pend'[s] = Clean /\ \A u \in Sessions \ {s} : pend'[u] = pend[u]
        /\ loc'[s] = NoRequest /\ \A u \in Sessions \ {s} : loc'[u] = loc[u] /\ pc'[u] = pc[u]
        /\ db' = db
    BY DEF Rollback, Goto, TypeInv, TypeOK
  <1>2. \A p \in Profiles : ~HoldsRow(s, p)'
    BY <1>1 DEF HoldsRow, Clean
  <1>3. \A u \in Sessions \ {s} : View(u)' = View(u)
    BY <1>1 DEF View
  <1>4. View(s)' = db
    BY <1>1 DEF View, Clean, TypeInv, TypeOK
  <1>5. RowsInv'
    <2>1. IdleIsClean'
      BY <1>1 DEF RowsInv, IdleIsClean
    <2>2. LockExclusive' /\ WritesLive'
      BY <1>1, <1>2 DEF RowsInv, LockExclusive, WritesLive, HoldsRow
    <2>3. FreshIds'
      BY <1>1 DEF RowsInv, FreshIds, NoRequest
    <2>4. TaxKept'
      BY <1>1, <1>2 DEF RowsInv, TaxKept, HoldsRow
    <2>5. QED
      BY <2>1, <2>2, <2>3, <2>4 DEF RowsInv
  <1>6. UniqueInv'
    BY <1>1, <1>2, <1>3, <1>4
       DEF UniqueInv, TaxIdUnique, ViewsUnique, KeysExclusive, HoldsRow
  <1>7. QED
    BY <1>5, <1>6

LEMMA CommitKeyInv ==
    ASSUME KeyInv, NEW s \in Sessions, Commit(s)
    PROVE  RowsInv' /\ UniqueInv'
  <1> USE NotARow DEF KeyInv
  <1>1. /\ pend'[s] = Clean /\ \A u \in Sessions \ {s} : pend'[u] = pend[u]
        /\ loc'[s] = NoRequest /\ \A u \in Sessions \ {s} : loc'[u] = loc[u] /\ pc'[u] = pc[u]
        /\ db' = View(s)
    BY DEF Commit, Goto, TypeInv, TypeOK
  <1>2. \A p \in Profiles : ~HoldsRow(s, p)'
    BY <1>1 DEF HoldsRow, Clean
  <1>3. \A u \in Sessions \ {s}, p \in Profiles : HoldsRow(u, p)' <=> HoldsRow(u, p)
    BY <1>1 DEF HoldsRow
  <1>4. \A p \in Profiles : ~HoldsRow(s, p) => db'[p] = db[p]
    BY <1>1 DEF HoldsRow, View
  <1>5. RowsInv'
    <2>1. IdleIsClean' /\ LockExclusive'
      BY <1>1, <1>2, <1>3 DEF RowsInv, IdleIsClean, LockExclusive
    <2>2. WritesLive'
      BY <1>1, <1>2, <1>3, <1>4 DEF RowsInv, WritesLive, LockExclusive
    <2>3. FreshIds'
      <3> SUFFICES ASSUME NEW u \in Sessions \ {s}, loc[u].kind = "create"
                   PROVE  db'[loc[u].id] = NoRow
        BY <1>1 DEF RowsInv, FreshIds, NoRequest
      <3>1. db[loc[u].id] = NoRow /\ loc[u].id \in Profiles
        BY DEF RowsInv, FreshIds, IdleIsClean, NoRequest, TypeInv, RequestsName
      <3>2. ~HoldsRow(s, loc[u].id)
        BY <3>1 DEF RowsInv, WritesLive, FreshIds
      <3>3. QED
        BY <1>4, <3>1, <3>2
    <2>4. TaxKept'
      <3> SUFFICES ASSUME NEW u \in Sessions \ {s}, NEW p \in Profiles,
                          pc[u] \notin Last, pend[u][p] \in Rows, db'[p] # NoRow
                   PROVE  pend[u][p].tax = db'[p].tax
        BY <1>1, <1>2 DEF TaxKept, HoldsRow
      <3>1. ~HoldsRow(s, p)
        BY DEF HoldsRow, RowsInv, LockExclusive
      <3>2. QED
        BY <1>4, <3>1 DEF RowsInv, TaxKept
    <2>5. QED
      BY <2>1, <2>2, <2>3, <2>4 DEF RowsInv
  <1>6. TaxIdUnique'
    BY <1>1 DEF UniqueInv, ViewsUnique, TaxIdUnique
  <1>7. KeysExclusive'
    BY <1>1, <1>2 DEF UniqueInv, KeysExclusive, HoldsRow
  <1>8. ViewsUnique'
    <2>1. View(s)' = db'
      BY <1>1, ViewType DEF View, Clean, TypeInv
    <2>2. ASSUME NEW u \in Sessions \ {s}, NEW p \in Profiles, NEW q \in Profiles,
                 View(u)'[p] # NoRow, View(u)'[q] # NoRow,
                 View(u)'[p].tax = View(u)'[q].tax
          PROVE  p = q
      <3>1. \A x \in Profiles : View(u)'[x] = IF HoldsRow(u, x) THEN pend[u][x] ELSE View(s)[x]
        BY <1>1 DEF View, HoldsRow
      <3>2. CASE ~HoldsRow(u, p) /\ ~HoldsRow(u, q)
        BY <2>2, <3>1, <3>2 DEF UniqueInv, ViewsUnique, UniqueTaxIds, Live
      <3>3. ASSUME NEW x \in Profiles, NEW y \in Profiles, HoldsRow(u, x),
                   View(u)'[x] # NoRow, View(u)'[y] # NoRow,
                   View(u)'[x].tax = View(u)'[y].tax
            PROVE  x = y
        <4>1. CASE HoldsRow(s, y) /\ ~HoldsRow(u, y)
          <5>1. pend[u][x] \in Rows /\ pend[s][y] \in Rows
            BY <3>1, <3>3, <4>1 DEF HoldsRow, View, TypeInv, TypeOK, Version
          <5>2. View(u)'[x] = pend[u][x] /\ View(u)'[y] = pend[s][y]
            BY <3>1, <3>3, <4>1 DEF HoldsRow, View
          <5>3. QED
            BY <3>3, <5>1, <5>2 DEF UniqueInv, KeysExclusive
        <4>2. CASE ~(HoldsRow(s, y) /\ ~HoldsRow(u, y))
          <5>1. View(u)'[x] = View(u)[x] /\ View(u)'[y] = View(u)[y]
            BY <3>1, <3>3, <4>2 DEF HoldsRow, View
          <5>2. QED
            BY <3>3, <5>1 DEF UniqueInv, ViewsUnique, UniqueTaxIds, Live
        <4>3. QED
          BY <4>1, <4>2
      <3>4. QED
        BY <2>2, <3>2, <3>3
    <2>3. QED
      BY <1>6, <2>1, <2>2 DEF ViewsUnique, UniqueTaxIds, Live, TaxIdUnique
  <1>9. QED
    BY <1>5, <1>6, <1>7, <1>8 DEF UniqueInv

\* Steps that write no row: a request that starts, and a statement that only reads.
LEMMA QuietUnique ==
    ASSUME UniqueInv, UNCHANGED <<db, pend>>
    PROVE  UniqueInv'
  BY DEF UniqueInv, TaxIdUnique, ViewsUnique, KeysExclusive, View

LEMMA ReadRows ==
    ASSUME TypeInv, RowsInv, NEW s \in Sessions, pc[s] # "idle",
           NEW step \in ControlStates \ {"idle"}, Goto(s, step),
           pc[s] \in Last => step \in Last,
           NEW l \in Locals, l.kind = loc[s].kind, l.id = loc[s].id,
           loc' = [loc EXCEPT ![s] = l], UNCHANGED <<db, pend>>
    PROVE  RowsInv'
  <1>1. loc'[s] = l /\ \A u \in Sessions \ {s} : loc'[u] = loc[u] /\ pc'[u] = pc[u]
    BY DEF Goto, TypeInv, TypeOK
  <1>2. pc'[s] = step
    BY DEF Goto, TypeInv, TypeOK
  <1>3. IdleIsClean' /\ LockExclusive' /\ FreshIds' /\ WritesLive'
    BY <1>1, <1>2 DEF RowsInv, IdleIsClean, LockExclusive, FreshIds, WritesLive, HoldsRow
  <1>4. TaxKept'
    BY <1>1, <1>2 DEF RowsInv, TaxKept
  <1>5. QED
    BY <1>3, <1>4 DEF RowsInv

LEMMA StartRows ==
    ASSUME TypeInv, RowsInv, NEW s \in Sessions, NEW step \in ControlStates \ {"idle"},
           NEW request \in Locals,
           request.kind = "create" => /\ request.id \in Profiles \ UsedIds,
           Start(s, step, request)
    PROVE  RowsInv'
  <1>1. loc'[s] = request /\ \A u \in Sessions \ {s} : loc'[u] = loc[u] /\ pc'[u] = pc[u]
    BY DEF Start, Goto, TypeInv, TypeOK
  <1>2. /\ pc[s] = "idle" /\ pend[s] = Clean /\ db' = db /\ pend' = pend /\ pc'[s] # "idle"
    BY DEF Start, Goto, TypeInv, TypeOK, RowsInv, IdleIsClean
  <1>3. IdleIsClean' /\ LockExclusive'
    BY <1>1, <1>2 DEF RowsInv, IdleIsClean, LockExclusive, HoldsRow
  <1>4. FreshIds'
    <2>1. \A u \in Sessions : loc[u].id \in UsedIds
      BY DEF UsedIds
    <2>2. \A p \in Profiles \ UsedIds : db[p] = NoRow
      BY DEF UsedIds, Live
    <2>3. QED
      BY <1>1, <1>2, <2>1, <2>2 DEF RowsInv, FreshIds
  <1>5. WritesLive'
    BY <1>1, <1>2, NotARow DEF RowsInv, WritesLive, HoldsRow, Clean
  <1>6. TaxKept'
    BY <1>1, <1>2, NotARow DEF RowsInv, TaxKept, Clean
  <1>7. QED
    BY <1>3, <1>4, <1>5, <1>6 DEF RowsInv

\* A statement that writes a row its session may write.
LEMMA WriteRows ==
    ASSUME TypeInv, RowsInv, UniqueInv, NEW s \in Sessions, pc[s] \notin Last \cup {"idle"},
           NEW p \in Profiles, NEW v \in Version, RowFree(s, p),
           db[p] # NoRow \/ (loc[s].kind = "create" /\ loc[s].id = p),
           \/ v = NoRow
           \/ v # NoRow /\ View(s)[p] # NoRow /\ v.tax = View(s)[p].tax
           \/ v # NoRow /\ KeyFree(s, v.tax) /\ ~TaxTaken(View(s), v.tax, Profiles \ {p}),
           pend' = [pend EXCEPT ![s][p] = v], UNCHANGED db,
           NEW step \in ControlStates \ {"idle"}, Goto(s, step),
           step \in Last \/ v = NoRow \/ (db[p] # NoRow /\ v.tax = db[p].tax),
           NEW l \in Locals, l.kind = loc[s].kind, l.id = loc[s].id,
           loc' = [loc EXCEPT ![s] = l]
    PROVE  RowsInv' /\ UniqueInv'
  <1>1. UniqueInv' /\ LockExclusive'
    BY WriteUnique
  <1>2. loc'[s] = l /\ \A u \in Sessions \ {s} : loc'[u] = loc[u] /\ pc'[u] = pc[u]
    BY DEF Goto, TypeInv, TypeOK
  <1>3. /\ pc'[s] = step
        /\ \A u \in Sessions \ {s} : pend'[u] = pend[u]
        /\ \A q \in Profiles : q # p => pend'[s][q] = pend[s][q]
        /\ pend'[s][p] = v
    BY DEF Goto, TypeInv, TypeOK
  <1>4. IdleIsClean'
    BY <1>2, <1>3 DEF RowsInv, IdleIsClean
  <1>5. FreshIds'
    BY <1>2 DEF RowsInv, FreshIds
  <1>6. WritesLive'
    BY <1>2, <1>3 DEF RowsInv, WritesLive, HoldsRow
  <1>7. TaxKept'
    BY <1>2, <1>3, NotARow DEF RowsInv, TaxKept
  <1>8. QED
    BY <1>1, <1>4, <1>5, <1>6, <1>7 DEF RowsInv

\* Until the last write of its transaction, a session sees the committed key of a row.
LEMMA ReadKey ==
    ASSUME TypeInv, RowsInv, NEW s \in Sessions, NEW p \in Profiles,
           pc[s] \notin Last, db[p] # NoRow
    PROVE  View(s)[p] # NoRow /\ View(s)[p].tax = db[p].tax
  <1>1. CASE pend[s][p] = Unwritten
    BY <1>1 DEF View
  <1>2. CASE pend[s][p] # Unwritten
    <2>1. pend[s][p] \in Rows
      BY <1>2 DEF TypeInv, TypeOK, DeletesAreLast, Version, Last
    <2>2. QED
      BY <1>2, <2>1, NotARow DEF View, RowsInv, TaxKept
  <1>3. QED
    BY <1>1, <1>2

LEMMA StepKeyInv ==
    ASSUME KeyInv, [Next]_vars
    PROVE  KeyInv'
  <1> USE DEF KeyInv, ControlStates, Last
  <1>1. SUFFICES RowsInv' /\ UniqueInv'
    BY StepTypeInv
  <1>2. ASSUME NEW s \in Sessions, NEW step \in ControlStates \ {"idle"}, Advance(s, step),
               pc[s] # "idle", pc[s] \in Last => step = "commit"
        PROVE  RowsInv' /\ UniqueInv'
    <2>1. loc' = [loc EXCEPT ![s] = loc[s]] /\ loc[s] \in Locals
      BY <1>2 DEF Advance, TypeInv, TypeOK
    <2>2. QED
      BY <1>2, <2>1, ReadRows, QuietUnique DEF Advance
  <1>3. ASSUME NEW s \in Sessions, NEW step \in ControlStates \ {"idle"},
               NEW p \in Profiles, NEW v \in Version, Write(s, p, v, step),
               pc[s] \notin Last \cup {"idle"}, RowFree(s, p),
               step \in Last \/ v = NoRow \/ (db[p] # NoRow /\ v.tax = db[p].tax),
               db[p] # NoRow \/ (loc[s].kind = "create" /\ loc[s].id = p),
               \/ v = NoRow
               \/ v # NoRow /\ View(s)[p] # NoRow /\ v.tax = View(s)[p].tax
               \/ v # NoRow /\ KeyFree(s, v.tax) /\ ~TaxTaken(View(s), v.tax, Profiles \ {p})
        PROVE  RowsInv' /\ UniqueInv'
    <2>1. loc' = [loc EXCEPT ![s] = loc[s]] /\ loc[s] \in Locals
      BY <1>3 DEF Write, TypeInv, TypeOK
    <2>2. QED
      BY <1>3, <2>1, WriteRows DEF Write
  <1>4. ASSUME NEW s \in Sessions, Begin(s) PROVE RowsInv' /\ UniqueInv'
    <2>1. PICK step \in ControlStates \ {"idle"}, request \in Locals :
              /\ Start(s, step, request)
              /\ request.kind = "create" => request.id \in Profiles \ UsedIds
      <3>1. ASSUME BeginCreate(s)
            PROVE  \E step \in ControlStates \ {"idle"}, request \in Locals :
                      Start(s, step, request) /\ request.id \in Profiles \ UsedIds
        <4>1. PICK p \in Profiles, tax \in TaxIds, want \in BOOLEAN :
                  /\ \A q \in UsedIds : q < p
                  /\ Start(s, "count", [NoRequest EXCEPT !.kind = "create", !.id = p,
                                                        !.tax = tax, !.dflt = want])
          BY <3>1 DEF BeginCreate
        <4> DEFINE request == [NoRequest EXCEPT !.kind = "create", !.id = p, !.tax = tax,
                                                !.dflt = want]
        <4>2. request \in Locals /\ request.id = p
          BY ProfilesAssumption DEF NoRequest, Locals
        <4>3. p \in Profiles \ UsedIds
          BY <4>1, ProfilesAssumption
        <4>4. Start(s, "count", request)
          BY <4>1
        <4> HIDE DEF request
        <4>5. QED
          BY <4>2, <4>3, <4>4
      <3>2. ASSUME BeginSetDefault(s)
            PROVE  \E step \in ControlStates \ {"idle"}, request \in Locals :
                      Start(s, step, request) /\ request.kind # "create"
        <4>1. PICK p \in Live(db) :
                  Start(s, "bulk", [NoRequest EXCEPT !.kind = "set_default", !.id = p,
                                                     !.heir = p, !.dflt = db[p].dflt])
          BY <3>2 DEF BeginSetDefault
        <4>2. p \in Profiles /\ db[p].dflt \in BOOLEAN
          BY DEF TypeInv, TypeOK, Live, Version, Rows
        <4> DEFINE request == [NoRequest EXCEPT !.kind = "set_default", !.id = p,
                                                !.heir = p, !.dflt = db[p].dflt]
        <4>3. request \in Locals /\ request.kind # "create"
          BY <4>2, ProfilesAssumption DEF NoRequest, Locals
        <4>4. Start(s, "bulk", request)
          BY <4>1
        <4> HIDE DEF request
        <4>5. QED
          BY <4>3, <4>4
      <3>3. ASSUME BeginDelete(s)
            PROVE  \E step \in ControlStates \ {"idle"}, request \in Locals :
                      Start(s, step, request) /\ request.kind # "create"
        <4>1. PICK p \in Live(db), step \in {"siblings", "remove"} :
                  Start(s, step, [NoRequest EXCEPT !.kind = "delete", !.id = p])
          BY <3>3 DEF BeginDelete
        <4>2. [NoRequest EXCEPT !.kind = "delete", !.id = p] \in Locals
          BY ProfilesAssumption DEF NoRequest, Locals, Live
        <4>3. [NoRequest EXCEPT !.kind = "delete", !.id = p].kind # "create"
          BY DEF NoRequest
        <4>4. QED
          BY <4>1, <4>2, <4>3
      <3>4. ASSUME BeginUpdate(s)
            PROVE  \E step \in ControlStates \ {"idle"}, request \in Locals :
                      Start(s, step, request) /\ request.kind # "create"
        <4>1. PICK p \in Live(db), tax \in TaxIds, step \in {"write", "check"} :
                  \/ Start(s, step, [NoRequest EXCEPT !.kind = "update", !.id = p])
                  \/ Start(s, step, [NoRequest EXCEPT !.kind = "update", !.id = p, !.tax = tax])
          BY <3>4 DEF BeginUpdate
        <4>2. /\ [NoRequest EXCEPT !.kind = "update", !.id = p] \in Locals
              /\ [NoRequest EXCEPT !.kind = "update", !.id = p, !.tax = tax] \in Locals
          BY ProfilesAssumption DEF NoRequest, Locals, Live
        <4>3. /\ [NoRequest EXCEPT !.kind = "update", !.id = p].kind # "create"
              /\ [NoRequest EXCEPT !.kind = "update", !.id = p, !.tax = tax].kind # "create"
          BY DEF NoRequest
        <4>4. QED
          BY <4>1, <4>2, <4>3
      <3>5. QED
        BY <1>4, <3>1, <3>2, <3>3, <3>4 DEF Begin
    <2>2. QED
      BY <2>1, StartRows, QuietUnique DEF Start
  <1>5. ASSUME NEW s \in Sessions, CountProfiles(s) PROVE RowsInv' /\ UniqueInv'
    <2>1. loc[s] \in Locals /\ pc[s] = "count" /\ UNCHANGED <<db, pend>>
      BY <1>5 DEF CountProfiles, TypeInv, TypeOK
    <2>2. CASE Live(View(s)) = {}
      <3> DEFINE l == [loc[s] EXCEPT !.dflt = TRUE]
      <3>1. loc' = [loc EXCEPT ![s] = l] /\ Goto(s, "insert")
        BY <1>5, <2>2 DEF CountProfiles
      <3>2. l \in Locals /\ l.kind = loc[s].kind /\ l.id = loc[s].id
        BY <2>1 DEF Locals
      <3> HIDE DEF l
      <3>3. QED
        BY <2>1, <3>1, <3>2, ReadRows, QuietUnique
    <2>3. CASE Live(View(s)) # {}
      <3>1. Advance(s, "bulk") \/ Advance(s, "insert")
        BY <1>5, <2>3 DEF CountProfiles, Advance
      <3>2. QED
        BY <1>2, <2>1, <3>1
    <2>4. QED
      BY <2>2, <2>3
  <1>6. ASSUME NEW s \in Sessions, InsertProfile(s) PROVE RowsInv' /\ UniqueInv'
    <2> DEFINE v == [tax |-> loc[s].tax, dflt |-> loc[s].dflt]
    <2>1. CASE TaxTaken(View(s), loc[s].tax, Profiles)
      BY <1>6, <2>1, RollbackKeyInv DEF InsertProfile
    <2>2. CASE ~TaxTaken(View(s), loc[s].tax, Profiles)
      <3>1. pc[s] = "insert" /\ KeyFree(s, loc[s].tax) /\ Write(s, loc[s].id, v, "commit")
        BY <1>6, <2>2 DEF InsertProfile
      <3>2. loc[s].id \in Profiles /\ loc[s].kind = "create" /\ loc[s].tax # Unwritten
        BY <3>1 DEF TypeInv, RequestsName, KeysAreGiven
      <3>3. v \in Rows /\ v.tax = loc[s].tax
        BY <3>2 DEF TypeInv, TypeOK, Locals, Rows
      <3>4. \A u \in Sessions \ {s} : ~HoldsRow(u, loc[s].id)
        BY <3>2 DEF RowsInv, WritesLive, FreshIds
      <3>5. RowFree(s, loc[s].id) /\ ~TaxTaken(View(s), v.tax, Profiles \ {loc[s].id})
        BY <2>2, <3>3, <3>4 DEF RowFree, TaxTaken
      <3> HIDE DEF v
      <3>6. QED
        BY <1>3, <3>1, <3>2, <3>3, <3>5, NotARow DEF Version
    <2>3. QED
      BY <2>1, <2>2
  <1>7. ASSUME NEW s \in Sessions, StartDemotion(s) PROVE RowsInv' /\ UniqueInv'
    <2> DEFINE l == [loc[s] EXCEPT !.todo = Others(View(s), loc[s].id)]
    <2>1. l \in Locals /\ l.kind = loc[s].kind /\ l.id = loc[s].id
      BY DEF Others, Live, TypeInv, TypeOK, Locals
    <2>2. loc' = [loc EXCEPT ![s] = l]
      BY <1>7 DEF StartDemotion
    <2> HIDE DEF l
    <2>3. QED
      BY <1>7, <2>1, <2>2, ReadRows, QuietUnique DEF StartDemotion
  <1>8. ASSUME NEW s \in Sessions, NEW p \in Profiles, DemoteRow(s, p)
        PROVE  RowsInv' /\ UniqueInv'
    <2> DEFINE l == [loc[s] EXCEPT !.todo = @ \ {p}]
    <2>1. l \in Locals /\ l.kind = loc[s].kind /\ l.id = loc[s].id
      BY DEF TypeInv, TypeOK, Locals
    <2>2. loc' = [loc EXCEPT ![s] = l] /\ UNCHANGED <<db, pc>> /\ pc[s] = "demote"
      BY <1>8 DEF DemoteRow
    <2>3. Goto(s, "demote")
      BY <2>2 DEF Goto, TypeInv, TypeOK
    <2> HIDE DEF l
    <2>4. CASE db[p] = NoRow
      BY <1>8, <2>1, <2>2, <2>3, <2>4, ReadRows, QuietUnique DEF DemoteRow
    <2>5. CASE db[p] # NoRow
      <3> DEFINE v == [db[p] EXCEPT !.dflt = FALSE]
      <3>1. db[p] \in Rows
        BY <2>5 DEF TypeInv, TypeOK, Version
      <3>2. v \in Rows /\ v.tax = db[p].tax
        BY <3>1 DEF Rows
      <3>3. pend' = [pend EXCEPT ![s][p] = v] /\ RowFree(s, p)
        BY <1>8, <2>5 DEF DemoteRow
      <3> HIDE DEF v
      <3>4. RowsInv' /\ UniqueInv'
        BY <1>8, <2>1, <2>2, <2>3, <2>5, <3>1, <3>2, <3>3, NotARow, ReadKey, WriteRows
           DEF Version
      <3>5. QED
        BY <3>4
    <2>6. QED
      BY <2>4, <2>5
  <1>9. ASSUME NEW s \in Sessions, EndDemotion(s) PROVE RowsInv' /\ UniqueInv'
    BY <1>2, <1>9 DEF EndDemotion
  <1>10. ASSUME NEW s \in Sessions, Promote(s) PROVE RowsInv' /\ UniqueInv'
    <2> DEFINE h == loc[s].heir
               v == [View(s)[h] EXCEPT !.dflt = TRUE]
    <2>1. CASE db[h] = NoRow
      BY <1>10, <2>1, RollbackKeyInv DEF Promote
    <2>2. CASE db[h] # NoRow
      <3>1. PICK step \in {"remove", "refresh"} : Write(s, h, v, step)
        BY <1>10, <2>2 DEF Promote
      <3>2. pc[s] = "promote" /\ RowFree(s, h)
        BY <1>10 DEF Promote
      <3>3. CASE h \notin Profiles
        <4>1. pend' = pend
          BY <3>1, <3>3 DEF Write, TypeInv, TypeOK
        <4>2. Advance(s, step)
          BY <3>1, <4>1 DEF Write, Advance
        <4>3. QED
          BY <1>2, <3>2, <4>2
      <3>4. CASE h \in Profiles
        <4>1. View(s)[h] # NoRow /\ View(s)[h].tax = db[h].tax /\ View(s)[h] \in Version
          BY <2>2, <3>2, <3>4, ReadKey, ViewType DEF TypeInv
        <4>2. v \in Rows /\ v.tax = View(s)[h].tax
          BY <4>1 DEF Version, Rows
        <4> HIDE DEF v
        <4>3. QED
          BY <1>3, <2>2, <3>1, <3>2, <3>4, <4>1, <4>2, NotARow DEF Version
      <3>5. QED
        BY <3>3, <3>4
    <2>3. QED
      BY <2>1, <2>2
  <1>11. ASSUME NEW s \in Sessions, Refresh(s) PROVE RowsInv' /\ UniqueInv'
    BY <1>2, <1>11, RollbackKeyInv DEF Refresh
  <1>12. ASSUME NEW s \in Sessions, SelectSiblings(s) PROVE RowsInv' /\ UniqueInv'
    <2>1. CASE Rollback(s)
      BY <2>1, RollbackKeyInv
    <2>2. CASE ~Rollback(s)
      <3>1. PICK h \in Others(View(s), loc[s].id), step \in {"remove", "promote"} :
                /\ loc' = [loc EXCEPT ![s] = [loc[s] EXCEPT !.heir = h]]
                /\ Goto(s, step) /\ pc[s] = "siblings" /\ UNCHANGED <<db, pend>>
        BY <1>12, <2>2 DEF SelectSiblings
      <3> DEFINE l == [loc[s] EXCEPT !.heir = h]
      <3>2. l \in Locals /\ l.kind = loc[s].kind /\ l.id = loc[s].id
        <4>1. h \in Profiles /\ loc[s] \in Locals
          BY DEF Others, Live, TypeInv, TypeOK
        <4>2. QED
          BY <4>1, ProfilesAssumption DEF Locals
      <3>3. loc' = [loc EXCEPT ![s] = l]
        BY <3>1
      <3> HIDE DEF l
      <3>4. QED
        BY <3>1, <3>2, <3>3, ReadRows, QuietUnique
    <2>3. QED
      BY <2>1, <2>2
  <1>13. ASSUME NEW s \in Sessions, RemoveRow(s) PROVE RowsInv' /\ UniqueInv'
    <2>1. loc[s].id \in Profiles
      BY <1>13 DEF RemoveRow, TypeInv, RequestsName
    <2>2. QED
      BY <1>2, <1>3, <1>13, <2>1 DEF RemoveRow, Version
  <1>14. ASSUME NEW s \in Sessions, CheckTaxId(s) PROVE RowsInv' /\ UniqueInv'
    BY <1>2, <1>14, RollbackKeyInv DEF CheckTaxId
  <1>15. ASSUME NEW s \in Sessions, WriteUpdate(s) PROVE RowsInv' /\ UniqueInv'
    <2>1. CASE db[loc[s].id] = NoRow
      BY <1>15, <2>1, RollbackKeyInv DEF WriteUpdate
    <2>2. CASE db[loc[s].id] # NoRow
      <3>1. PICK step \in {"refresh", "key"} : Write(s, loc[s].id, db[loc[s].id], step)
        BY <1>15, <2>2 DEF WriteUpdate
      <3>2. pc[s] = "write" /\ RowFree(s, loc[s].id) /\ loc[s].id \in Profiles
        BY <1>15 DEF WriteUpdate, TypeInv, RequestsName
      <3>3. db[loc[s].id] \in Version
        BY <3>2 DEF TypeInv, TypeOK
      <3>4. QED
        BY <1>3, <2>2, <3>1, <3>2, <3>3, ReadKey
    <2>3. QED
      BY <2>1, <2>2
  <1>16. ASSUME NEW s \in Sessions, WriteKey(s) PROVE RowsInv' /\ UniqueInv'
    <2> DEFINE p == loc[s].id
               v == [View(s)[p] EXCEPT !.tax = loc[s].tax]
    <2>1. CASE TaxTaken(View(s), loc[s].tax, Profiles \ {p})
      BY <1>16, <2>1, RollbackKeyInv DEF WriteKey
    <2>2. CASE ~TaxTaken(View(s), loc[s].tax, Profiles \ {p})
      <3>1. pc[s] = "key" /\ KeyFree(s, loc[s].tax) /\ Write(s, p, v, "refresh")
        BY <1>16, <2>2 DEF WriteKey
      <3>2. p \in Profiles /\ pend[s][p] \in Rows
        BY <3>1 DEF TypeInv, TypeOK, RequestsName, KeysBelongToRow, DeletesAreLast, Version
      <3>3. loc[s].tax \in TaxIds
        BY <3>1 DEF TypeInv, TypeOK, Locals, KeysAreGiven
      <3>4. View(s)[p] = pend[s][p]
        BY <3>2, NotARow DEF View
      <3>5. v \in Rows /\ v.tax = loc[s].tax
        BY <3>2, <3>3, <3>4 DEF Rows
      <3>6. RowFree(s, p) /\ HoldsRow(s, p)
        BY <3>2, NotARow DEF RowFree, HoldsRow, RowsInv, LockExclusive
      <3>7. db[p] # NoRow \/ (loc[s].kind = "create" /\ loc[s].id = p)
        BY <3>2, <3>6 DEF RowsInv, WritesLive
      <3> HIDE DEF v
      <3>8. QED
        BY <1>3, <2>2, <3>1, <3>2, <3>5, <3>6, <3>7, NotARow DEF Version
    <2>3. QED
      BY <2>1, <2>2
  <1>17. ASSUME NEW s \in Sessions, DeadlockVictim(s) \/ ConnectionLost(s)
         PROVE  RowsInv' /\ UniqueInv'
    BY <1>17, RollbackKeyInv DEF DeadlockVictim, ConnectionLost
  <1>18. CASE UNCHANGED vars
    BY <1>18, QuietUnique
       DEF vars, RowsInv, IdleIsClean, LockExclusive, FreshIds, WritesLive, TaxKept, HoldsRow
  <1>19. QED
    BY <1>4, <1>5, <1>6, <1>7, <1>8, <1>9, <1>10, <1>11, <1>12, <1>13, <1>14, <1>15, <1>16,
       <1>17, <1>18, CommitKeyInv DEF Next, Proceed

\* The database never holds one tax id twice for a client, although the service checks and
\* inserts in separate statements, and updates change keys.
THEOREM TaxIdStaysUnique == Spec => []TaxIdUnique
  <1>1. KeyInv => TaxIdUnique
    BY DEF KeyInv, UniqueInv
  <1>2. QED
    BY InitKeyInv, StepKeyInv, <1>1, PTL DEF Spec

\* A COMMIT changes only the rows that its session has locked.
LEMMA CommitRows ==
    ASSUME KeyInv, NEW s \in Sessions, Commit(s), NEW p \in Profiles
    PROVE  /\ ~HoldsRow(s, p) => db'[p] = db[p]
           /\ HoldsRow(s, p) => /\ db'[p] = pend[s][p]
                                /\ db[p] # NoRow \/ (loc[s].kind = "create" /\ loc[s].id = p)
  BY DEF Commit, View, HoldsRow, KeyInv, RowsInv, WritesLive

\* Only COMMIT writes the table.
LEMMA OthersKeepTable ==
    ASSUME NEW s \in Sessions,
           Begin(s) \/ (Proceed(s) /\ ~Commit(s)) \/ DeadlockVictim(s) \/ ConnectionLost(s)
    PROVE  db' = db
  BY DEF Begin, BeginCreate, BeginSetDefault, BeginDelete, BeginUpdate, Proceed, Start,
         CountProfiles, InsertProfile, StartDemotion, DemoteRow, EndDemotion, Promote, Refresh,
         SelectSiblings, RemoveRow, CheckTaxId, WriteUpdate, WriteKey, Rollback, Write, Advance,
         DeadlockVictim, ConnectionLost

\* A profile that a committed DELETE removed comes back with no late UPDATE, promotion or
\* rollback: only the create that was given its id makes it.
THEOREM DeletedProfilesStayDeleted == Spec => DeletedStaysDeleted
  <1> DEFINE Kept == \A p \in Profiles : db[p] = NoRow /\ db'[p] # NoRow
                        => \E s \in Sessions : loc[s].kind = "create" /\ loc[s].id = p
  <1>1. KeyInv /\ [Next]_vars => [Kept]_vars
    <2> SUFFICES ASSUME KeyInv, Next PROVE Kept
      OBVIOUS
    <2>1. CASE db' = db
      BY <2>1
    <2>2. ASSUME NEW s \in Sessions, Commit(s) PROVE Kept
      BY <2>2, CommitRows
    <2>3. QED
      BY <2>1, <2>2, OthersKeepTable DEF Next
  <1>2. KeyInv /\ [Next]_vars => KeyInv'
    BY StepKeyInv
  <1>3. QED
    BY InitKeyInv, <1>1, <1>2, PTL DEF Spec, DeletedStaysDeleted

-----------------------------------------------------------------------------
(* Promotions and edits, however they overlap, leave at most one default.   *)
(* Nothing is inserted or deleted, so a promotion holds every other row of  *)
(* the client, demoted, when it commits; and what an edit holds is still as *)
(* the table has it, since no other session can have committed that row.    *)

PromotionsAndEdits == Kinds \subseteq {"update", "set_default"}

Demoted(s, p) == pend[s][p] \in Rows /\ ~pend[s][p].dflt

PromotionOK(s) == loc[s].kind = "set_default" =>
    /\ pc[s] \in {"bulk", "demote", "promote", "refresh", "commit"}
    /\ loc[s].heir = loc[s].id
    /\ pc[s] # "bulk" => \A p \in Others(db, loc[s].id) : p \in loc[s].todo \/ Demoted(s, p)
    /\ pc[s] \notin {"bulk", "demote"} => loc[s].todo = {}
EditOK(s) == loc[s].kind = "update" =>
    /\ pc[s] \in {"check", "write", "key", "refresh", "commit"}
    /\ \A p \in Profiles : HoldsRow(s, p) => pend[s][p].dflt = db[p].dflt
NothingGone(s) == /\ loc[s].kind \in {"none", "set_default", "update"}
                  /\ loc[s].kind = "none" <=> pc[s] = "idle"
                  /\ \A p \in Profiles : pend[s][p] # NoRow

DefaultInv == /\ KeyInv
              /\ \A s \in Sessions : NothingGone(s) /\ PromotionOK(s) /\ EditOK(s)
              /\ OneDefault(db)

LEMMA SeesLive ==
    ASSUME KeyInv, NEW s \in Sessions, NothingGone(s)
    PROVE  Live(View(s)) = Live(db)
  BY NotARow DEF NothingGone, Live, View, HoldsRow, KeyInv, RowsInv, WritesLive

\* A step of session s that commits nothing disturbs only s.
LEMMA DefaultLocal ==
    ASSUME DefaultInv, KeyInv', NEW s \in Sessions, db' = db,
           \A u \in Sessions \ {s} : UNCHANGED <<pc[u], loc[u], pend[u]>>,
           (NothingGone(s) /\ PromotionOK(s) /\ EditOK(s))'
    PROVE  DefaultInv'
  <1>1. ASSUME NEW u \in Sessions \ {s} PROVE (NothingGone(u) /\ PromotionOK(u) /\ EditOK(u))'
    BY <1>1 DEF DefaultInv, NothingGone, PromotionOK, EditOK, Demoted, HoldsRow
  <1>2. QED
    BY <1>1 DEF DefaultInv

LEMMA DefaultRollback ==
    ASSUME DefaultInv, KeyInv', NEW s \in Sessions, Rollback(s)
    PROVE  DefaultInv'
  <1>1. /\ pc'[s] = "idle" /\ loc'[s] = NoRequest /\ pend'[s] = Clean /\ db' = db
        /\ \A u \in Sessions \ {s} : UNCHANGED <<pc[u], loc[u], pend[u]>>
    BY DEF Rollback, Goto, DefaultInv, KeyInv, TypeInv, TypeOK
  <1>2. (NothingGone(s) /\ PromotionOK(s) /\ EditOK(s))'
    BY <1>1, NotARow DEF NothingGone, PromotionOK, EditOK, NoRequest, Clean
  <1>3. QED
    BY <1>1, <1>2, DefaultLocal

LEMMA DefaultBegin ==
    ASSUME PromotionsAndEdits, DefaultInv, KeyInv', NEW s \in Sessions, Begin(s)
    PROVE  DefaultInv'
  <1> USE DEF PromotionsAndEdits
  <1>1. ASSUME NEW step, NEW r, Start(s, step, r),
               \/ r.kind = "set_default" /\ step = "bulk" /\ r.heir = r.id
               \/ r.kind = "update" /\ step \in {"write", "check"}
        PROVE  DefaultInv'
    <2>1. /\ pc'[s] = step /\ loc'[s] = r /\ pend' = pend /\ db' = db /\ pend[s] = Clean
          /\ \A u \in Sessions \ {s} : UNCHANGED <<pc[u], loc[u], pend[u]>>
      BY <1>1 DEF Start, Goto, DefaultInv, KeyInv, TypeInv, TypeOK, RowsInv, IdleIsClean
    <2>2. (NothingGone(s) /\ PromotionOK(s) /\ EditOK(s))'
      BY <1>1, <2>1, NotARow DEF NothingGone, PromotionOK, EditOK, HoldsRow, Clean
    <2>3. QED
      BY <2>1, <2>2, DefaultLocal
  <1>2. CASE BeginSetDefault(s)
    <2>1. PICK p \in Live(db) :
              Start(s, "bulk", [NoRequest EXCEPT !.kind = "set_default", !.id = p,
                                                 !.heir = p, !.dflt = db[p].dflt])
      BY <1>2 DEF BeginSetDefault
    <2> DEFINE r == [NoRequest EXCEPT !.kind = "set_default", !.id = p, !.heir = p,
                                      !.dflt = db[p].dflt]
    <2>2. r.kind = "set_default" /\ r.heir = r.id
      BY DEF NoRequest
    <2>3. Start(s, "bulk", r)
      BY <2>1
    <2> HIDE DEF r
    <2>4. QED
      BY <1>1, <2>2, <2>3
  <1>3. CASE BeginUpdate(s)
    <2>1. PICK p \in Live(db), tax \in TaxIds, step \in {"write", "check"} :
              \/ Start(s, step, [NoRequest EXCEPT !.kind = "update", !.id = p])
              \/ Start(s, step, [NoRequest EXCEPT !.kind = "update", !.id = p, !.tax = tax])
      BY <1>3 DEF BeginUpdate
    <2>2. /\ [NoRequest EXCEPT !.kind = "update", !.id = p].kind = "update"
          /\ [NoRequest EXCEPT !.kind = "update", !.id = p, !.tax = tax].kind = "update"
      BY DEF NoRequest
    <2>3. QED
      BY <1>1, <2>1, <2>2
  <1>4. QED
    BY <1>2, <1>3 DEF Begin, BeginCreate, BeginDelete

\* One statement of a promotion or of an edit.
LEMMA DefaultStatement ==
    ASSUME DefaultInv, KeyInv', NEW s \in Sessions, Proceed(s), ~Commit(s)
    PROVE  DefaultInv'
  <1> USE NotARow DEF DefaultInv, KeyInv, TypeInv, TypeOK
  <1>1. CASE Rollback(s)
    BY <1>1, DefaultRollback
  <1>2. CASE ~Rollback(s)
    <2>1. /\ db' = db /\ NothingGone(s) /\ PromotionOK(s) /\ EditOK(s)
          /\ \A u \in Sessions \ {s} : UNCHANGED <<pc[u], loc[u], pend[u]>>
      <3>1. db' = db
        BY OthersKeepTable
      <3>2. ASSUME NEW u \in Sessions \ {s} PROVE UNCHANGED <<pc[u], loc[u], pend[u]>>
        BY <1>2, <3>2
           DEF Proceed, CountProfiles, InsertProfile, StartDemotion, DemoteRow, EndDemotion,
               Promote, Refresh, SelectSiblings, RemoveRow, CheckTaxId, WriteUpdate, WriteKey,
               Write, Advance, Goto
      <3>3. QED
        BY <3>1, <3>2
    <2>2. SUFFICES (NothingGone(s) /\ PromotionOK(s) /\ EditOK(s))'
      BY <2>1, DefaultLocal
    <2>3. ~CountProfiles(s) /\ ~InsertProfile(s) /\ ~SelectSiblings(s) /\ ~RemoveRow(s)
      BY <2>1 DEF NothingGone, PromotionOK, EditOK, CountProfiles, InsertProfile,
                  SelectSiblings, RemoveRow
    <2>4. CASE StartDemotion(s)
      <3>1. /\ pc[s] = "bulk" /\ pc'[s] = "demote" /\ pend' = pend
            /\ loc' = [loc EXCEPT ![s].todo = Others(View(s), loc[s].id)]
        BY <2>4 DEF StartDemotion, Goto
      <3>2. Others(View(s), loc[s].id) = Others(db, loc[s].id)
        BY <2>1, SeesLive DEF Others
      <3>3. /\ loc'[s].kind = loc[s].kind /\ loc'[s].id = loc[s].id /\ loc'[s].heir = loc[s].heir
            /\ loc'[s].todo = Others(db, loc[s].id)
        BY <3>1, <3>2 DEF Locals
      <3>4. QED
        BY <2>1, <3>1, <3>3 DEF NothingGone, PromotionOK, EditOK
    <2>5. ASSUME NEW p \in Profiles, DemoteRow(s, p)
          PROVE  (NothingGone(s) /\ PromotionOK(s) /\ EditOK(s))'
      <3>1. /\ pc[s] = "demote" /\ pc' = pc
            /\ loc'[s].kind = loc[s].kind /\ loc'[s].id = loc[s].id /\ loc'[s].heir = loc[s].heir
            /\ loc'[s].todo = loc[s].todo \ {p}
            /\ \A q \in Profiles \ {p} : pend'[s][q] = pend[s][q]
        BY <2>5 DEF DemoteRow, Locals
      <3>2. /\ db[p] = NoRow => pend'[s][p] = pend[s][p]
            /\ db[p] # NoRow => pend'[s][p] \in Rows /\ ~pend'[s][p].dflt
        <4>1. db[p] # NoRow => [db[p] EXCEPT !.dflt = FALSE] \in Rows
          BY DEF Version, Rows
        <4>2. db[p] # NoRow => ~[db[p] EXCEPT !.dflt = FALSE].dflt
          BY DEF Version, Rows
        <4>3. /\ db[p] = NoRow => pend' = pend
              /\ db[p] # NoRow => pend' = [pend EXCEPT ![s][p] = [db[p] EXCEPT !.dflt = FALSE]]
          BY <2>5 DEF DemoteRow
        <4>4. db[p] # NoRow => pend'[s][p] = [db[p] EXCEPT !.dflt = FALSE]
          <5> DEFINE v == [db[p] EXCEPT !.dflt = FALSE]
          <5>1. db[p] # NoRow => pend' = [pend EXCEPT ![s][p] = v]
            BY <4>3
          <5> HIDE DEF v
          <5>2. db[p] # NoRow => pend'[s][p] = v
            BY <5>1
          <5>3. QED
            BY <5>2 DEF v
        <4>5. QED
          BY <4>1, <4>2, <4>3, <4>4
      <3>3. loc[s].kind = "set_default"
        BY <2>1, <3>1 DEF NothingGone, EditOK
      <3>4. NothingGone(s)' /\ EditOK(s)'
        BY <2>1, <3>1, <3>2, <3>3 DEF NothingGone, EditOK
      <3>5. \A q \in Others(db, loc[s].id) : q \in loc'[s].todo \/ Demoted(s, q)'
        BY <2>1, <3>1, <3>2, <3>3 DEF PromotionOK, Demoted, Others, Live
      <3>6. QED
        BY <2>1, <3>1, <3>3, <3>4, <3>5 DEF PromotionOK
    <2>6. CASE EndDemotion(s)
      <3>1. /\ pc[s] = "demote" /\ loc[s].todo = {} /\ UNCHANGED <<loc, pend>>
            /\ pc'[s] = IF loc[s].kind = "create" THEN "insert"
                        ELSE IF loc[s].dflt THEN "refresh" ELSE "promote"
        BY <2>6 DEF EndDemotion, Advance, Goto
      <3>2. QED
        BY <2>1, <3>1 DEF NothingGone, PromotionOK, EditOK, Demoted, HoldsRow
    <2>7. CASE Promote(s)
      <3>1. /\ pc[s] = "promote" /\ loc' = loc
            /\ pend' = [pend EXCEPT ![s][loc[s].heir] = [View(s)[loc[s].heir] EXCEPT !.dflt = TRUE]]
            /\ pc'[s] = IF loc[s].kind = "delete" THEN "remove" ELSE "refresh"
            /\ db[loc[s].heir] # NoRow
        BY <1>2, <2>7 DEF Promote, Write, Goto
      <3>2. loc[s].kind = "set_default" /\ loc[s].heir = loc[s].id
        BY <2>1, <3>1 DEF NothingGone, PromotionOK, EditOK
      <3>3. \A q \in Others(db, loc[s].id) : pend'[s][q] = pend[s][q]
        BY <3>1, <3>2 DEF Others, Live
      <3>4. \A p \in Profiles : pend'[s][p] # NoRow
        <4>1. loc[s].id \in Profiles /\ pend[s][loc[s].id] # NoRow
          BY <2>1, <3>1 DEF NothingGone, RequestsName
        <4>2. View(s)[loc[s].id] \in Rows
          <5>1. /\ pend[s][loc[s].id] \in Version \cup {Unwritten} /\ db[loc[s].id] \in Version
                /\ db[loc[s].id] # NoRow
            BY <3>1, <3>2, <4>1
          <5>2. View(s)[loc[s].id] = IF pend[s][loc[s].id] = Unwritten THEN db[loc[s].id]
                                     ELSE pend[s][loc[s].id]
            BY <4>1 DEF View
          <5>3. QED
            BY <4>1, <5>1, <5>2 DEF Version
        <4> DEFINE v == [View(s)[loc[s].id] EXCEPT !.dflt = TRUE]
        <4>3. v \in Rows
          BY <4>2 DEF Rows
        <4>4. pend' = [pend EXCEPT ![s][loc[s].id] = v]
          BY <3>1, <3>2
        <4> HIDE DEF v
        <4>5. \A p \in Profiles : pend'[s][p] = IF p = loc[s].id THEN v ELSE pend[s][p]
          BY <4>1, <4>4
        <4>6. QED
          BY <2>1, <4>3, <4>5 DEF NothingGone
      <3>5. QED
        <4>1. NothingGone(s)' /\ EditOK(s)'
          BY <2>1, <3>1, <3>2, <3>4 DEF NothingGone, EditOK
        <4>2. \A q \in Others(db, loc[s].id) : q \in loc[s].todo \/ Demoted(s, q)'
          <5>1. \A q \in Others(db, loc[s].id) : q \in loc[s].todo \/ Demoted(s, q)
            BY <2>1, <3>1, <3>2 DEF PromotionOK
          <5>2. QED
            BY <3>3, <5>1 DEF Demoted
        <4>3. /\ pc'[s] = "refresh" /\ loc'[s] = loc[s] /\ loc[s].todo = {}
              /\ loc[s].heir = loc[s].id
          BY <2>1, <3>1, <3>2 DEF PromotionOK
        <4>4. PromotionOK(s)'
          BY <2>1, <4>2, <4>3 DEF PromotionOK
        <4>5. QED
          BY <4>1, <4>4, <3>4 DEF NothingGone
    <2>8. CASE Refresh(s) \/ CheckTaxId(s)
      <3>1. /\ UNCHANGED <<loc, pend>>
            /\ \/ pc[s] = "refresh" /\ pc'[s] = "commit"
               \/ pc[s] = "check" /\ pc'[s] = "write"
        BY <1>2, <2>8 DEF Refresh, CheckTaxId, Advance, Goto
      <3>2. QED
        BY <2>1, <3>1 DEF NothingGone, PromotionOK, EditOK, Demoted, HoldsRow
    <2>9. CASE WriteUpdate(s) \/ WriteKey(s)
      <3> DEFINE p == loc[s].id
      <3>1. PICK v \in Version \ {NoRow} :
                /\ pend' = [pend EXCEPT ![s][p] = v] /\ v.dflt = db[p].dflt /\ loc' = loc
                /\ pc[s] \in {"write", "key"} /\ pc'[s] \in {"key", "refresh"}
        <4>1. p \in Profiles
          BY <2>9 DEF WriteUpdate, WriteKey, RequestsName
        <4>2. CASE WriteUpdate(s)
          BY <1>2, <4>1, <4>2 DEF WriteUpdate, Write, Goto
        <4>3. CASE WriteKey(s)
          <5>1. loc[s].kind = "update" /\ pend[s][p] \in Rows /\ HoldsRow(s, p)
            BY <2>1, <4>1, <4>3
               DEF WriteKey, NothingGone, PromotionOK, KeysBelongToRow, HoldsRow, Version
          <5>2. View(s)[p] \in Rows /\ View(s)[p].dflt = db[p].dflt
            BY <2>1, <4>1, <5>1 DEF View, HoldsRow, EditOK
          <5>3. loc[s].tax \in TaxIds
            BY <4>3 DEF WriteKey, KeysAreGiven, Locals
          <5> DEFINE v == [View(s)[p] EXCEPT !.tax = loc[s].tax]
          <5>4. v \in Rows /\ v.dflt = db[p].dflt
            BY <5>2, <5>3 DEF Rows
          <5>5. Write(s, p, v, "refresh") /\ pc[s] = "key"
            BY <1>2, <4>3 DEF WriteKey
          <5> HIDE DEF v
          <5>6. QED
            BY <5>4, <5>5 DEF Write, Goto, Version
        <4>4. QED
          BY <2>9, <4>2, <4>3
      <3>2. loc[s].kind = "update"
        BY <2>1, <3>1 DEF NothingGone, PromotionOK
      <3>3. QED
        BY <2>1, <3>1, <3>2 DEF NothingGone, PromotionOK, EditOK, HoldsRow
    <2>10. QED
      BY <2>3, <2>4, <2>5, <2>6, <2>7, <2>8, <2>9 DEF Proceed
  <1>3. QED
    BY <1>1, <1>2

\* What a session commits has at most one default, and no row comes or goes.
LEMMA DefaultCommit ==
    ASSUME DefaultInv, KeyInv', NEW s \in Sessions, Commit(s)
    PROVE  DefaultInv'
  <1> USE NotARow
  <1>1. /\ KeyInv /\ NothingGone(s) /\ PromotionOK(s) /\ EditOK(s) /\ pc[s] = "commit"
        /\ db' = View(s) /\ Live(View(s)) = Live(db)
        /\ db \in [Profiles -> Version]
        /\ pend \in [Sessions -> [Profiles -> Version \cup {Unwritten}]]
    BY SeesLive DEF DefaultInv, Commit, KeyInv, TypeInv, TypeOK
  <1>2. /\ pc'[s] = "idle" /\ loc'[s] = NoRequest /\ pend'[s] = Clean
        /\ \A u \in Sessions \ {s} : UNCHANGED <<pc[u], loc[u], pend[u]>>
    BY DEF Commit, Goto, DefaultInv, KeyInv, TypeInv, TypeOK
  <1>3. OneDefault(View(s))
    <2>1. CASE loc[s].kind = "set_default"
      <3>1. \A p \in Others(db, loc[s].id) : Demoted(s, p)
        BY <1>1, <2>1 DEF PromotionOK
      <3>2. \A p \in Others(db, loc[s].id) : ~View(s)[p].dflt
        BY <3>1 DEF View, Demoted, Others, Live
      <3>3. QED
        BY <1>1, <3>2 DEF OneDefault, Others
    <2>2. CASE loc[s].kind = "update"
      <3>1. \A p \in Profiles : View(s)[p].dflt = db[p].dflt
        BY <1>1, <2>2 DEF EditOK, View, HoldsRow
      <3>2. QED
        BY <1>1, <3>1 DEF OneDefault, DefaultInv, Live
    <2>3. QED
      BY <1>1, <2>1, <2>2 DEF NothingGone
  <1>4. (NothingGone(s) /\ PromotionOK(s) /\ EditOK(s))'
    BY <1>2 DEF NothingGone, PromotionOK, EditOK, NoRequest, Clean
  <1>5. ASSUME NEW u \in Sessions \ {s} PROVE (NothingGone(u) /\ PromotionOK(u) /\ EditOK(u))'
    <2>1. NothingGone(u) /\ PromotionOK(u) /\ EditOK(u)
      BY DEF DefaultInv
    <2>2. NothingGone(u)'
      BY <1>2, <1>5, <2>1 DEF NothingGone
    <2>3. Others(db', loc[u].id) = Others(db, loc[u].id)
      BY <1>1 DEF Others
    <2>4. PromotionOK(u)'
      BY <1>2, <1>5, <2>1, <2>3 DEF PromotionOK, Demoted
    <2>5. \A p \in Profiles : HoldsRow(u, p) => db'[p] = db[p]
      BY <1>1, <1>5 DEF View, HoldsRow, KeyInv, RowsInv, LockExclusive
    <2>6. EditOK(u)'
      BY <1>2, <1>5, <2>1, <2>5 DEF EditOK, HoldsRow
    <2>7. QED
      BY <2>2, <2>4, <2>6
  <1>6. QED
    BY <1>1, <1>3, <1>4, <1>5 DEF DefaultInv

\* Where only edits and promotions run, the client never has two default profiles, however
\* many of them overlap.
THEOREM PromotionsKeepOneDefault == ASSUME PromotionsAndEdits PROVE Spec => []AtMostOneDefault
  <1>1. Init => DefaultInv
    BY InitKeyInv, NotARow
       DEF Init, DefaultInv, NothingGone, PromotionOK, EditOK, NoRequest, Clean, Settled
  <1>2. DefaultInv /\ [Next]_vars => DefaultInv'
    <2> SUFFICES ASSUME DefaultInv, [Next]_vars PROVE DefaultInv'
      OBVIOUS
    <2>1. KeyInv'
      BY StepKeyInv DEF DefaultInv
    <2>2. CASE Next
      BY <2>1, <2>2, DefaultBegin, DefaultStatement, DefaultCommit, DefaultRollback
         DEF Next, DeadlockVictim, ConnectionLost
    <2>3. CASE UNCHANGED vars
      BY <2>1, <2>3 DEF vars, DefaultInv, NothingGone, PromotionOK, EditOK, Demoted, HoldsRow
    <2>4. QED
      BY <2>2, <2>3
  <1>3. DefaultInv => AtMostOneDefault
    BY DEF DefaultInv, AtMostOneDefault
  <1>4. QED
    BY <1>1, <1>2, <1>3, PTL DEF Spec

-----------------------------------------------------------------------------
(* One request at a time: the refinement of BillingAtomic.  The invariant   *)
(* says what the only session sees (View) before each of its statements:    *)
(* the committed table with the changes of its request so far, and the      *)
(* checks it has passed, which nobody else can undo.                        *)

OneAtATime == \A s, u \in Sessions : s = u

NothingWritten == {"idle", "count", "bulk", "siblings", "check", "write"}

\* The table under the new profile of a create, and the one that a promotion or an edit leaves.
Base(r)     == IF r.dflt THEN Demote(db, Profiles) ELSE db
Promoted(r) == [Demote(db, Profiles) EXCEPT ![r.id].dflt = TRUE]
Edited(r)   == IF r.tax = Unwritten THEN db ELSE [db EXCEPT ![r.id].tax = r.tax]

Demoting(step, r, view) == step = "demote" => /\ r.todo \subseteq Others(db, r.id)
                                              /\ view = Demote(db, Others(db, r.id) \ r.todo)

CreateSees(step, r, view) == r.kind = "create" =>
    /\ step \in {"count", "bulk", "demote", "insert", "commit"}
    /\ r.tax \in TaxIds /\ ~TaxTaken(db, r.tax, Profiles)
    /\ \A q \in Live(db) : q < r.id
    /\ step # "count" /\ Live(db) = {} => r.dflt
    /\ step \in {"bulk", "demote"} => r.dflt
    /\ step = "insert" => view = Base(r)
    /\ step = "commit" => view = [Base(r) EXCEPT ![r.id] = [tax |-> r.tax, dflt |-> r.dflt]]

SetDefaultSees(step, r, view) == r.kind = "set_default" =>
    /\ step \in {"bulk", "demote", "promote", "refresh", "commit"}
    /\ r.id \in Live(db) /\ r.heir = r.id /\ r.dflt = db[r.id].dflt
    /\ step = "promote" => view = Demote(db, Others(db, r.id))
    /\ step \in {"refresh", "commit"} => view = Promoted(r)

DeleteSees(step, r, view) == r.kind = "delete" =>
    /\ step \in {"siblings", "promote", "remove", "commit"}
    /\ r.id \in Live(db)
    /\ step \in {"siblings", "promote"} => db[r.id].dflt
    /\ step = "promote" \/ (step \in {"remove", "commit"} /\ db[r.id].dflt)
          => Oldest(r.heir, Others(db, r.id))
    /\ step = "promote" => view = db
    /\ step = "remove" => view = IF db[r.id].dflt THEN [db EXCEPT ![r.heir].dflt = TRUE] ELSE db
    /\ step = "commit" => view = IF db[r.id].dflt
                                 THEN [db EXCEPT ![r.heir].dflt = TRUE, ![r.id] = NoRow]
                                 ELSE [db EXCEPT ![r.id] = NoRow]

EditSees(step, r, view) == r.kind = "update" =>
    /\ step \in {"check", "write", "key", "refresh", "commit"}
    /\ r.id \in Live(db)
    /\ step # "check" /\ r.tax # Unwritten => ~TaxTaken(db, r.tax, Others(db, r.id))
    /\ step = "key" => view = db
    /\ step \in {"refresh", "commit"} => view = Edited(r)

Sees(step, r, view) ==
    /\ r.kind = "none" => step = "idle"
    /\ r.kind # "none" => r.kind \in Kinds
    /\ step \in NothingWritten => view = db
    /\ Demoting(step, r, view) /\ CreateSees(step, r, view) /\ SetDefaultSees(step, r, view)
    /\ DeleteSees(step, r, view) /\ EditSees(step, r, view)

SerialInv == /\ KeyInv /\ SomeDefault(db) /\ OneDefault(db)
             /\ \A s \in Sessions : Sees(pc[s], loc[s], View(s))

\* BillingAtomic has the same table.
LEMMA SameTable ==
    /\ Atomic!Rows = Rows
    /\ \A t : Atomic!Live(t) = Live(t)
    /\ \A t, p : Atomic!Others(t, p) = Others(t, p)
    /\ \A t, S : Atomic!Demote(t, S) = Demote(t, S)
    /\ \A t, x, S : Atomic!TaxTaken(t, x, S) <=> TaxTaken(t, x, S)
    /\ \A p, S : Atomic!Oldest(p, S) <=> Oldest(p, S)
    /\ \A t : Atomic!Settled(t) <=> Settled(t)
  <1>1. Atomic!Rows = Rows
    BY DEF Atomic!Rows, Rows
  <1>2. /\ \A t : Atomic!Live(t) = Live(t)
        /\ \A t, p : Atomic!Others(t, p) = Others(t, p)
    BY DEF Atomic!Live, Live, Atomic!Others, Others
  <1>3. \A t, S : Atomic!Demote(t, S) = Demote(t, S)
    BY DEF Atomic!Demote, Demote
  <1>4. /\ \A t, x, S : Atomic!TaxTaken(t, x, S) <=> TaxTaken(t, x, S)
        /\ \A p, S : Atomic!Oldest(p, S) <=> Oldest(p, S)
    BY DEF Atomic!TaxTaken, TaxTaken, Atomic!Oldest, Oldest
  <1>5. \A t : Atomic!Settled(t) <=> Settled(t)
    BY <1>1, <1>2 DEF Atomic!Settled, Settled, Atomic!UniqueTaxIds, UniqueTaxIds,
                      Atomic!SomeDefault, SomeDefault, Atomic!OneDefault, OneDefault
  <1>6. QED
    BY <1>1, <1>2, <1>3, <1>4, <1>5

\* How a statement changes what its session sees.
LEMMA WriteView ==
    ASSUME TypeInv, NEW s \in Sessions, NEW p \in Profiles, NEW v \in Version,
           pend' = [pend EXCEPT ![s][p] = v], db' = db
    PROVE  View(s)' = [View(s) EXCEPT ![p] = v]
  <1>1. \A q \in Profiles : pend'[s][q] = IF q = p THEN v ELSE pend[s][q]
    BY DEF TypeInv, TypeOK
  <1>2. QED
    BY <1>1, NotARow DEF View, Version

LEMMA ReadView ==
    ASSUME NEW s \in Sessions, pend'[s] = pend[s], db' = db
    PROVE  View(s)' = View(s)
  BY DEF View

LEMMA CleanView ==
    ASSUME TypeInv, NEW s \in Sessions, pend[s] = Clean
    PROVE  View(s) = db
  BY DEF View, Clean, TypeInv, TypeOK

\* What a session sees stays so when only the session moves on.
LEMMA SeesKept ==
    ASSUME NEW s \in Sessions, NEW step, NEW r, NEW view, Sees(step, r, view), db' = db,
           pc'[s] = step, loc'[s] = r, View(s)' = view
    PROVE  Sees(pc[s], loc[s], View(s))'
  <1>1. Demoting(pc[s], loc[s], View(s))'
    BY DEF Sees, Demoting
  <1>2. CreateSees(pc[s], loc[s], View(s))'
    BY DEF Sees, CreateSees, Base
  <1>3. SetDefaultSees(pc[s], loc[s], View(s))'
    BY DEF Sees, SetDefaultSees, Promoted
  <1>4. DeleteSees(pc[s], loc[s], View(s))'
    BY DEF Sees, DeleteSees
  <1>5. EditSees(pc[s], loc[s], View(s))'
    BY DEF Sees, EditSees, Edited
  <1>6. QED
    BY <1>1, <1>2, <1>3, <1>4, <1>5 DEF Sees

LEMMA SerialLocal ==
    ASSUME OneAtATime, SerialInv, KeyInv', NEW s \in Sessions, db' = db,
           Sees(pc[s], loc[s], View(s))'
    PROVE  SerialInv'
  BY DEF OneAtATime, SerialInv

LEMMA SerialRollback ==
    ASSUME OneAtATime, SerialInv, KeyInv', NEW s \in Sessions, Rollback(s)
    PROVE  SerialInv'
  <1>1. /\ pc'[s] = "idle" /\ loc'[s] = NoRequest /\ pend'[s] = Clean /\ db' = db
    BY DEF Rollback, Goto, SerialInv, KeyInv, TypeInv, TypeOK
  <1>2. View(s)' = db
    BY <1>1 DEF View, Clean, SerialInv, KeyInv, TypeInv, TypeOK
  <1>3. Sees(pc[s], loc[s], View(s))'
    BY <1>1, <1>2
       DEF Sees, Demoting, CreateSees, SetDefaultSees, DeleteSees, EditSees, NoRequest
  <1>4. QED
    BY <1>1, <1>3, SerialLocal

LEMMA SerialBegin ==
    ASSUME OneAtATime, SerialInv, KeyInv', NEW s \in Sessions, Begin(s)
    PROVE  SerialInv'
  <1> USE DEF SerialInv, KeyInv
  <1>1. ASSUME NEW step \in NothingWritten, NEW r, Start(s, step, r), r.kind \in Kinds \ {"none"},
               CreateSees(step, r, db), SetDefaultSees(step, r, db), DeleteSees(step, r, db),
               EditSees(step, r, db)
        PROVE  SerialInv'
    <2>1. pc'[s] = step /\ loc'[s] = r /\ db' = db /\ pend' = pend /\ pend[s] = Clean
      BY <1>1 DEF Start, Goto, TypeInv, TypeOK, RowsInv, IdleIsClean
    <2>2. View(s)' = db
      BY <2>1, CleanView, ReadView
    <2>3. Demoting(step, r, db)
      BY DEF Demoting, NothingWritten
    <2>4. Sees(pc[s], loc[s], View(s))'
      BY <1>1, <2>1, <2>2, <2>3
         DEF Sees, Demoting, CreateSees, SetDefaultSees, DeleteSees, EditSees, NothingWritten
    <2>5. QED
      BY <2>1, <2>4, SerialLocal
  <1>2. CASE BeginCreate(s)
    <2>1. PICK p \in Profiles, tax \in TaxIds, want \in BOOLEAN :
              /\ \A q \in UsedIds : q < p
              /\ ~TaxTaken(View(s), tax, Profiles)
              /\ Start(s, "count", [NoRequest EXCEPT !.kind = "create", !.id = p,
                                                    !.tax = tax, !.dflt = want])
      BY <1>2 DEF BeginCreate
    <2>2. View(s) = db
      BY <2>1, CleanView DEF Start, RowsInv, IdleIsClean
    <2>3. "create" \in Kinds /\ Live(db) \subseteq UsedIds
      BY <1>2 DEF BeginCreate, UsedIds
    <2> DEFINE r == [NoRequest EXCEPT !.kind = "create", !.id = p, !.tax = tax, !.dflt = want]
    <2>4. r.kind = "create" /\ r.id = p /\ r.tax = tax
      BY DEF NoRequest
    <2>5. Start(s, "count", r)
      BY <2>1
    <2> HIDE DEF r
    <2>6. CreateSees("count", r, db)
      BY <2>1, <2>2, <2>3, <2>4 DEF CreateSees
    <2>7. QED
      BY <1>1, <2>3, <2>4, <2>5, <2>6 DEF NothingWritten, SetDefaultSees, DeleteSees, EditSees
  <1>3. CASE BeginSetDefault(s)
    <2>1. PICK p \in Live(db) :
              Start(s, "bulk", [NoRequest EXCEPT !.kind = "set_default", !.id = p,
                                                 !.heir = p, !.dflt = db[p].dflt])
      BY <1>3 DEF BeginSetDefault
    <2> DEFINE r == [NoRequest EXCEPT !.kind = "set_default", !.id = p, !.heir = p,
                                      !.dflt = db[p].dflt]
    <2>2. r.kind = "set_default" /\ r.id = p /\ r.heir = p /\ r.dflt = db[p].dflt
      BY DEF NoRequest
    <2>3. Start(s, "bulk", r) /\ "set_default" \in Kinds
      BY <1>3, <2>1 DEF BeginSetDefault
    <2> HIDE DEF r
    <2>4. QED
      BY <1>1, <2>1, <2>2, <2>3
         DEF NothingWritten, CreateSees, SetDefaultSees, DeleteSees, EditSees
  <1>4. CASE BeginDelete(s)
    <2>1. PICK p \in Live(db) :
              Start(s, IF db[p].dflt THEN "siblings" ELSE "remove",
                    [NoRequest EXCEPT !.kind = "delete", !.id = p])
      BY <1>4 DEF BeginDelete
    <2> DEFINE r == [NoRequest EXCEPT !.kind = "delete", !.id = p]
    <2>2. r.kind = "delete" /\ r.id = p
      BY DEF NoRequest
    <2>3. /\ "delete" \in Kinds
          /\ \/ db[p].dflt /\ Start(s, "siblings", r)
             \/ ~db[p].dflt /\ Start(s, "remove", r)
      BY <1>4, <2>1 DEF BeginDelete
    <2> HIDE DEF r
    <2>4. CASE db[p].dflt /\ Start(s, "siblings", r)
      BY <1>1, <2>1, <2>2, <2>3, <2>4
         DEF NothingWritten, CreateSees, SetDefaultSees, DeleteSees, EditSees
    <2>5. CASE ~db[p].dflt /\ Start(s, "remove", r)
      <3>1. pc'[s] = "remove" /\ loc'[s] = r /\ db' = db /\ pend' = pend /\ pend[s] = Clean
        BY <2>5 DEF Start, Goto, TypeInv, TypeOK, RowsInv, IdleIsClean
      <3>2. View(s)' = db
        BY <3>1, CleanView, ReadView
      <3>3. Sees(pc[s], loc[s], View(s))'
        BY <2>1, <2>2, <2>3, <2>5, <3>1, <3>2
           DEF Sees, Demoting, CreateSees, SetDefaultSees, DeleteSees, EditSees, NothingWritten
      <3>4. QED
        BY <3>1, <3>3, SerialLocal
    <2>6. QED
      BY <2>3, <2>4, <2>5
  <1>5. CASE BeginUpdate(s)
    <2>1. PICK p \in Live(db), tax \in TaxIds :
              IF db[p].tax = tax
              THEN Start(s, "write", [NoRequest EXCEPT !.kind = "update", !.id = p])
              ELSE Start(s, "check", [[NoRequest EXCEPT !.kind = "update", !.id = p]
                                         EXCEPT !.tax = tax])
      BY <1>5 DEF BeginUpdate
    <2>2. "update" \in Kinds
      BY <1>5 DEF BeginUpdate
    <2>3. CASE db[p].tax = tax
      <3> DEFINE r == [NoRequest EXCEPT !.kind = "update", !.id = p]
      <3>1. r.kind = "update" /\ r.id = p /\ r.tax = Unwritten
        BY DEF NoRequest
      <3>2. Start(s, "write", r)
        BY <2>1, <2>3
      <3> HIDE DEF r
      <3>3. QED
        BY <1>1, <2>1, <2>2, <3>1, <3>2
           DEF NothingWritten, CreateSees, SetDefaultSees, DeleteSees, EditSees
    <2>4. CASE db[p].tax # tax
      <3> DEFINE r == [[NoRequest EXCEPT !.kind = "update", !.id = p] EXCEPT !.tax = tax]
      <3>1. r.kind = "update" /\ r.id = p
        BY DEF NoRequest
      <3>2. Start(s, "check", r)
        BY <2>1, <2>4
      <3> HIDE DEF r
      <3>3. QED
        BY <1>1, <2>1, <2>2, <3>1, <3>2
           DEF NothingWritten, CreateSees, SetDefaultSees, DeleteSees, EditSees
    <2>5. QED
      BY <2>3, <2>4
  <1>6. QED
    BY <1>2, <1>3, <1>4, <1>5 DEF Begin

\* The rows that a demotion has reached, and those it has left.
LEMMA DemoteRows ==
    ASSUME NEW t \in [Profiles -> Version]
    PROVE  /\ Demote(t, {}) = t
           /\ Live(t) = {} => Demote(t, Profiles) = t
           /\ \A p : p \notin Live(t) => Demote(t, Others(t, p)) = Demote(t, Profiles)
           /\ \A p \in Live(t) : t[p].dflt /\ t[p] \in Rows =>
                 Demote(t, Others(t, p)) = [Demote(t, Profiles) EXCEPT ![p].dflt = TRUE]
  <1>1. Demote(t, {}) = t /\ (Live(t) = {} => Demote(t, Profiles) = t)
    BY DEF Demote, Live
  <1>2. ASSUME NEW p, p \notin Live(t) PROVE Demote(t, Others(t, p)) = Demote(t, Profiles)
    BY <1>2 DEF Demote, Others, Live
  <1>3. ASSUME NEW p \in Live(t), t[p].dflt, t[p] \in Rows
        PROVE  Demote(t, Others(t, p)) = [Demote(t, Profiles) EXCEPT ![p].dflt = TRUE]
    <2>1. [[t[p] EXCEPT !.dflt = FALSE] EXCEPT !.dflt = TRUE] = t[p]
      BY <1>3 DEF Rows
    <2>2. p \in Profiles /\ t[p] # NoRow
      BY DEF Live
    <2>3. Demote(t, Profiles)[p] = [t[p] EXCEPT !.dflt = FALSE]
      BY <2>2 DEF Demote
    <2>4. [Demote(t, Profiles) EXCEPT ![p].dflt = TRUE]
             = [Demote(t, Profiles) EXCEPT ![p] = t[p]]
      BY <2>1, <2>3
    <2>5. Demote(t, Others(t, p)) = [Demote(t, Profiles) EXCEPT ![p] = t[p]]
      BY <2>2 DEF Demote, Others, Live
    <2>6. QED
      BY <2>4, <2>5
  <1>4. QED
    BY <1>1, <1>2, <1>3

LEMMA DemoteOneMore ==
    ASSUME NEW t \in [Profiles -> Version], NEW p \in Live(t), NEW S \in SUBSET Profiles
    PROVE  Demote(t, S \cup {p}) = [Demote(t, S) EXCEPT ![p] = [t[p] EXCEPT !.dflt = FALSE]]
  BY DEF Demote, Live

\* Which requests come to which statements.
LEMMA KindOfStep ==
    ASSUME NEW step, NEW r \in Locals, NEW view, Sees(step, r, view)
    PROVE  /\ step \in {"bulk", "demote"} => r.kind \in {"create", "set_default"}
           /\ step = "insert" => r.kind = "create"
           /\ step = "promote" => r.kind \in {"set_default", "delete"}
           /\ step \in {"siblings", "remove"} => r.kind = "delete"
           /\ step \in {"write", "key"} => r.kind = "update"
           /\ step = "commit" => r.kind \in {"create", "set_default", "delete", "update"}
  <1>1. r.kind \in {"none", "create", "set_default", "delete", "update"}
    BY DEF Locals
  <1>2. /\ r.kind = "none" => step = "idle"
        /\ r.kind = "create" => step \in {"count", "bulk", "demote", "insert", "commit"}
        /\ r.kind = "set_default" => step \in {"bulk", "demote", "promote", "refresh", "commit"}
        /\ r.kind = "delete" => step \in {"siblings", "promote", "remove", "commit"}
        /\ r.kind = "update" => step \in {"check", "write", "key", "refresh", "commit"}
    BY DEF Sees, CreateSees, SetDefaultSees, DeleteSees, EditSees
  <1>3. QED
    BY <1>1, <1>2

\* Statements of session s that write nothing.
LEMMA SerialRead ==
    ASSUME OneAtATime, SerialInv, KeyInv', NEW s \in Sessions, ~Rollback(s),
           \/ CountProfiles(s) \/ StartDemotion(s) \/ EndDemotion(s) \/ Refresh(s)
           \/ SelectSiblings(s) \/ CheckTaxId(s)
    PROVE  SerialInv'
  <1> USE DEF SerialInv
  <1> DEFINE r == loc[s]
             view == View(s)
  <1>1. /\ TypeInv /\ r \in Locals /\ Sees(pc[s], r, view)
        /\ db \in [Profiles -> Version]
        /\ pc[s] # "idle" => r.id \in Profiles
        /\ \A p \in Live(db) : p \in Profiles /\ db[p] \in Rows
    BY DEF KeyInv, TypeInv, TypeOK, RequestsName, Version, Live
  <1>2. ASSUME NEW step, NEW l, pc' = [pc EXCEPT ![s] = step], loc' = [loc EXCEPT ![s] = l],
               UNCHANGED <<db, pend>>, Sees(step, l, view)
        PROVE  SerialInv'
    <2>1. pc'[s] = step /\ loc'[s] = l /\ View(s)' = view /\ db' = db
      BY <1>2, ReadView DEF KeyInv, TypeInv, TypeOK
    <2>2. Sees(pc[s], loc[s], View(s))'
      BY <1>2, <2>1, SeesKept
    <2>3. QED
      BY <2>1, <2>2, SerialLocal
  <1>3. ASSUME NEW step, Advance(s, step), Sees(step, r, view)
        PROVE  SerialInv'
    <2>1. loc' = [loc EXCEPT ![s] = r]
      BY <1>3 DEF Advance, KeyInv, TypeInv, TypeOK
    <2>2. QED
      BY <1>2, <1>3, <2>1 DEF Advance, Goto
  <1>4. CASE CountProfiles(s)
    <2>1. pc[s] = "count" /\ r.kind = "create" /\ view = db
      BY <1>1, <1>4 DEF CountProfiles, TypeInv, KeysAreGiven, Sees, NothingWritten
    <2>2. CASE Live(view) = {}
      <3> DEFINE l == [r EXCEPT !.dflt = TRUE]
      <3>1. l.kind = "create" /\ l.id = r.id /\ l.tax = r.tax /\ l.dflt = TRUE
        BY <1>1, <2>1 DEF Locals
      <3>2. /\ pc' = [pc EXCEPT ![s] = "insert"] /\ loc' = [loc EXCEPT ![s] = l]
            /\ UNCHANGED <<db, pend>>
        BY <1>4, <2>2 DEF CountProfiles, Goto
      <3> HIDE DEF l
      <3>3. view = Base(l)
        BY <1>1, <2>1, <2>2, <3>1, DemoteRows DEF Base
      <3>4. Sees("insert", l, view)
        BY <1>1, <2>1, <3>1, <3>3
           DEF Sees, Demoting, CreateSees, SetDefaultSees, DeleteSees, EditSees, NothingWritten
      <3>5. QED
        BY <1>2, <3>2, <3>4
    <2>3. CASE Live(view) # {}
      <3>1. Advance(s, IF r.dflt THEN "bulk" ELSE "insert")
        BY <1>4, <2>3 DEF CountProfiles, Advance
      <3>2. Sees(IF r.dflt THEN "bulk" ELSE "insert", r, view)
        BY <1>1, <2>1, <2>3
           DEF Sees, Demoting, CreateSees, SetDefaultSees, DeleteSees, EditSees,
               NothingWritten, Base
      <3>3. QED
        BY <1>3, <3>1, <3>2
    <2>4. QED
      BY <2>2, <2>3
  <1>5. CASE StartDemotion(s)
    <2> DEFINE l == [r EXCEPT !.todo = Others(view, r.id)]
    <2>1. pc[s] = "bulk" /\ view = db /\ r.kind \in {"create", "set_default"}
      BY <1>1, <1>5, KindOfStep DEF StartDemotion, Sees, NothingWritten
    <2>2. /\ l.kind = r.kind /\ l.id = r.id /\ l.tax = r.tax /\ l.dflt = r.dflt
          /\ l.heir = r.heir /\ l.todo = Others(db, r.id)
      BY <1>1, <2>1 DEF Locals
    <2>3. /\ pc' = [pc EXCEPT ![s] = "demote"] /\ loc' = [loc EXCEPT ![s] = l]
          /\ UNCHANGED <<db, pend>>
      BY <1>5 DEF StartDemotion, Goto
    <2> HIDE DEF l
    <2>4. Others(db, r.id) \ l.todo = {}
      BY <2>2
    <2>5. Demoting("demote", l, view)
      BY <1>1, <2>1, <2>2, <2>4, DemoteRows DEF Demoting
    <2>6. Sees("demote", l, view)
      BY <1>1, <2>1, <2>2, <2>5
         DEF Sees, CreateSees, SetDefaultSees, DeleteSees, EditSees, NothingWritten
    <2>7. QED
      BY <1>2, <2>3, <2>6
  <1>6. CASE EndDemotion(s)
    <2>1. pc[s] = "demote" /\ r.todo = {} /\ r.kind \in {"create", "set_default"}
      BY <1>1, <1>6, KindOfStep DEF EndDemotion
    <2>2. view = Demote(db, Others(db, r.id))
      <3>1. Others(db, r.id) \ r.todo = Others(db, r.id)
        BY <2>1
      <3>2. QED
        BY <1>1, <2>1, <3>1 DEF Sees, Demoting
    <2>3. CASE r.kind = "create"
      <3>1. Advance(s, "insert")
        BY <1>6, <2>3 DEF EndDemotion
      <3>2. r.id \notin Live(db) /\ r.dflt
        BY <1>1, <2>1, <2>3, ProfilesAssumption DEF Sees, CreateSees, Locals
      <3>3. view = Base(r)
        BY <1>1, <2>2, <3>2, DemoteRows DEF Base
      <3>4. Sees("insert", r, view)
        BY <1>1, <2>1, <2>3, <3>3
           DEF Sees, Demoting, CreateSees, SetDefaultSees, DeleteSees, EditSees, NothingWritten
      <3>5. QED
        BY <1>3, <3>1, <3>4
    <2>4. CASE r.kind = "set_default"
      <3>1. r.id \in Live(db) /\ r.dflt = db[r.id].dflt
        BY <1>1, <2>4 DEF Sees, SetDefaultSees
      <3>2. CASE r.dflt
        <4>1. Advance(s, "refresh")
          BY <1>6, <2>4, <3>2 DEF EndDemotion
        <4>2. view = Promoted(r)
          BY <1>1, <2>2, <3>1, <3>2, DemoteRows DEF Promoted
        <4>3. Sees("refresh", r, view)
          BY <1>1, <2>1, <2>4, <4>2
             DEF Sees, Demoting, CreateSees, SetDefaultSees, DeleteSees, EditSees, NothingWritten
        <4>4. QED
          BY <1>3, <4>1, <4>3
      <3>3. CASE ~r.dflt
        <4>1. Advance(s, "promote")
          BY <1>6, <2>4, <3>3 DEF EndDemotion
        <4>2. Sees("promote", r, view)
          BY <1>1, <2>1, <2>2, <2>4
             DEF Sees, Demoting, CreateSees, SetDefaultSees, DeleteSees, EditSees, NothingWritten
        <4>3. QED
          BY <1>3, <4>1, <4>2
      <3>4. QED
        BY <3>2, <3>3
    <2>5. QED
      BY <2>1, <2>3, <2>4
  <1>7. CASE Refresh(s)
    <2>1. pc[s] = "refresh" /\ Advance(s, "commit")
      BY <1>7 DEF Refresh
    <2>2. Sees("commit", r, view)
      BY <1>1, <2>1
         DEF Sees, Demoting, CreateSees, SetDefaultSees, DeleteSees, EditSees, NothingWritten
    <2>3. QED
      BY <1>3, <2>1, <2>2
  <1>8. CASE SelectSiblings(s)
    <2>1. pc[s] = "siblings" /\ view = db
      BY <1>1, <1>8 DEF SelectSiblings, Sees, NothingWritten
    <2>2. r.kind = "delete" /\ r.id \in Live(db) /\ db[r.id].dflt
      BY <1>1, <2>1, KindOfStep DEF Sees, DeleteSees
    <2>3. PICK h \in Others(db, r.id) :
              /\ Oldest(h, Others(db, r.id))
              /\ loc' = [loc EXCEPT ![s] = [r EXCEPT !.heir = h]]
              /\ Goto(s, IF db[h].dflt THEN "remove" ELSE "promote")
              /\ UNCHANGED <<db, pend>>
      BY <1>8, <2>1 DEF SelectSiblings
    <2> DEFINE l == [r EXCEPT !.heir = h]
    <2>4. ~db[h].dflt
      BY <2>2, <2>3 DEF OneDefault, Others
    <2>5. /\ l.kind = "delete" /\ l.id = r.id /\ l.heir = h
      BY <1>1, <2>2 DEF Locals
    <2>6. /\ pc' = [pc EXCEPT ![s] = "promote"] /\ loc' = [loc EXCEPT ![s] = l]
          /\ UNCHANGED <<db, pend>>
      BY <2>3, <2>4 DEF Goto
    <2> HIDE DEF l
    <2>7. Sees("promote", l, view)
      BY <1>1, <2>1, <2>2, <2>3, <2>5
         DEF Sees, Demoting, CreateSees, SetDefaultSees, DeleteSees, EditSees, NothingWritten
    <2>8. QED
      BY <1>2, <2>6, <2>7
  <1>9. CASE CheckTaxId(s)
    <2>1. /\ pc[s] = "check" /\ Advance(s, "write") /\ view = db
          /\ ~TaxTaken(view, r.tax, Profiles \ {r.id})
      BY <1>1, <1>9 DEF CheckTaxId, Sees, NothingWritten
    <2>2. ~TaxTaken(db, r.tax, Others(db, r.id))
      BY <2>1 DEF TaxTaken, Others, Live
    <2>3. Sees("write", r, view)
      BY <1>1, <2>1, <2>2
         DEF Sees, Demoting, CreateSees, SetDefaultSees, DeleteSees, EditSees, NothingWritten
    <2>4. QED
      BY <1>3, <2>1, <2>3
  <1>10. QED
    BY <1>4, <1>5, <1>6, <1>7, <1>8, <1>9

\* Statements of session s that write a row.
LEMMA SerialWrite ==
    ASSUME OneAtATime, SerialInv, KeyInv', NEW s \in Sessions, ~Rollback(s),
           \/ InsertProfile(s) \/ Promote(s) \/ RemoveRow(s) \/ WriteUpdate(s) \/ WriteKey(s)
           \/ \E p \in Profiles : DemoteRow(s, p)
    PROVE  SerialInv'
  <1> USE DEF SerialInv
  <1> DEFINE r == loc[s]
             view == View(s)
  <1>1. /\ TypeInv /\ r \in Locals /\ Sees(pc[s], r, view)
        /\ db \in [Profiles -> Version] /\ view \in [Profiles -> Version]
        /\ pc[s] # "idle" => r.id \in Profiles
        /\ \A p \in Live(db) : p \in Profiles /\ db[p] \in Rows
    BY ViewType DEF KeyInv, TypeInv, TypeOK, RequestsName, Version, Live
  <1>2. ASSUME NEW p \in Profiles, NEW v \in Version, NEW step, NEW l,
               pend' = [pend EXCEPT ![s][p] = v], pc' = [pc EXCEPT ![s] = step],
               loc' = [loc EXCEPT ![s] = l], db' = db, Sees(step, l, [view EXCEPT ![p] = v])
        PROVE  SerialInv'
    <2>1. pc'[s] = step /\ loc'[s] = l /\ View(s)' = [view EXCEPT ![p] = v]
      BY <1>1, <1>2, WriteView DEF TypeInv, TypeOK
    <2>2. Sees(pc[s], loc[s], View(s))'
      BY <1>2, <2>1, SeesKept
    <2>3. QED
      BY <1>2, <2>2, SerialLocal
  <1>3. ASSUME NEW p \in Profiles, NEW v \in Version, NEW step, Write(s, p, v, step),
               Sees(step, r, [view EXCEPT ![p] = v])
        PROVE  SerialInv'
    <2>1. loc' = [loc EXCEPT ![s] = r]
      BY <1>1, <1>3 DEF Write, TypeInv, TypeOK
    <2>2. QED
      BY <1>2, <1>3, <2>1 DEF Write, Goto
  <1>4. CASE InsertProfile(s)
    <2> DEFINE v == [tax |-> r.tax, dflt |-> r.dflt]
    <2>1. pc[s] = "insert" /\ Write(s, r.id, v, "commit")
      BY <1>4 DEF InsertProfile
    <2>2. r.kind = "create" /\ view = Base(r) /\ r.tax \in TaxIds
      BY <1>1, <2>1, KindOfStep DEF Sees, CreateSees
    <2>3. v \in Version
      BY <1>1, <2>2 DEF Locals, Version, Rows
    <2>4. Sees("commit", r, [view EXCEPT ![r.id] = v])
      BY <1>1, <2>1, <2>2
         DEF Sees, Demoting, CreateSees, SetDefaultSees, DeleteSees, EditSees, NothingWritten
    <2> HIDE DEF v
    <2>5. QED
      BY <1>1, <1>3, <2>1, <2>3, <2>4
  <1>5. ASSUME NEW p \in Profiles, DemoteRow(s, p) PROVE SerialInv'
    <2> DEFINE v == [db[p] EXCEPT !.dflt = FALSE]
               l == [r EXCEPT !.todo = @ \ {p}]
    <2>1. /\ pc[s] = "demote" /\ p \in r.todo /\ p \in Others(db, r.id)
          /\ r.todo \subseteq Others(db, r.id)
          /\ view = Demote(db, Others(db, r.id) \ r.todo)
      BY <1>1, <1>5 DEF DemoteRow, Sees, Demoting
    <2>2. p \in Live(db) /\ db[p] # NoRow /\ v \in Version
      BY <1>1, <2>1 DEF Others, Live, Version, Rows
    <2>3. pend' = [pend EXCEPT ![s][p] = v] /\ loc' = [loc EXCEPT ![s] = l] /\ db' = db
      BY <1>5, <2>2 DEF DemoteRow
    <2>4. pc' = [pc EXCEPT ![s] = "demote"]
      BY <1>5, <2>1 DEF DemoteRow, TypeInv, TypeOK, KeyInv
    <2>5. /\ l.kind = r.kind /\ l.id = r.id /\ l.tax = r.tax /\ l.dflt = r.dflt
          /\ l.heir = r.heir /\ l.todo = r.todo \ {p}
      BY <1>1 DEF Locals
    <2>6. [view EXCEPT ![p] = v] = Demote(db, Others(db, r.id) \ l.todo)
      <3>1. Others(db, r.id) \ l.todo = (Others(db, r.id) \ r.todo) \cup {p}
        BY <2>1, <2>5
      <3>2. Others(db, r.id) \ r.todo \in SUBSET Profiles
        BY DEF Others, Live
      <3> DEFINE S == Others(db, r.id) \ r.todo
      <3>3. Demote(db, S \cup {p}) = [Demote(db, S) EXCEPT ![p] = v]
        <4>1. S \in SUBSET Profiles
          BY <3>2
        <4> HIDE DEF S
        <4>2. QED
          BY <1>1, <2>2, <4>1, DemoteOneMore
      <3>4. QED
        BY <2>1, <3>1, <3>3
    <2> HIDE DEF v, l
    <2>7. Demoting("demote", l, [view EXCEPT ![p] = v])
      BY <2>1, <2>5, <2>6 DEF Demoting
    <2>8. Sees("demote", l, [view EXCEPT ![p] = v])
      BY <1>1, <2>1, <2>5, <2>7
         DEF Sees, CreateSees, SetDefaultSees, DeleteSees, EditSees, NothingWritten
    <2>9. QED
      BY <1>2, <2>2, <2>3, <2>4, <2>8
  <1>6. CASE Promote(s)
    <2> DEFINE h == r.heir
               v == [view[h] EXCEPT !.dflt = TRUE]
    <2>1. /\ pc[s] = "promote"
          /\ Write(s, h, v, IF r.kind = "delete" THEN "remove" ELSE "refresh")
          /\ db[h] # NoRow
      BY <1>6 DEF Promote
    <2>2. CASE r.kind = "set_default"
      <3>1. h = r.id /\ h \in Live(db) /\ view = Demote(db, Others(db, r.id))
        BY <1>1, <2>1, <2>2 DEF Sees, SetDefaultSees
      <3>2. view[h] = db[h] /\ h \in Profiles /\ db[h] \in Rows
        BY <1>1, <3>1 DEF Demote, Others, Live
      <3>3. v \in Version
        BY <3>2 DEF Rows, Version
      <3>4. Demote(db, Profiles)[h] = [db[h] EXCEPT !.dflt = FALSE]
        BY <3>2, NotARow DEF Demote
      <3>5. [Demote(db, Profiles)[h] EXCEPT !.dflt = TRUE] = v
        BY <3>2, <3>4 DEF Rows
      <3>6. [view EXCEPT ![h] = v] = [Demote(db, Profiles) EXCEPT ![h] = v]
        BY <3>1 DEF Demote, Others, Live
      <3>7. [view EXCEPT ![h] = v] = Promoted(r)
        BY <3>1, <3>5, <3>6 DEF Promoted
      <3>8. Write(s, h, v, "refresh")
        BY <2>1, <2>2
      <3> HIDE DEF v
      <3>9. Sees("refresh", r, [view EXCEPT ![h] = v])
        BY <1>1, <2>1, <2>2, <3>7
           DEF Sees, Demoting, CreateSees, SetDefaultSees, DeleteSees, EditSees, NothingWritten
      <3>10. QED
        BY <1>3, <3>2, <3>3, <3>8, <3>9
    <2>3. CASE r.kind = "delete"
      <3>1. /\ r.id \in Live(db) /\ db[r.id].dflt /\ Oldest(h, Others(db, r.id)) /\ view = db
        BY <1>1, <2>1, <2>3 DEF Sees, DeleteSees
      <3>2. h \in Live(db) /\ h \in Profiles /\ db[h] \in Rows
        BY <1>1, <3>1 DEF Oldest, Others
      <3>3. v \in Version
        BY <3>1, <3>2 DEF Rows, Version
      <3>4. Write(s, h, v, "remove")
        BY <2>1, <2>3
      <3>5. [view EXCEPT ![h] = v] = [db EXCEPT ![h].dflt = TRUE]
        BY <3>1
      <3> HIDE DEF v
      <3>6. Sees("remove", r, [view EXCEPT ![h] = v])
        BY <1>1, <2>1, <2>3, <3>1, <3>5
           DEF Sees, Demoting, CreateSees, SetDefaultSees, DeleteSees, EditSees, NothingWritten
      <3>7. QED
        BY <1>3, <3>2, <3>3, <3>4, <3>6
    <2>4. QED
      BY <1>1, <2>1, <2>2, <2>3, KindOfStep
  <1>7. CASE RemoveRow(s)
    <2>1. pc[s] = "remove"
      BY <1>7 DEF RemoveRow
    <2>2. r.kind = "delete" /\ r.id \in Live(db)
      BY <1>1, <2>1, KindOfStep DEF Sees, DeleteSees
    <2>3. Write(s, r.id, NoRow, "commit")
      BY <1>7, <2>2 DEF RemoveRow, Live
    <2>4. Sees("commit", r, [view EXCEPT ![r.id] = NoRow])
      BY <1>1, <2>1, <2>2
         DEF Sees, Demoting, CreateSees, SetDefaultSees, DeleteSees, EditSees, NothingWritten
    <2>5. QED
      BY <1>1, <1>3, <2>1, <2>3, <2>4 DEF Version
  <1>8. CASE WriteUpdate(s)
    <2> DEFINE step == IF r.tax = Unwritten THEN "refresh" ELSE "key"
    <2>1. pc[s] = "write" /\ Write(s, r.id, db[r.id], step)
      BY <1>8 DEF WriteUpdate
    <2>2. r.kind = "update" /\ r.id \in Live(db) /\ view = db
      BY <1>1, <2>1, KindOfStep DEF Sees, EditSees, NothingWritten
    <2>3. [view EXCEPT ![r.id] = db[r.id]] = db
      BY <1>1, <2>2
    <2>4. Sees(step, r, db)
      BY <1>1, <2>1, <2>2
         DEF Sees, Demoting, CreateSees, SetDefaultSees, DeleteSees, EditSees,
             NothingWritten, Edited
    <2> HIDE DEF step
    <2>5. QED
      BY <1>1, <1>3, <2>1, <2>2, <2>3, <2>4 DEF Version
  <1>9. CASE WriteKey(s)
    <2> DEFINE v == [view[r.id] EXCEPT !.tax = r.tax]
    <2>1. pc[s] = "key" /\ Write(s, r.id, v, "refresh")
      BY <1>9 DEF WriteKey
    <2>2. r.kind = "update" /\ r.id \in Live(db) /\ view = db /\ r.tax \in TaxIds
      BY <1>1, <2>1, KindOfStep DEF Sees, EditSees, TypeInv, KeysAreGiven, Locals
    <2>3. v \in Version
      BY <1>1, <2>2 DEF Version, Rows
    <2>4. [view EXCEPT ![r.id] = v] = Edited(r)
      BY <2>2, UnwrittenAssumption DEF Edited
    <2> HIDE DEF v
    <2>5. Sees("refresh", r, [view EXCEPT ![r.id] = v])
      BY <1>1, <2>1, <2>2, <2>4
         DEF Sees, Demoting, CreateSees, SetDefaultSees, DeleteSees, EditSees, NothingWritten
    <2>6. QED
      BY <1>1, <1>3, <2>1, <2>3, <2>5
  <1>10. QED
    BY <1>4, <1>5, <1>6, <1>7, <1>8, <1>9

\* A request of BillingAtomic leaves one default profile, if it leaves any, and never takes
\* the last profile away.
LEMMA AtomicKeepsDefault ==
    ASSUME TypeOK, TypeOK', SomeDefault(db), OneDefault(db), Atomic!Next
    PROVE  SomeDefault(db') /\ OneDefault(db') /\ (Live(db) # {} => Live(db') # {})
  <1> USE DEF Live
  <1>1. /\ db \in [Profiles -> Version]
        /\ \A p \in Profiles : db[p] # NoRow => db[p] \in Rows
    BY DEF TypeOK, Version
  <1>2. ASSUME NEW p \in Profiles, db'[p] # NoRow, db'[p].dflt,
               \A q \in Profiles \ {p} : db'[q] # NoRow => ~db'[q].dflt
        PROVE  SomeDefault(db') /\ OneDefault(db') /\ Live(db') # {}
    BY <1>2 DEF SomeDefault, OneDefault
  <1>3. Live(db) # {} => \E d \in Profiles :
                            /\ db[d] # NoRow /\ db[d].dflt
                            /\ \A q \in Profiles \ {d} : db[q] # NoRow => ~db[q].dflt
    BY DEF SomeDefault, OneDefault
  <1>4. ASSUME NEW p \in Profiles, NEW tax \in TaxIds, NEW want \in BOOLEAN,
               Atomic!Create(p, tax, want)
        PROVE  SomeDefault(db') /\ OneDefault(db') /\ Live(db') # {}
    <2>1. /\ db[p] = NoRow
          /\ \A x \in BOOLEAN : [tax |-> tax, dflt |-> x] \in Rows
      BY <1>4, SameTable, ProfilesAssumption DEF Atomic!Create, Rows
    <2> DEFINE default == [tax |-> tax, dflt |-> TRUE]
               plain == [tax |-> tax, dflt |-> FALSE]
    <2>6. default # NoRow /\ default.dflt
      BY <2>1, NotARow
    <2>2. CASE Live(db) = {}
      <3>1. db' = [db EXCEPT ![p] = default]
        BY <1>4, <2>2, SameTable, Zenon DEF Atomic!Create
      <3>2. db'[p] = default /\ \A q \in Profiles \ {p} : db'[q] = NoRow
        BY <1>1, <2>2, <3>1
      <3> HIDE DEF default
      <3>3. QED
        BY <1>2, <2>6, <3>2
    <2>3. CASE Live(db) # {} /\ want
      <3>1. db' = [Demote(db, Profiles) EXCEPT ![p] = default]
        BY <1>4, <2>3, SameTable, Zenon DEF Atomic!Create
      <3>2. /\ db'[p] = default
            /\ \A q \in Profiles \ {p} : db'[q] = Demote(db, Profiles)[q]
        BY <3>1 DEF Demote
      <3>3. \A q \in Profiles \ {p} : db'[q] # NoRow => ~db'[q].dflt
        BY <1>1, <3>2 DEF Demote, Rows
      <3> HIDE DEF default
      <3>4. QED
        BY <1>2, <2>6, <3>2, <3>3
    <2>4. CASE Live(db) # {} /\ ~want
      <3>1. db' = [db EXCEPT ![p] = plain]
        BY <1>4, <2>4, SameTable, Zenon DEF Atomic!Create
      <3>2. db'[p].dflt = FALSE /\ \A q \in Profiles \ {p} : db'[q] = db[q]
        BY <1>1, <2>4, <3>1
      <3>3. QED
        BY <1>2, <1>3, <2>1, <2>4, <3>2
    <2>5. QED
      BY <2>2, <2>3, <2>4
  <1>5. ASSUME NEW p \in Profiles, NEW tax \in TaxIds, Atomic!Update(p, tax)
        PROVE  SomeDefault(db') /\ OneDefault(db') /\ Live(db') # {}
    <2>1. db[p] # NoRow /\ db' = [db EXCEPT ![p].tax = tax]
      BY <1>5, SameTable DEF Atomic!Update
    <2>2. \A q \in Profiles : /\ db'[q] # NoRow <=> db[q] # NoRow
                              /\ db[q] # NoRow => db'[q].dflt = db[q].dflt
      <3> DEFINE v == [db[p] EXCEPT !.tax = tax]
      <3>1. v \in Rows /\ v.dflt = db[p].dflt
        BY <1>1, <2>1 DEF Rows
      <3>2. db' = [db EXCEPT ![p] = v]
        BY <2>1
      <3> HIDE DEF v
      <3>3. QED
        BY <1>1, <2>1, <3>1, <3>2, NotARow
    <2>3. QED
      BY <1>2, <1>3, <2>1, <2>2
  <1>6. ASSUME NEW p \in Profiles, Atomic!Delete(p)
        PROVE  SomeDefault(db') /\ OneDefault(db')
    <2>1. db[p] # NoRow
      BY <1>6, SameTable DEF Atomic!Delete
    <2>2. CASE ~db[p].dflt
      <3>1. db' = [db EXCEPT ![p] = NoRow]
        BY <1>6, <2>2 DEF Atomic!Delete
      <3>2. db'[p] = NoRow /\ \A q \in Profiles \ {p} : db'[q] = db[q]
        BY <1>1, <3>1
      <3>3. QED
        BY <1>2, <1>3, <2>1, <2>2, <3>2
    <2>3. CASE db[p].dflt
      <3>1. PICK h \in Profiles \ {p} : /\ db[h] # NoRow
                                        /\ db' = [db EXCEPT ![h].dflt = TRUE, ![p] = NoRow]
        BY <1>6, <2>3, SameTable DEF Atomic!Delete, Others
      <3>2. [db[h] EXCEPT !.dflt = TRUE] \in Rows /\ [db[h] EXCEPT !.dflt = TRUE].dflt
        BY <1>1, <3>1 DEF Rows
      <3>3. /\ db'[h] = [db[h] EXCEPT !.dflt = TRUE] /\ db'[p] = NoRow
            /\ \A q \in Profiles \ {p, h} : db'[q] = db[q]
        BY <1>1, <3>1
      <3>4. \A q \in Profiles \ {h} : db'[q] # NoRow => ~db'[q].dflt
        BY <2>1, <2>3, <3>3 DEF OneDefault
      <3>5. QED
        BY <1>2, <3>2, <3>3, <3>4, NotARow
    <2>4. QED
      BY <2>2, <2>3
  <1>7. ASSUME NEW p \in Profiles, Atomic!Delete(p), Live(db) # {}
        PROVE  Live(db') # {}
    <2>1. CASE ~db[p].dflt
      <3>1. db' = [db EXCEPT ![p] = NoRow]
        BY <1>7, <2>1 DEF Atomic!Delete
      <3>2. QED
        BY <1>1, <1>3, <1>7, <2>1, <3>1
    <2>2. CASE db[p].dflt
      <3>1. PICK h \in Profiles \ {p} : /\ db[h] # NoRow
                                        /\ db' = [db EXCEPT ![h].dflt = TRUE, ![p] = NoRow]
        BY <1>7, <2>2, SameTable DEF Atomic!Delete, Others
      <3>2. [db[h] EXCEPT !.dflt = TRUE] \in Rows
        BY <1>1, <3>1 DEF Rows
      <3>3. db'[h] = [db[h] EXCEPT !.dflt = TRUE]
        BY <1>1, <3>1
      <3>4. QED
        BY <3>2, <3>3, NotARow
    <2>3. QED
      BY <2>1, <2>2
  <1>8. ASSUME NEW p \in Profiles, Atomic!SetDefault(p)
        PROVE  SomeDefault(db') /\ OneDefault(db') /\ Live(db') # {}
    <2>1. db[p] # NoRow /\ db' = [Demote(db, Profiles) EXCEPT ![p].dflt = TRUE]
      BY <1>8, SameTable DEF Atomic!SetDefault
    <2>2. \A q \in Profiles : db[q] # NoRow => [db[q] EXCEPT !.dflt = FALSE] \in Rows
      BY <1>1 DEF Rows
    <2>3. \A q \in Profiles : /\ db[q] # NoRow => /\ Demote(db, Profiles)[q] \in Rows
                                                  /\ ~Demote(db, Profiles)[q].dflt
                              /\ db[q] = NoRow => Demote(db, Profiles)[q] = NoRow
      BY <1>1, <2>2 DEF Demote, Rows
    <2> DEFINE t == Demote(db, Profiles)
               v == [t[p] EXCEPT !.dflt = TRUE]
    <2>4. t \in [Profiles -> Version]
      BY <1>1, <2>3 DEF Demote, Version
    <2>5. v \in Rows /\ v.dflt
      BY <2>1, <2>3 DEF Rows
    <2>6. db' = [t EXCEPT ![p] = v]
      BY <2>1
    <2> HIDE DEF t, v
    <2>7. db'[p] = v /\ \A q \in Profiles \ {p} : db'[q] = t[q]
      BY <2>4, <2>6
    <2>8. QED
      BY <1>2, <2>3, <2>5, <2>7, NotARow DEF t
  <1>9. QED
    BY <1>4, <1>5, <1>6, <1>7, <1>8 DEF Atomic!Next

\* A COMMIT is one request of BillingAtomic, or an edit of other columns.
LEMMA CommitIsAtomic ==
    ASSUME OneAtATime, SerialInv, NEW s \in Sessions, Commit(s)
    PROVE  [Atomic!Next]_db
  <1> USE DEF SerialInv
  <1> DEFINE r == loc[s]
             view == View(s)
  <1>1. /\ r \in Locals /\ Sees("commit", r, view) /\ db' = view /\ pc[s] = "commit"
        /\ db \in [Profiles -> Version] /\ r.id \in Profiles
    BY DEF Commit, KeyInv, TypeInv, TypeOK, RequestsName
  <1>2. r.kind \in Kinds /\ r.kind \in {"create", "set_default", "delete", "update"}
    BY <1>1, KindOfStep DEF Sees
  <1>3. CASE r.kind = "create"
    <2>1. /\ r.tax \in TaxIds /\ ~TaxTaken(db, r.tax, Profiles)
          /\ \A q \in Live(db) : q < r.id
          /\ Live(db) = {} => r.dflt
          /\ view = [Base(r) EXCEPT ![r.id] = [tax |-> r.tax, dflt |-> r.dflt]]
      BY <1>1, <1>3 DEF Sees, CreateSees
    <2>2. r.dflt \in BOOLEAN /\ (Live(db) = {} \/ r.dflt) = r.dflt
      BY <1>1, <2>1 DEF Locals
    <2>3. Base(r) = IF r.dflt /\ Live(db) # {} THEN Demote(db, Profiles) ELSE db
      BY <1>1, <2>1, DemoteRows DEF Base
    <2>4. Atomic!Create(r.id, r.tax, r.dflt)
      BY <1>1, <1>2, <1>3, <2>1, <2>2, <2>3, SameTable, Zenon DEF Atomic!Create
    <2>5. QED
      BY <1>1, <2>1, <2>2, <2>4 DEF Atomic!Next
  <1>4. CASE r.kind = "set_default"
    <2>1. r.id \in Live(db) /\ view = Promoted(r)
      BY <1>1, <1>4 DEF Sees, SetDefaultSees
    <2>2. Atomic!SetDefault(r.id)
      BY <1>1, <1>2, <1>4, <2>1, SameTable DEF Atomic!SetDefault, Promoted
    <2>3. QED
      BY <1>1, <2>2 DEF Atomic!Next
  <1>5. CASE r.kind = "delete"
    <2>1. /\ r.id \in Live(db)
          /\ db[r.id].dflt => Oldest(r.heir, Others(db, r.id))
          /\ view = IF db[r.id].dflt THEN [db EXCEPT ![r.heir].dflt = TRUE, ![r.id] = NoRow]
                    ELSE [db EXCEPT ![r.id] = NoRow]
      BY <1>1, <1>5 DEF Sees, DeleteSees
    <2>2. db[r.id].dflt => r.heir \in Others(db, r.id)
      BY <2>1 DEF Oldest
    <2>3. Atomic!Delete(r.id)
      BY <1>1, <1>2, <1>5, <2>1, <2>2, SameTable DEF Atomic!Delete
    <2>4. QED
      BY <1>1, <2>3 DEF Atomic!Next
  <1>6. CASE r.kind = "update"
    <2>1. /\ r.id \in Live(db) /\ view = Edited(r)
          /\ r.tax # Unwritten => ~TaxTaken(db, r.tax, Others(db, r.id))
      BY <1>1, <1>6 DEF Sees, EditSees
    <2>2. CASE r.tax # Unwritten
      <3>1. r.tax \in TaxIds
        BY <1>1, <2>2 DEF Locals
      <3>2. Atomic!Update(r.id, r.tax)
        BY <1>1, <1>2, <1>6, <2>1, <2>2, SameTable DEF Atomic!Update, Edited
      <3>3. QED
        BY <1>1, <3>1, <3>2 DEF Atomic!Next
    <2>3. CASE r.tax = Unwritten
      BY <1>1, <2>1, <2>3 DEF Edited
    <2>4. QED
      BY <2>2, <2>3
  <1>7. QED
    BY <1>2, <1>3, <1>4, <1>5, <1>6

NotEmptied == Live(db) # {} => Live(db') # {}

LEMMA SerialStep ==
    ASSUME OneAtATime, SerialInv, [Next]_vars
    PROVE  SerialInv' /\ [Atomic!Next]_db /\ [NotEmptied]_vars
  <1>1. KeyInv' /\ TypeOK /\ TypeOK'
    BY StepKeyInv DEF SerialInv, KeyInv, TypeInv
  <1>2. ASSUME NEW s \in Sessions,
               Begin(s) \/ (Proceed(s) /\ ~Commit(s)) \/ DeadlockVictim(s) \/ ConnectionLost(s)
        PROVE  SerialInv' /\ db' = db
    <2>1. db' = db
      BY <1>2, OthersKeepTable
    <2>2. CASE Rollback(s)
      BY <1>1, <2>1, <2>2, SerialRollback
    <2>3. CASE Begin(s)
      BY <1>1, <2>1, <2>3, SerialBegin
    <2>4. CASE ~Rollback(s) /\ Proceed(s) /\ ~Commit(s)
      BY <1>1, <2>1, <2>4, SerialRead, SerialWrite DEF Proceed
    <2>5. QED
      BY <1>2, <2>1, <2>2, <2>3, <2>4 DEF DeadlockVictim, ConnectionLost
  <1>3. ASSUME NEW s \in Sessions, Commit(s)
        PROVE  SerialInv' /\ [Atomic!Next]_db /\ NotEmptied
    <2>1. [Atomic!Next]_db
      BY <1>3, CommitIsAtomic
    <2>2. SomeDefault(db') /\ OneDefault(db') /\ NotEmptied
      <3>1. CASE db' = db
        BY <3>1 DEF NotEmptied, SerialInv
      <3>2. CASE Atomic!Next
        BY <1>1, <3>2, AtomicKeepsDefault DEF NotEmptied, SerialInv
      <3>3. QED
        BY <2>1, <3>1, <3>2
    <2>3. pc'[s] = "idle" /\ loc'[s] = NoRequest /\ pend'[s] = Clean
      BY <1>3 DEF Commit, Goto, SerialInv, KeyInv, TypeInv, TypeOK
    <2>4. View(s)' = db'
      BY <1>1, <2>3 DEF View, Clean, TypeOK
    <2>5. Sees(pc[s], loc[s], View(s))'
      BY <2>3, <2>4
         DEF Sees, Demoting, CreateSees, SetDefaultSees, DeleteSees, EditSees, NoRequest
    <2>6. SerialInv'
      BY <1>1, <2>2, <2>5 DEF OneAtATime, SerialInv
    <2>7. QED
      BY <2>1, <2>2, <2>6
  <1>4. CASE Next
    BY <1>2, <1>3, <1>4 DEF Next, Proceed, NotEmptied
  <1>5. CASE UNCHANGED vars
    <2>1. ASSUME NEW s \in Sessions PROVE Sees(pc[s], loc[s], View(s))'
      <3>1. /\ View(s)' = View(s) /\ pc' = pc /\ loc' = loc /\ db' = db
            /\ Sees(pc[s], loc[s], View(s))
        BY <1>5, ReadView DEF vars, SerialInv
      <3>2. QED
        BY <3>1 DEF Sees, Demoting, CreateSees, SetDefaultSees, DeleteSees, EditSees,
                    Base, Promoted, Edited
    <2>2. QED
      BY <1>1, <1>5, <2>1 DEF vars, SerialInv
  <1>6. QED
    BY <1>4, <1>5

LEMMA InitSerialInv == Init => SerialInv /\ Atomic!Init
  <1> SUFFICES ASSUME Init PROVE SerialInv /\ Atomic!Init
    OBVIOUS
  <1>1. KeyInv
    BY InitKeyInv
  <1>2. SomeDefault(db) /\ OneDefault(db)
    BY DEF Init, Settled
  <1>3. \A s \in Sessions : pc[s] = "idle" /\ loc[s] = NoRequest /\ View(s) = db
    BY <1>1, CleanView DEF Init, KeyInv
  <1>4. \A s \in Sessions : Sees(pc[s], loc[s], View(s))
    BY <1>3 DEF Sees, Demoting, CreateSees, SetDefaultSees, DeleteSees, EditSees, NoRequest
  <1>5. Atomic!Init
    BY SameTable DEF Init, Version, Atomic!Init
  <1>6. QED
    BY <1>1, <1>2, <1>4, <1>5 DEF SerialInv

\* One request at a time, whether it commits, fails or loses its connection, the service does
\* what BillingAtomic says: create, update, delete and set_default take effect at once.
THEOREM SerialImplementsAtomic == ASSUME OneAtATime PROVE Spec => ImplementsAtomic
  <1>1. SerialInv /\ [Next]_vars => SerialInv' /\ [Atomic!Next]_db
    BY SerialStep
  <1>2. QED
    BY InitSerialInv, <1>1, PTL DEF Spec, ImplementsAtomic, Atomic!Spec

\* One request at a time, a client with profiles has exactly one default.
THEOREM SerialKeepsOneDefault == ASSUME OneAtATime PROVE Spec => []ExactlyOneDefault
  <1>1. SerialInv /\ [Next]_vars => SerialInv'
    BY SerialStep
  <1>2. SerialInv => ExactlyOneDefault
    BY DEF SerialInv, ExactlyOneDefault
  <1>3. QED
    BY InitSerialInv, <1>1, <1>2, PTL DEF Spec

\* One request at a time, a client that has profiles never loses the last one.
THEOREM SerialNeverEmptied == ASSUME OneAtATime PROVE Spec => NeverEmptied
  <1>1. SerialInv /\ [Next]_vars => SerialInv' /\ [NotEmptied]_vars
    BY SerialStep
  <1>2. [NotEmptied]_vars => [Live(db) # {} => Live(db)' # {}]_vars
    BY DEF NotEmptied, Live
  <1>3. QED
    BY InitSerialInv, <1>1, <1>2, PTL DEF Spec, NeverEmptied

-----------------------------------------------------------------------------
(* What BillingAtomic itself guarantees, on any table.                     *)

Sound(t) == /\ t \in [Profiles -> Rows \cup {NoRow}]
            /\ UniqueTaxIds(t) /\ SomeDefault(t) /\ OneDefault(t)

LEMMA SoundIsConsistent ==
    /\ Atomic!TypeOK /\ Atomic!Consistent <=> Sound(db)
    /\ (Atomic!TypeOK /\ Atomic!Consistent)' <=> Sound(db')
  BY SameTable
     DEF Sound, Atomic!TypeOK, Atomic!Consistent, Atomic!UniqueTaxIds, UniqueTaxIds,
         Atomic!SomeDefault, SomeDefault, Atomic!OneDefault, OneDefault

\* The table t with one default, p, and the tax ids and profiles of a sound one.
LEMMA OnlyDefault ==
    ASSUME NEW t, Sound(t), NEW p \in Live(t)
    PROVE  Sound([Demote(t, Profiles) EXCEPT ![p].dflt = TRUE])
  <1> DEFINE u == [Demote(t, Profiles) EXCEPT ![p].dflt = TRUE]
  <1>1. \A q \in Profiles : Demote(t, Profiles)[q] = IF t[q] # NoRow THEN [t[q] EXCEPT !.dflt = FALSE]
                                                     ELSE NoRow
    BY DEF Demote, Sound
  <1>2. \A q \in Profiles : u[q] = IF q = p THEN [t[q] EXCEPT !.dflt = TRUE]
                                   ELSE IF t[q] # NoRow THEN [t[q] EXCEPT !.dflt = FALSE] ELSE NoRow
    BY <1>1, NotARow DEF Live, Sound, Rows, Demote
  <1>3. DOMAIN u = Profiles /\ u = [q \in Profiles |-> u[q]]
    BY DEF Demote
  <1> HIDE DEF u
  <1>4. \A q \in Profiles : /\ u[q] # NoRow <=> t[q] # NoRow
                            /\ u[q] # NoRow => u[q] \in Rows /\ u[q].tax = t[q].tax
                            /\ u[q] # NoRow => (u[q].dflt <=> q = p)
    <2>1. ASSUME NEW q \in Profiles, t[q] # NoRow
          PROVE  /\ [t[q] EXCEPT !.dflt = TRUE] \in Rows /\ [t[q] EXCEPT !.dflt = TRUE].tax = t[q].tax
                 /\ [t[q] EXCEPT !.dflt = TRUE].dflt
                 /\ [t[q] EXCEPT !.dflt = FALSE] \in Rows /\ [t[q] EXCEPT !.dflt = FALSE].tax = t[q].tax
                 /\ ~[t[q] EXCEPT !.dflt = FALSE].dflt
      BY <2>1 DEF Sound, Rows
    <2>2. p \in Profiles /\ t[p] # NoRow
      BY DEF Live
    <2>3. ASSUME NEW q \in Profiles
          PROVE  /\ u[q] # NoRow <=> t[q] # NoRow
                 /\ u[q] # NoRow => u[q] \in Rows /\ u[q].tax = t[q].tax
                 /\ u[q] # NoRow => (u[q].dflt <=> q = p)
      <3>1. CASE q = p
        <4>1. u[q] = [t[q] EXCEPT !.dflt = TRUE] /\ t[q] # NoRow
          BY <1>2, <2>2, <3>1
        <4>2. QED
          BY <2>1, <3>1, <4>1, NotARow
      <3>2. CASE q # p /\ t[q] # NoRow
        <4>1. u[q] = [t[q] EXCEPT !.dflt = FALSE]
          BY <1>2, <3>2
        <4>2. QED
          BY <2>1, <3>2, <4>1, NotARow
      <3>3. CASE q # p /\ t[q] = NoRow
        <4>1. u[q] = NoRow
          BY <1>2, <3>3
        <4>2. QED
          BY <3>3, <4>1
      <3>4. QED
        BY <2>2, <3>1, <3>2, <3>3
    <2>4. QED
      BY <2>3
  <1>5. u \in [Profiles -> Rows \cup {NoRow}]
    BY <1>3, <1>4
  <1>6. QED
    BY <1>4, <1>5 DEF Sound, Live, UniqueTaxIds, SomeDefault, OneDefault, u

LEMMA AtomicStep ==
    ASSUME Sound(db), Atomic!Next
    PROVE  Sound(db')
  <1>1. PICK p \in Profiles :
            \/ \E tax \in TaxIds, want \in BOOLEAN : Atomic!Create(p, tax, want)
            \/ \E tax \in TaxIds : Atomic!Update(p, tax)
            \/ Atomic!Delete(p)
            \/ Atomic!SetDefault(p)
    BY DEF Atomic!Next
  <1>2. ASSUME NEW tax \in TaxIds, NEW want \in BOOLEAN, Atomic!Create(p, tax, want)
        PROVE  Sound(db')
    <2> DEFINE first == Live(db) = {}
               base  == IF want /\ ~first THEN Demote(db, Profiles) ELSE db
               new   == [tax |-> tax, dflt |-> first \/ want]
    <2>1. /\ \A q \in Live(db) : q < p
          /\ ~TaxTaken(db, tax, Profiles)
          /\ db' = [base EXCEPT ![p] = new]
      BY <1>2, SameTable DEF Atomic!Create
    <2>2. /\ base \in [Profiles -> Rows \cup {NoRow}]
          /\ \A q \in Profiles : /\ base[q] # NoRow <=> db[q] # NoRow
                                 /\ base[q] # NoRow => base[q].tax = db[q].tax
                                 /\ base[q] # NoRow /\ base[q].dflt => ~want /\ db[q].dflt
                                 /\ ~want /\ db[q] # NoRow /\ db[q].dflt => base[q].dflt
      <3>1. CASE want /\ ~first
        BY <3>1, NotARow DEF Demote, Sound, Rows
      <3>2. CASE ~(want /\ ~first)
        BY <3>2 DEF Sound, Live
      <3>3. QED
        BY <3>1, <3>2
    <2>3. new \in Rows /\ new # NoRow /\ new.tax = tax /\ (new.dflt <=> first \/ want)
      <3>1. (first \/ want) \in BOOLEAN
        OBVIOUS
      <3> HIDE DEF first
      <3>2. new \in Rows
        BY <3>1 DEF Rows
      <3>3. QED
        BY <3>2, NotARow
    <2> HIDE DEF base, new
    <2>4. /\ db' \in [Profiles -> Rows \cup {NoRow}] /\ db'[p] = new
          /\ \A q \in Profiles \ {p} : db'[q] = base[q]
      BY <2>1, <2>2, <2>3
    <2>5. UniqueTaxIds(db')
      BY <2>1, <2>2, <2>3, <2>4 DEF Sound, UniqueTaxIds, TaxTaken, Live
    <2>6. db[p] = NoRow
      BY <2>1, ProfilesAssumption DEF Live
    <2>7. SomeDefault(db') /\ OneDefault(db')
      <3>1. CASE first
        BY <2>2, <2>3, <2>4, <3>1 DEF SomeDefault, OneDefault, Live
      <3>2. CASE want /\ ~first
        BY <2>2, <2>3, <2>4, <3>2 DEF SomeDefault, OneDefault, Live
      <3>3. CASE ~want /\ ~first
        <4>1. PICK d \in Live(db) : db[d].dflt
          BY <3>3 DEF Sound, SomeDefault
        <4>2. d \in Live(db') /\ db'[d].dflt
          BY <2>2, <2>4, <2>6, <3>3, <4>1 DEF Live
        <4>3. OneDefault(db')
          BY <2>2, <2>3, <2>4, <3>3 DEF Sound, OneDefault, Live
        <4>4. QED
          BY <4>2, <4>3 DEF SomeDefault
      <3>4. QED
        BY <3>1, <3>2, <3>3
    <2>8. QED
      BY <2>4, <2>5, <2>7 DEF Sound
  <1>3. ASSUME NEW tax \in TaxIds, Atomic!Update(p, tax)
        PROVE  Sound(db')
    <2>1. /\ p \in Live(db) /\ ~TaxTaken(db, tax, Others(db, p))
          /\ db' = [db EXCEPT ![p].tax = tax]
      BY <1>3, SameTable DEF Atomic!Update
    <2> DEFINE new == [db[p] EXCEPT !.tax = tax]
    <2>2. new \in Rows /\ new # NoRow /\ new.tax = tax /\ new.dflt = db[p].dflt
      BY <2>1, NotARow DEF Sound, Live, Rows
    <2> HIDE DEF new
    <2>3. /\ db' \in [Profiles -> Rows \cup {NoRow}] /\ db'[p] = new
          /\ \A q \in Profiles \ {p} : db'[q] = db[q]
      BY <2>1, <2>2 DEF Sound, new
    <2>4. QED
      BY <2>1, <2>2, <2>3
         DEF Sound, UniqueTaxIds, SomeDefault, OneDefault, TaxTaken, Others, Live
  <1>4. CASE Atomic!Delete(p)
    <2>1. CASE ~db[p].dflt /\ db' = [db EXCEPT ![p] = NoRow]
      BY <2>1 DEF Sound, UniqueTaxIds, SomeDefault, OneDefault, Live
    <2>2. CASE ~(~db[p].dflt /\ db' = [db EXCEPT ![p] = NoRow])
      <3>1. p \in Live(db) /\ db[p].dflt
        BY <1>4, <2>2, SameTable DEF Atomic!Delete
      <3>2. PICK h \in Others(db, p) : db' = [db EXCEPT ![h].dflt = TRUE, ![p] = NoRow]
        BY <1>4, <2>2, SameTable DEF Atomic!Delete
      <3> DEFINE new == [db[h] EXCEPT !.dflt = TRUE]
      <3>3. /\ new \in Rows /\ new # NoRow /\ new.tax = db[h].tax /\ new.dflt
            /\ h \in Live(db) /\ h \in Profiles /\ h # p
        BY <3>2, NotARow DEF Sound, Others, Live, Rows
      <3> HIDE DEF new
      <3>4. /\ db' \in [Profiles -> Rows \cup {NoRow}] /\ db'[p] = NoRow /\ db'[h] = new
            /\ \A q \in Profiles \ {p, h} : db'[q] = db[q]
        BY <3>2, <3>3 DEF Sound, new
      <3>5. QED
        BY <3>1, <3>3, <3>4 DEF Sound, UniqueTaxIds, SomeDefault, OneDefault, Live
    <2>3. QED
      BY <2>1, <2>2
  <1>5. CASE Atomic!SetDefault(p)
    BY <1>5, SameTable, OnlyDefault DEF Atomic!SetDefault
  <1>6. QED
    BY <1>1, <1>2, <1>3, <1>4, <1>5

\* What the abstract service promises: a client's tax ids are unique, and exactly one of its
\* profiles is the default.  A service that implements BillingAtomic keeps this.
THEOREM AtomicIsConsistent == Atomic!Spec => [](Atomic!TypeOK /\ Atomic!Consistent)
  <1>1. Atomic!Init => Sound(db)
    BY SameTable DEF Atomic!Init, Settled, Sound
  <1>2. Sound(db) /\ [Atomic!Next]_db => Sound(db')
    BY AtomicStep
  <1>3. QED
    BY <1>1, <1>2, SoundIsConsistent, PTL DEF Atomic!Spec

=============================================================================
