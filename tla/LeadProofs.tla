------------------------------- MODULE LeadProofs -------------------------------
(***************************************************************************)
(* Theorems about Leads, for every set of leads, clients, users and        *)
(* sessions.                                                               *)
(***************************************************************************)
EXTENDS Leads, FiniteSetTheorems, TLAPS

-----------------------------------------------------------------------------
(* The inductive invariant, as what may be said of a session at statement   *)
(* step with the locals r: a conversion has inserted what its statement     *)
(* says (Inserted), its client is its own (FreshClient), and what a session *)
(* is about to commit agrees with the committed lead about the link         *)
(* (WriteKnowsLink) and about every column that the request does not set    *)
(* (WriteMerges), because no other session holds that row (RowIsMine).      *)

Steps == {"idle", "client", "contact", "profile", "activity", "save", "commit"}

Shape(step, r) == /\ step = "idle" => r = NoRequest
                  /\ step # "idle" => r.lead \in Leads
                  /\ r.write # None <=> step = "commit"
                  /\ r.kind = "convert" <=> r.client # None
                  /\ r.kind = "status" => r.to \in Statuses
                  /\ r.kind = "assign" => r.to \in Users
RowIsMine(s, step, r) == step = "commit" =>
                            \A u \in Sessions \ {s} : pc[u] = "commit" => loc[u].lead # r.lead
LeadExists(step, r) == /\ step # "idle" /\ r.kind # "submit" => lead[r.lead] # None
                       /\ r.kind = "submit" => step = "commit" /\ lead[r.lead] = None
FreshClient(s, r) == r.client # None =>
                        /\ client[r.client] = None
                        /\ \A u \in Sessions \ {s} : loc[u].client # r.client
Inserted(step, r) ==
    /\ step = "contact" => {"client"} \subseteq r.parts
    /\ step \in {"profile", "activity"} => {"client", "contact"} \subseteq r.parts
    /\ step \in {"save", "commit"} /\ r.client # None => Needed \subseteq r.parts
WriteKnowsLink(step, r) ==
    step = "commit" => r.write.client = IF r.client # None THEN r.client
                                        ELSE IF lead[r.lead] = None THEN None
                                        ELSE lead[r.lead].client
Merges(r, row, new) ==
    /\ new.owner # row.owner => r.kind = "assign" /\ r.to = new.owner
    /\ new.status # row.status => r.kind \in {"status", "convert"}
WriteMerges(step, r) ==
    step = "commit" /\ r.kind # "submit" => Merges(r, lead[r.lead], r.write)

SessionOK(s, step, r) == /\ Shape(step, r) /\ RowIsMine(s, step, r) /\ LeadExists(step, r)
                         /\ FreshClient(s, r) /\ Inserted(step, r) /\ WriteKnowsLink(step, r)
                         /\ WriteMerges(step, r)

Inv == /\ TypeOK
       /\ \A s \in Sessions : SessionOK(s, pc[s], loc[s])
       /\ ClientsComplete
       /\ LinkToOwnClient

LEMMA NoRequestType == NoRequest \in Requests
  BY DEF NoRequest, Requests

LEMMA NoRequestOK ==
    ASSUME NEW s \in Sessions
    PROVE  SessionOK(s, "idle", NoRequest)
  BY DEF SessionOK, Shape, RowIsMine, LeadExists, FreshClient, Inserted, WriteKnowsLink,
         WriteMerges, NoRequest

LEMMA InitInv == Init => Inv
  <1> SUFFICES ASSUME Init PROVE Inv
    OBVIOUS
  <1>1. TypeOK
    BY NoRequestType DEF Init, TypeOK
  <1>2. \A s \in Sessions : SessionOK(s, pc[s], loc[s])
    BY NoRequestOK DEF Init
  <1>3. ClientsComplete /\ LinkToOwnClient
    BY DEF Init, ClientsComplete, LinkToOwnClient
  <1>4. QED
    BY <1>1, <1>2, <1>3 DEF Inv

\* A statement that commits nothing keeps the invariant if it leaves its session in order.
LEMMA LocalStep ==
    ASSUME Inv, NEW s \in Sessions, NEW step \in Steps, NEW r \in Requests,
           pc' = [pc EXCEPT ![s] = step], loc' = [loc EXCEPT ![s] = r],
           UNCHANGED <<lead, client>>, SessionOK(s, step, r)
    PROVE  Inv'
  <1>1. /\ pc'[s] = step /\ loc'[s] = r
        /\ \A u \in Sessions \ {s} : pc'[u] = pc[u] /\ loc'[u] = loc[u]
    BY DEF Inv, TypeOK
  <1>2. TypeOK'
    BY DEF Inv, TypeOK, Steps
  <1>3. ASSUME NEW u \in Sessions PROVE SessionOK(u, pc[u], loc[u])'
    <2>1. CASE u = s
      <3>1. (Shape(pc[s], loc[s]) /\ LeadExists(pc[s], loc[s]))'
        BY <1>1 DEF SessionOK, Shape, LeadExists
      <3>2. (RowIsMine(s, pc[s], loc[s]) /\ FreshClient(s, loc[s]))'
        BY <1>1 DEF SessionOK, RowIsMine, FreshClient
      <3>3. (Inserted(pc[s], loc[s]) /\ WriteKnowsLink(pc[s], loc[s]) /\ WriteMerges(pc[s], loc[s]))'
        BY <1>1 DEF SessionOK, Inserted, WriteKnowsLink, WriteMerges, Merges
      <3>4. QED
        BY <2>1, <3>1, <3>2, <3>3 DEF SessionOK
    <2>2. CASE u # s
      <3>1. SessionOK(u, pc[u], loc[u])
        BY DEF Inv
      <3>2. (Shape(pc[u], loc[u]) /\ LeadExists(pc[u], loc[u]))'
        BY <1>1, <2>2, <3>1 DEF SessionOK, Shape, LeadExists
      <3>3. (RowIsMine(u, pc[u], loc[u]) /\ FreshClient(u, loc[u]))'
        BY <1>1, <2>2, <3>1 DEF SessionOK, RowIsMine, FreshClient
      <3>4. (Inserted(pc[u], loc[u]) /\ WriteKnowsLink(pc[u], loc[u]) /\ WriteMerges(pc[u], loc[u]))'
        BY <1>1, <2>2, <3>1 DEF SessionOK, Inserted, WriteKnowsLink, WriteMerges, Merges
      <3>5. QED
        BY <3>2, <3>3, <3>4 DEF SessionOK
    <2>3. QED
      BY <2>1, <2>2
  <1>4. (ClientsComplete /\ LinkToOwnClient)'
    BY DEF Inv, ClientsComplete, LinkToOwnClient, ClientsOf
  <1>5. QED
    BY <1>2, <1>3, <1>4 DEF Inv

LEMMA RollbackInv ==
    ASSUME Inv, NEW s \in Sessions, Rollback(s)
    PROVE  Inv'
  BY LocalStep, NoRequestType, NoRequestOK DEF Rollback, End, Goto, Steps

\* A request that loads lead l, or submits it, and is to continue at step.
LEMMA StartInv ==
    ASSUME Inv, NEW s \in Sessions, pc[s] = "idle", NEW step \in {"save", "client", "commit"},
           NEW r \in Requests, Start(s, step, r), r.lead \in Leads, r.parts = {},
           Shape(step, r), LeadExists(step, r), FreshClient(s, r),
           step = "save" => r.client = None,
           step = "commit" => /\ r.write = NewLead /\ r.client = None
                              /\ lead[r.lead] = None
                              /\ \A u \in Sessions : loc[u].lead # r.lead
    PROVE  Inv'
  <1>1. /\ RowIsMine(s, step, r) /\ Inserted(step, r) /\ WriteKnowsLink(step, r)
        /\ WriteMerges(step, r)
    BY DEF RowIsMine, Inserted, WriteKnowsLink, WriteMerges, LeadExists, NewLead
  <1>2. SessionOK(s, step, r)
    BY <1>1 DEF SessionOK
  <1>3. QED
    BY <1>2, LocalStep DEF Start, Goto, Steps

LEMMA BeginInv ==
    ASSUME Inv, NEW s \in Sessions, Begin(s)
    PROVE  Inv'
  <1> USE NoneAssumption DEF Shape, LeadExists, FreshClient
  <1>1. ASSUME BeginSubmit(s) PROVE Inv'
    <2>1. PICK l \in Leads :
              /\ lead[l] = None
              /\ \A u \in Sessions : loc[u].lead # l
              /\ Start(s, "commit", [NoRequest EXCEPT !.kind = "submit", !.lead = l,
                                                      !.write = NewLead])
      BY <1>1 DEF BeginSubmit
    <2> DEFINE r == [NoRequest EXCEPT !.kind = "submit", !.lead = l, !.write = NewLead]
    <2>2. /\ r.kind = "submit" /\ r.lead = l /\ r.write = NewLead /\ r.client = None
          /\ r.parts = {}
      BY DEF NoRequest
    <2>3. r \in Requests /\ NewLead # None
      <3>1. NewLead \in LeadRow
        BY DEF NewLead, LeadRow, Statuses
      <3>2. QED
        BY <3>1 DEF NoRequest, Requests
    <2>4. Start(s, "commit", r) /\ pc[s] = "idle"
      BY <2>1 DEF Start
    <2> HIDE DEF r
    <2>5. QED
      BY <2>1, <2>2, <2>3, <2>4, StartInv
  <1>2. ASSUME BeginEdit(s) PROVE Inv'
    <2>1. PICK u \in Users, l \in Leads :
              /\ lead[l] # None
              /\ Start(s, "save", [NoRequest EXCEPT !.kind = "edit", !.user = u, !.lead = l])
      BY <1>2 DEF BeginEdit
    <2> DEFINE r == [NoRequest EXCEPT !.kind = "edit", !.user = u, !.lead = l]
    <2>2. r.kind = "edit" /\ r.lead = l /\ r.write = None /\ r.client = None /\ r.parts = {}
      BY DEF NoRequest
    <2>3. r \in Requests
      BY DEF NoRequest, Requests
    <2>4. Start(s, "save", r) /\ pc[s] = "idle"
      BY <2>1 DEF Start
    <2> HIDE DEF r
    <2>5. QED
      BY <2>1, <2>2, <2>3, <2>4, StartInv
  <1>3. ASSUME BeginStatus(s) PROVE Inv'
    <2>1. PICK u \in Users, l \in Leads, to \in Statuses :
              /\ lead[l] # None
              /\ Start(s, "save", [NoRequest EXCEPT !.kind = "status", !.user = u,
                                                    !.lead = l, !.to = to])
      BY <1>3 DEF BeginStatus
    <2> DEFINE r == [NoRequest EXCEPT !.kind = "status", !.user = u, !.lead = l, !.to = to]
    <2>2. /\ r.kind = "status" /\ r.lead = l /\ r.write = None /\ r.client = None
          /\ r.parts = {} /\ r.to = to
      BY DEF NoRequest
    <2>3. r \in Requests
      BY DEF NoRequest, Requests
    <2>4. Start(s, "save", r) /\ pc[s] = "idle"
      BY <2>1 DEF Start
    <2> HIDE DEF r
    <2>5. QED
      BY <2>1, <2>2, <2>3, <2>4, StartInv
  <1>4. ASSUME BeginAssign(s) PROVE Inv'
    <2>1. PICK u \in Users, l \in Leads, owner \in Users :
              /\ lead[l] # None
              /\ Start(s, "save", [NoRequest EXCEPT !.kind = "assign", !.user = u,
                                                    !.lead = l, !.to = owner])
      BY <1>4 DEF BeginAssign
    <2> DEFINE r == [NoRequest EXCEPT !.kind = "assign", !.user = u, !.lead = l, !.to = owner]
    <2>2. /\ r.kind = "assign" /\ r.lead = l /\ r.write = None /\ r.client = None
          /\ r.parts = {} /\ r.to = owner
      BY DEF NoRequest
    <2>3. r \in Requests
      BY DEF NoRequest, Requests
    <2>4. Start(s, "save", r) /\ pc[s] = "idle"
      BY <2>1 DEF Start
    <2> HIDE DEF r
    <2>5. QED
      BY <2>1, <2>2, <2>3, <2>4, StartInv
  <1>5. ASSUME BeginConvert(s) PROVE Inv'
    <2>1. PICK u \in Users, l \in Leads, c \in ClientIds :
              /\ lead[l] # None
              /\ client[c] = None
              /\ \A v \in Sessions : loc[v].client # c
              /\ Start(s, "client", [NoRequest EXCEPT !.kind = "convert", !.user = u,
                                                      !.lead = l, !.client = c])
      BY <1>5 DEF BeginConvert
    <2> DEFINE r == [NoRequest EXCEPT !.kind = "convert", !.user = u, !.lead = l,
                                      !.client = c]
    <2>2. r.kind = "convert" /\ r.lead = l /\ r.write = None /\ r.client = c /\ r.parts = {}
      BY DEF NoRequest
    <2>3. r \in Requests /\ c # None
      BY DEF NoRequest, Requests
    <2>4. Start(s, "client", r) /\ pc[s] = "idle"
      BY <2>1 DEF Start
    <2> HIDE DEF r
    <2>5. QED
      BY <2>1, <2>2, <2>3, <2>4, StartInv
  <1>6. QED
    BY <1>1, <1>2, <1>3, <1>4, <1>5 DEF Begin

\* An INSERT of the conversion adds its part and leads to the next statement.
LEMMA InsertInv ==
    ASSUME Inv, NEW s \in Sessions,
           \/ InsertClient(s) \/ InsertContact(s) \/ InsertProfile(s) \/ append_activity(s)
    PROVE  Inv'
  <1>1. PICK part \in Parts, from \in Steps \ {"idle", "save", "commit"},
             to \in Steps \ {"idle", "commit"} :
          /\ Insert(s, from, part, to)
          /\ \/ part = "client" /\ to = "contact"
             \/ from = "contact" /\ part = "contact" /\ to \in {"profile", "activity"}
             \/ from = "profile" /\ to = "activity"
             \/ from = "activity" /\ part = "activity" /\ to = "save"
    BY DEF InsertClient, InsertContact, InsertProfile, append_activity, Parts, Steps
  <1> DEFINE r == [loc[s] EXCEPT !.parts = @ \cup {part}]
  <1>2. loc[s] \in Requests /\ SessionOK(s, pc[s], loc[s]) /\ pc[s] = from
    BY <1>1 DEF Insert, Inv, TypeOK
  <1>3. /\ r \in Requests /\ r.lead = loc[s].lead /\ r.kind = loc[s].kind /\ r.to = loc[s].to
        /\ r.client = loc[s].client /\ r.write = loc[s].write
        /\ r.parts = loc[s].parts \cup {part}
    BY <1>2 DEF Requests
  <1>4. loc' = [loc EXCEPT ![s] = r] /\ pc' = [pc EXCEPT ![s] = to] /\ UNCHANGED <<lead, client>>
    BY <1>1 DEF Insert, Goto
  <1> HIDE DEF r
  <1>5. Shape(to, r) /\ LeadExists(to, r)
    BY <1>1, <1>2, <1>3 DEF SessionOK, Shape, LeadExists
  <1>6. /\ RowIsMine(s, to, r) /\ FreshClient(s, r) /\ WriteKnowsLink(to, r)
        /\ WriteMerges(to, r)
    BY <1>1, <1>2, <1>3 DEF SessionOK, RowIsMine, FreshClient, WriteKnowsLink, WriteMerges
  <1>7. Inserted(to, r)
    BY <1>1, <1>2, <1>3 DEF SessionOK, Inserted, Needed
  <1>8. QED
    BY <1>1, <1>3, <1>4, <1>5, <1>6, <1>7, LocalStep DEF SessionOK, Steps

\* What a flush makes of a row: a row, whose link is the session's client if it has one, and
\* which is otherwise as it was, but for what the request sets.
LEMMA ChangedRow ==
    ASSUME NEW s \in Sessions, NEW row \in LeadRow, loc[s] \in Requests,
           loc[s].kind = "status" => loc[s].to \in Statuses,
           loc[s].kind = "assign" => loc[s].to \in Users,
           loc[s].kind = "convert" <=> loc[s].client # None
    PROVE  /\ Changed(s, row) \in LeadRow
           /\ Changed(s, row).client = IF loc[s].client # None THEN loc[s].client
                                       ELSE row.client
           /\ Merges(loc[s], row, Changed(s, row))
  <1>1. CASE loc[s].kind = "status"
    BY <1>1 DEF Changed, LeadRow, Merges
  <1>2. CASE loc[s].kind = "assign"
    BY <1>2 DEF Changed, LeadRow, Merges
  <1>3. CASE loc[s].kind = "convert"
    BY <1>3 DEF Changed, LeadRow, Statuses, Requests, Merges
  <1>4. CASE loc[s].kind \notin {"status", "assign", "convert"}
    BY <1>4 DEF Changed, Merges
  <1>5. QED
    BY <1>1, <1>2, <1>3, <1>4

LEMMA SaveInv ==
    ASSUME Inv, NEW s \in Sessions, SaveLead(s)
    PROVE  Inv'
  <1> USE NoneAssumption
  <1> DEFINE l == loc[s].lead
             v == Changed(s, lead[l])
             r == [loc[s] EXCEPT !.write = v]
  <1>1. loc[s] \in Requests /\ SessionOK(s, pc[s], loc[s]) /\ pc[s] = "save"
    BY DEF SaveLead, Inv, TypeOK
  <1>2. l \in Leads /\ lead[l] # None /\ lead[l] \in LeadRow
    BY <1>1 DEF SessionOK, Shape, LeadExists, Inv, TypeOK
  <1>3. /\ v \in LeadRow
        /\ v.client = IF loc[s].client # None THEN loc[s].client ELSE lead[l].client
        /\ Merges(loc[s], lead[l], v)
    BY <1>1, <1>2, ChangedRow DEF SessionOK, Shape
  <1>4. /\ pc' = [pc EXCEPT ![s] = "commit"] /\ loc' = [loc EXCEPT ![s] = r]
        /\ UNCHANGED <<lead, client>> /\ RowFree(s)
    BY DEF SaveLead, Goto
  <1> HIDE DEF v
  <1>5. /\ r \in Requests /\ r.lead = l /\ r.kind = loc[s].kind /\ r.to = loc[s].to
        /\ r.client = loc[s].client /\ r.write = v /\ r.parts = loc[s].parts
    BY <1>1, <1>3 DEF Requests
  <1> HIDE DEF r
  <1>6. Shape("commit", r) /\ LeadExists("commit", r) /\ FreshClient(s, r) /\ Inserted("commit", r)
    BY <1>1, <1>2, <1>3, <1>5 DEF SessionOK, Shape, LeadExists, FreshClient, Inserted
  <1>7. RowIsMine(s, "commit", r)
    BY <1>4, <1>5 DEF RowIsMine, RowFree, Inv, SessionOK, Shape
  <1>8. WriteKnowsLink("commit", r) /\ WriteMerges("commit", r)
    BY <1>2, <1>3, <1>5 DEF WriteKnowsLink, WriteMerges, Merges
  <1>9. QED
    BY <1>4, <1>5, <1>6, <1>7, <1>8, LocalStep DEF SessionOK, Steps

\* COMMIT keeps the invariant, and the link of a lead that has one.
LEMMA CommitInv ==
    ASSUME Inv, NEW s \in Sessions, Commit(s)
    PROVE  /\ Inv'
           /\ \A l \in Leads : lead[l] # None /\ lead[l].client # None
                                  => lead'[l] # None /\ lead'[l].client # None
  <1> USE NoneAssumption
  <1> DEFINE l == loc[s].lead
             v == loc[s].write
             c == loc[s].client
             row == [lead |-> l, parts |-> loc[s].parts]
  <1>1. loc[s] \in Requests /\ SessionOK(s, "commit", loc[s]) /\ pc[s] = "commit"
    BY DEF Commit, Inv, TypeOK
  <1>2. /\ l \in Leads /\ v \in LeadRow /\ v # None
        /\ v.client = IF c # None THEN c ELSE IF lead[l] = None THEN None ELSE lead[l].client
        /\ c \in ClientIds \cup {None}
        /\ c # None => row \in ClientRow /\ Needed \subseteq row.parts /\ client[c] = None
    BY <1>1 DEF SessionOK, Shape, WriteKnowsLink, Inserted, FreshClient, Requests, ClientRow
  <1>3. /\ pc'[s] = "idle" /\ loc'[s] = NoRequest
        /\ \A u \in Sessions \ {s} : pc'[u] = pc[u] /\ loc'[u] = loc[u]
        /\ lead'[l] = v /\ \A m \in Leads \ {l} : lead'[m] = lead[m]
        /\ c # None => client'[c] = row
        /\ \A d \in ClientIds \ {c} : client'[d] = client[d]
    BY <1>1, <1>2 DEF Commit, End, Goto, Inv, TypeOK
  <1>4. TypeOK'
    <2>1. lead' \in [Leads -> LeadRow \cup {None}]
      BY <1>2 DEF Commit, Inv, TypeOK
    <2>2. client' \in [ClientIds -> ClientRow \cup {None}]
      BY <1>2 DEF Commit, Inv, TypeOK
    <2>3. /\ pc' \in [Sessions -> {"idle", "client", "contact", "profile", "activity",
                                   "save", "commit"}]
          /\ loc' \in [Sessions -> Requests]
      BY NoRequestType DEF Commit, End, Goto, Inv, TypeOK
    <2>4. QED
      BY <2>1, <2>2, <2>3 DEF TypeOK
  <1>5. ASSUME NEW u \in Sessions PROVE SessionOK(u, pc[u], loc[u])'
    <2>1. CASE u = s
      BY <1>3, <2>1
         DEF SessionOK, Shape, RowIsMine, LeadExists, FreshClient, Inserted, WriteKnowsLink,
             WriteMerges, NoRequest
    <2>2. CASE u # s
      <3>1. SessionOK(u, pc[u], loc[u]) /\ pc'[u] = pc[u] /\ loc'[u] = loc[u]
        BY <1>3, <2>2 DEF Inv
      <3>2. loc[u].lead = l => pc[u] # "commit"
        BY <1>1, <2>2 DEF SessionOK, RowIsMine
      <3>3. loc[u].client # None => loc[u].client \in ClientIds /\ loc[u].client # c
        BY <1>1, <2>2 DEF SessionOK, FreshClient, Inv, TypeOK, Requests
      <3>4. (Shape(pc[u], loc[u]) /\ Inserted(pc[u], loc[u]))'
        BY <3>1 DEF SessionOK, Shape, Inserted
      <3>5. RowIsMine(u, pc[u], loc[u])'
        BY <1>3, <2>2, <3>1 DEF SessionOK, RowIsMine
      <3>6. LeadExists(pc[u], loc[u])'
        BY <1>2, <1>3, <3>1, <3>2 DEF SessionOK, LeadExists, Shape
      <3>7. FreshClient(u, loc[u])'
        BY <1>3, <2>2, <3>1, <3>3 DEF SessionOK, FreshClient, NoRequest
      <3>8. (WriteKnowsLink(pc[u], loc[u]) /\ WriteMerges(pc[u], loc[u]))'
        BY <1>3, <3>1, <3>2 DEF SessionOK, WriteKnowsLink, WriteMerges, Merges, Shape
      <3>9. QED
        BY <3>4, <3>5, <3>6, <3>7, <3>8 DEF SessionOK
    <2>3. QED
      BY <2>1, <2>2
  <1>6. ClientsComplete'
    BY <1>2, <1>3 DEF Inv, ClientsComplete
  <1>7. LinkToOwnClient'
    <2> SUFFICES ASSUME NEW m \in Leads, lead'[m] # None, lead'[m].client # None
                 PROVE  /\ lead'[m].client \in ClientIds
                        /\ client'[lead'[m].client] # None
                        /\ client'[lead'[m].client].lead = m
      BY DEF LinkToOwnClient, ClientsOf
    <2>1. CASE m = l /\ c # None
      BY <1>2, <1>3, <2>1
    <2>2. CASE m # l \/ c = None
      <3>1. lead[m] # None /\ lead[m].client = lead'[m].client
        BY <1>2, <1>3, <2>2
      <3>2. /\ lead[m].client \in ClientIds /\ client[lead[m].client] # None
            /\ client[lead[m].client].lead = m
        BY <3>1 DEF Inv, LinkToOwnClient, ClientsOf
      <3>3. QED
        BY <1>2, <1>3, <3>1, <3>2
    <2>3. QED
      BY <2>1, <2>2
  <1>8. \A m \in Leads : lead[m] # None /\ lead[m].client # None
                            => lead'[m] # None /\ lead'[m].client # None
    BY <1>2, <1>3
  <1>9. QED
    BY <1>4, <1>5, <1>6, <1>7, <1>8 DEF Inv

LEMMA StepInv ==
    ASSUME Inv, [Next]_vars
    PROVE  /\ Inv'
           /\ \A l \in Leads : lead[l] # None /\ lead[l].client # None
                                  => lead'[l] # None /\ lead'[l].client # None
  <1>1. ASSUME NEW s \in Sessions, Begin(s) PROVE Inv' /\ lead' = lead
    BY <1>1, BeginInv
       DEF Begin, BeginSubmit, BeginEdit, BeginStatus, BeginAssign, BeginConvert, Start
  <1>2. ASSUME NEW s \in Sessions, \/ InsertClient(s) \/ InsertContact(s)
                                   \/ InsertProfile(s) \/ append_activity(s)
        PROVE  Inv' /\ lead' = lead
    BY <1>2, InsertInv DEF InsertClient, InsertContact, InsertProfile, append_activity, Insert
  <1>3. ASSUME NEW s \in Sessions, SaveLead(s) PROVE Inv' /\ lead' = lead
    BY <1>3, SaveInv DEF SaveLead
  <1>4. ASSUME NEW s \in Sessions, Abort(s) PROVE Inv' /\ lead' = lead
    BY <1>4, RollbackInv DEF Abort, Rollback
  <1>5. CASE UNCHANGED vars
    <2>1. \A s \in Sessions : SessionOK(s, pc[s], loc[s])'
      BY <1>5 DEF vars, Inv, SessionOK, Shape, RowIsMine, LeadExists, FreshClient, Inserted,
                  WriteKnowsLink, WriteMerges, Merges
    <2>2. (TypeOK /\ ClientsComplete /\ LinkToOwnClient)'
      BY <1>5 DEF vars, Inv, TypeOK, ClientsComplete, LinkToOwnClient, ClientsOf
    <2>3. QED
      BY <1>5, <2>1, <2>2 DEF Inv, vars
  <1>6. QED
    BY <1>1, <1>2, <1>3, <1>4, <1>5, CommitInv DEF Next, Proceed

\* Leads and clients have their types whatever requests run, and however they interleave,
\* fail or lose their connection.
THEOREM TypeCorrect == Spec => []TypeOK
  <1>1. Inv => TypeOK
    BY DEF Inv
  <1>2. QED
    BY InitInv, StepInv, <1>1, PTL DEF Spec

\* No conversion is half done: a client made from a lead has its contact and activity entry.
THEOREM ConversionsAreWhole == Spec => []ClientsComplete
  <1>1. Inv => ClientsComplete
    BY DEF Inv
  <1>2. QED
    BY InitInv, StepInv, <1>1, PTL DEF Spec

\* converted_client_id never names a client that was made from another lead.
THEOREM LinksAreOwn == Spec => []LinkToOwnClient
  <1>1. Inv => LinkToOwnClient
    BY DEF Inv
  <1>2. QED
    BY InitInv, StepInv, <1>1, PTL DEF Spec

\* A write that was decided before a conversion never takes the link away.
THEOREM LinksAreKept == Spec => LinkKept
  <1>1. Inv /\ [Next]_vars =>
           [\A l \in Leads : lead[l] # None /\ lead[l].client # None
                                => lead'[l] # None /\ lead'[l].client # None]_vars
    BY StepInv
  <1>2. Inv /\ [Next]_vars => Inv'
    BY StepInv
  <1>3. QED
    BY InitInv, <1>1, <1>2, PTL DEF Spec, LinkKept

\* A lead that changes, and does not appear, does so in the commit of a request that sets what
\* changed of its owner and status.
Merged == \A l \in Leads : lead[l] # None /\ lead'[l] # lead[l] =>
              \E s \in Sessions : pc[s] = "commit" /\ loc[s].lead = l
                                  /\ Merges(loc[s], lead[l], lead'[l])

LEMMA StepMerges ==
    ASSUME Inv, [Next]_vars
    PROVE  [Merged]_vars
  <1>1. ASSUME NEW s \in Sessions, Commit(s) PROVE Merged
    <2> SUFFICES ASSUME NEW l \in Leads, lead[l] # None, lead'[l] # lead[l]
                 PROVE  pc[s] = "commit" /\ loc[s].lead = l /\ Merges(loc[s], lead[l], lead'[l])
      BY DEF Merged
    <2>1. pc[s] = "commit" /\ loc[s].lead = l /\ lead'[l] = loc[s].write
      BY <1>1 DEF Commit, Inv, TypeOK
    <2>2. LeadExists("commit", loc[s]) /\ WriteMerges("commit", loc[s])
      BY <2>1 DEF Inv, SessionOK
    <2>3. QED
      BY <2>1, <2>2 DEF LeadExists, WriteMerges
  <1>2. ASSUME NEW s \in Sessions, ~Commit(s), Begin(s) \/ Proceed(s) \/ Abort(s)
        PROVE  lead' = lead
    BY <1>2 DEF Begin, BeginSubmit, BeginEdit, BeginStatus, BeginAssign, BeginConvert, Start,
                Proceed, InsertClient, InsertContact, InsertProfile, append_activity, Insert,
                SaveLead, Abort, Rollback
  <1>3. lead' = lead => Merged
    BY DEF Merged
  <1>4. QED
    BY <1>1, <1>2, <1>3 DEF Next

\* However requests on a lead overlap, a late write takes back neither a new owner nor a new
\* status that another request has committed since the load.
THEOREM LateWritesTakeNothingBack == Spec => LateWritesMerge
  <1>1. Inv /\ [Next]_vars => Inv' /\ [Merged]_vars
    BY StepInv, StepMerges
  <1>2. [Merged]_vars =>
           [\A l \in Leads : lead[l] # None /\ lead'[l] # lead[l] =>
               \E s \in Sessions :
                  /\ pc[s] = "commit" /\ loc[s].lead = l
                  /\ lead'[l].owner # lead[l].owner
                        => loc[s].kind = "assign" /\ loc[s].to = lead'[l].owner
                  /\ lead'[l].status # lead[l].status
                        => loc[s].kind \in {"status", "convert"}]_vars
    BY DEF Merged, Merges
  <1>3. QED
    BY InitInv, <1>1, <1>2, PTL DEF Spec, LateWritesMerge

-----------------------------------------------------------------------------
(* One request at a time: the refinement of LeadLifecycle, and with it that *)
(* links match clients exactly.                                             *)

OneAtATime == \A s, u \in Sessions : s = u

\* What request r loaded is still so: the checks it passed on the lead's row hold.
Loaded(r) ==
    /\ r.kind \in {"edit", "status", "assign", "convert"} => r.user \in Users
    /\ r.kind \in {"edit", "status"} => Visible(r.user, lead[r.lead])
    /\ r.kind = "status" => r.to \in valid_transitions[lead[r.lead].status]
    /\ r.kind = "assign" => Role[r.user] = "admin"
    /\ r.kind = "convert" => MayConvert(r.user) /\ Convertible(lead[r.lead])

\* ... and what session s is to commit is that row with the request's change.
StillLoaded(s) ==
    /\ Loaded(loc[s])
    /\ pc[s] = "commit" => loc[s].write = IF loc[s].kind = "submit" THEN NewLead
                                          ELSE Changed(s, lead[loc[s].lead])

\* A client is made only from a lead that is in the table.
ClientsHaveLead == \A c \in ClientIds : client[c] # None => lead[client[c].lead] # None

SerialInv == /\ Inv /\ ClientsHaveLead /\ LinkExact
             /\ \A s \in Sessions : pc[s] # "idle" => StillLoaded(s)

\* LeadLifecycle has the same tables and rules.
LEMMA SameRules ==
    /\ Lifecycle!Statuses = Statuses /\ Lifecycle!NewLead = NewLead
    /\ Lifecycle!Parts = Parts /\ Lifecycle!Needed = Needed
    /\ Lifecycle!valid_transitions = valid_transitions
    /\ \A u, row : Lifecycle!Visible(u, row) <=> Visible(u, row)
    /\ \A u : Lifecycle!MayConvert(u) <=> MayConvert(u)
    /\ \A row : Lifecycle!Convertible(row) <=> Convertible(row)
  <1>1. /\ Lifecycle!Statuses = Statuses /\ Lifecycle!NewLead = NewLead
        /\ Lifecycle!Parts = Parts /\ Lifecycle!Needed = Needed
        /\ Lifecycle!valid_transitions = valid_transitions
    BY DEF Lifecycle!Statuses, Statuses, Lifecycle!NewLead, NewLead, Lifecycle!Parts, Parts,
           Lifecycle!Needed, Needed, Lifecycle!valid_transitions, valid_transitions
  <1>2. /\ \A u, row : Lifecycle!Visible(u, row) <=> Visible(u, row)
        /\ \A u : Lifecycle!MayConvert(u) <=> MayConvert(u)
        /\ \A row : Lifecycle!Convertible(row) <=> Convertible(row)
    BY DEF Lifecycle!Visible, Visible, Lifecycle!MayConvert, MayConvert,
           Lifecycle!Convertible, Convertible
  <1>3. QED
    BY <1>1, <1>2

LEMMA BeginLoads ==
    ASSUME Inv, NEW s \in Sessions, Begin(s)
    PROVE  UNCHANGED <<lead, client>> /\ StillLoaded(s)'
  <1>1. ASSUME NEW step, NEW r, Start(s, step, r), Loaded(r),
               step = "commit" => r.kind = "submit" /\ r.write = NewLead
        PROVE  UNCHANGED <<lead, client>> /\ StillLoaded(s)'
    BY <1>1 DEF Start, Goto, Inv, TypeOK, StillLoaded, Loaded, Visible, MayConvert, Convertible
  <1>2. CASE BeginSubmit(s)
    <2>1. PICK l \in Leads :
              Start(s, "commit", [NoRequest EXCEPT !.kind = "submit", !.lead = l,
                                                   !.write = NewLead])
      BY <1>2 DEF BeginSubmit
    <2>2. Loaded([NoRequest EXCEPT !.kind = "submit", !.lead = l, !.write = NewLead])
      BY DEF Loaded, NoRequest
    <2>3. QED
      BY <1>1, <2>1, <2>2 DEF NoRequest
  <1>3. CASE BeginEdit(s)
    <2>1. PICK u \in Users, l \in Leads :
              /\ Visible(u, lead[l])
              /\ Start(s, "save", [NoRequest EXCEPT !.kind = "edit", !.user = u, !.lead = l])
      BY <1>3 DEF BeginEdit
    <2>2. Loaded([NoRequest EXCEPT !.kind = "edit", !.user = u, !.lead = l])
      BY <2>1 DEF Loaded, NoRequest
    <2>3. QED
      BY <1>1, <2>1, <2>2
  <1>4. CASE BeginStatus(s)
    <2>1. PICK u \in Users, l \in Leads, to \in Statuses :
              /\ Visible(u, lead[l]) /\ to \in valid_transitions[lead[l].status]
              /\ Start(s, "save", [NoRequest EXCEPT !.kind = "status", !.user = u,
                                                    !.lead = l, !.to = to])
      BY <1>4 DEF BeginStatus
    <2>2. Loaded([NoRequest EXCEPT !.kind = "status", !.user = u, !.lead = l, !.to = to])
      BY <2>1 DEF Loaded, NoRequest
    <2>3. QED
      BY <1>1, <2>1, <2>2
  <1>5. CASE BeginAssign(s)
    <2>1. PICK u \in Users, l \in Leads, owner \in Users :
              /\ Role[u] = "admin"
              /\ Start(s, "save", [NoRequest EXCEPT !.kind = "assign", !.user = u,
                                                    !.lead = l, !.to = owner])
      BY <1>5 DEF BeginAssign
    <2>2. Loaded([NoRequest EXCEPT !.kind = "assign", !.user = u, !.lead = l, !.to = owner])
      BY <2>1 DEF Loaded, NoRequest
    <2>3. QED
      BY <1>1, <2>1, <2>2
  <1>6. CASE BeginConvert(s)
    <2>1. PICK u \in Users, l \in Leads, c \in ClientIds :
              /\ MayConvert(u) /\ Convertible(lead[l])
              /\ Start(s, "client", [NoRequest EXCEPT !.kind = "convert", !.user = u,
                                                      !.lead = l, !.client = c])
      BY <1>6 DEF BeginConvert
    <2>2. Loaded([NoRequest EXCEPT !.kind = "convert", !.user = u, !.lead = l, !.client = c])
      BY <2>1 DEF Loaded, NoRequest
    <2>3. QED
      BY <1>1, <2>1, <2>2
  <1>7. QED
    BY <1>2, <1>3, <1>4, <1>5, <1>6 DEF Begin

\* A statement before COMMIT leaves the tables, and what the request is about.
LEMMA StatementKeeps ==
    ASSUME Inv, NEW s \in Sessions, pc[s] # "idle" => StillLoaded(s),
           \/ InsertClient(s) \/ InsertContact(s) \/ InsertProfile(s) \/ append_activity(s)
           \/ SaveLead(s) \/ Abort(s)
    PROVE  UNCHANGED <<lead, client>> /\ (pc'[s] # "idle" => StillLoaded(s)')
  <1>1. SessionOK(s, pc[s], loc[s])
    BY DEF Inv
  <1>2. CASE Abort(s)
    BY <1>2 DEF Abort, Rollback, End, Goto, Inv, TypeOK
  <1>3. CASE InsertClient(s) \/ InsertContact(s) \/ InsertProfile(s) \/ append_activity(s)
    <2>1. PICK part, from, to : /\ Insert(s, from, part, to)
                                /\ from # "idle" /\ to # "commit"
      BY <1>3 DEF InsertClient, InsertContact, InsertProfile, append_activity
    <2>2. /\ loc'[s].kind = loc[s].kind /\ loc'[s].user = loc[s].user
          /\ loc'[s].lead = loc[s].lead /\ loc'[s].to = loc[s].to
          /\ pc[s] # "idle" /\ pc'[s] # "commit" /\ UNCHANGED <<lead, client>>
      BY <2>1 DEF Insert, Goto, Inv, TypeOK, Requests
    <2>3. QED
      BY <2>2 DEF StillLoaded, Loaded, Visible, MayConvert, Convertible
  <1>4. CASE SaveLead(s)
    <2>1. /\ loc'[s].kind = loc[s].kind /\ loc'[s].user = loc[s].user
          /\ loc'[s].lead = loc[s].lead /\ loc'[s].to = loc[s].to
          /\ loc'[s].client = loc[s].client
          /\ loc'[s].write = Changed(s, lead[loc[s].lead])
          /\ pc[s] = "save" /\ UNCHANGED <<lead, client>>
      BY <1>4 DEF SaveLead, Inv, TypeOK, Requests
    <2>2. loc[s].kind # "submit"
      BY <1>1, <2>1 DEF SessionOK, LeadExists
    <2>3. Changed(s, lead[loc[s].lead])' = Changed(s, lead[loc[s].lead])
      BY <2>1 DEF Changed
    <2>4. QED
      BY <2>1, <2>2, <2>3 DEF StillLoaded, Loaded, Visible, MayConvert, Convertible
  <1>5. QED
    BY <1>2, <1>3, <1>4

\* A COMMIT is one request of LeadLifecycle, or changes no row; it links a lead to the one
\* client made from it.
LEMMA CommitIsLifecycle ==
    ASSUME Inv, ClientsHaveLead, LinkExact, NEW s \in Sessions, Commit(s), StillLoaded(s)
    PROVE  /\ [Lifecycle!Next]_(Lifecycle!vars)
           /\ (ClientsHaveLead /\ LinkExact)'
  <1> USE NoneAssumption
  <1> DEFINE r == loc[s]
             l == r.lead
  <1>1. /\ r \in Requests /\ l \in Leads /\ pc[s] = "commit"
        /\ r.kind = "convert" <=> r.client # None
        /\ r.kind # "submit" => lead[l] # None
        /\ r.kind = "submit" => lead[l] = None
        /\ lead[l] # None => lead[l] \in LeadRow
    BY DEF Commit, Inv, TypeOK, SessionOK, Shape, LeadExists
  <1>2. /\ lead' = [lead EXCEPT ![l] = r.write]
        /\ r.client = None => client' = client
        /\ r.client # None => client' = [client EXCEPT ![r.client] = [lead |-> l, parts |-> r.parts]]
    BY DEF Commit
  <1>3. r.write = IF r.kind = "submit" THEN NewLead ELSE Changed(s, lead[l])
    BY <1>1 DEF StillLoaded
  <1>4. /\ \A m \in Leads \ {l} : lead'[m] = lead[m]
        /\ lead'[l] = r.write
    BY <1>1, <1>2 DEF Inv, TypeOK
  <1>5. ASSUME client' = client,
               lead[l] # None => r.write.client = lead[l].client,
               lead[l] # None /\ lead[l].client # None => r.write.status = lead[l].status,
               lead[l] = None => r.write.client = None,
               r.write # None
        PROVE  (ClientsHaveLead /\ LinkExact)'
    <2>1. ClientsHaveLead'
      <3>1. \A d \in ClientIds : client[d] # None => client[d].lead \in Leads
        BY DEF Inv, TypeOK, ClientRow
      <3>2. QED
        BY <1>4, <1>5, <3>1 DEF ClientsHaveLead
    <2>2. \A m \in Leads : ClientsOf(m)' = ClientsOf(m)
      BY <1>5 DEF ClientsOf
    <2>3. lead[l] = None => ClientsOf(l) = {}
      BY DEF ClientsOf, ClientsHaveLead
    <2>4. LinkExact'
      BY <1>4, <1>5, <2>2, <2>3 DEF LinkExact
    <2>5. QED
      BY <2>1, <2>4
  <1>6. NewLead \in LeadRow
    BY DEF NewLead, LeadRow, Statuses
  <1>7. CASE r.kind = "submit"
    <2>1. lead' = [lead EXCEPT ![l] = NewLead] /\ client' = client
      BY <1>1, <1>2, <1>3, <1>7
    <2>2. Lifecycle!Submit(l)
      BY <1>1, <1>7, <2>1, SameRules DEF Lifecycle!Submit
    <2>3. QED
      BY <1>1, <1>3, <1>5, <1>6, <1>7, <2>1, <2>2 DEF Lifecycle!Next, NewLead
  <1>8. CASE r.kind = "status"
    <2>1. Changed(s, lead[l]) = [lead[l] EXCEPT !.status = r.to]
      BY <1>8 DEF Changed
    <2>2. r.write = [lead[l] EXCEPT !.status = r.to] /\ client' = client
      BY <1>1, <1>2, <1>3, <1>8, <2>1
    <2>3. r.user \in Users /\ Visible(r.user, lead[l]) /\ r.to \in valid_transitions[lead[l].status]
      BY <1>8 DEF StillLoaded, Loaded
    <2>4. r.to \in Statuses
      BY <1>8 DEF Commit, Inv, SessionOK, Shape
    <2>5. Lifecycle!PatchStatus(r.user, l, r.to)
      BY <1>1, <1>2, <1>8, <2>2, <2>3, SameRules DEF Lifecycle!PatchStatus
    <2>6. [Lifecycle!Next]_(Lifecycle!vars)
      BY <1>1, <2>3, <2>4, <2>5, SameRules DEF Lifecycle!Next
    <2>7. r.write.client = lead[l].client /\ r.write \in LeadRow
      BY <1>1, <1>8, <2>2, <2>4 DEF LeadRow
    <2>8. lead[l].client = None
      BY <1>1, <1>8, <2>3 DEF LinkExact, valid_transitions
    <2>9. QED
      BY <1>1, <1>5, <1>8, <2>2, <2>6, <2>7, <2>8
  <1>9. CASE r.kind = "assign"
    <2>1. Changed(s, lead[l]) = [lead[l] EXCEPT !.owner = r.to]
      BY <1>9 DEF Changed
    <2>2. r.write = [lead[l] EXCEPT !.owner = r.to] /\ client' = client
      BY <1>1, <1>2, <1>3, <1>9, <2>1
    <2>3. r.user \in Users /\ Role[r.user] = "admin"
      BY <1>9 DEF StillLoaded, Loaded
    <2>4. r.to \in Users
      BY <1>9 DEF Commit, Inv, SessionOK, Shape
    <2>5. Lifecycle!Assign(l, r.to)
      BY <1>1, <1>2, <1>9, <2>2, <2>3 DEF Lifecycle!Assign
    <2>6. [Lifecycle!Next]_(Lifecycle!vars)
      BY <1>1, <2>4, <2>5 DEF Lifecycle!Next
    <2>7. /\ r.write.client = lead[l].client /\ r.write.status = lead[l].status
          /\ r.write \in LeadRow
      BY <1>1, <1>9, <2>2, <2>4 DEF LeadRow
    <2>8. QED
      BY <1>1, <1>5, <1>9, <2>2, <2>6, <2>7
  <1>10. CASE r.kind = "convert"
    <2> DEFINE c == r.client
    <2>1. Changed(s, lead[l]) = [lead[l] EXCEPT !.status = "converted", !.client = c]
      BY <1>10 DEF Changed
    <2>2. /\ r.write = [lead[l] EXCEPT !.status = "converted", !.client = c]
          /\ client' = [client EXCEPT ![c] = [lead |-> l, parts |-> r.parts]]
      BY <1>1, <1>2, <1>3, <1>10, <2>1
    <2>3. r.user \in Users /\ MayConvert(r.user) /\ Convertible(lead[l])
      BY <1>10 DEF StillLoaded, Loaded
    <2>4. /\ c \in ClientIds /\ c # None /\ client[c] = None /\ Needed \subseteq r.parts
          /\ r.parts \in SUBSET Parts
      BY <1>1, <1>10 DEF Inv, SessionOK, FreshClient, Inserted, Requests
    <2>5. Lifecycle!Convert(l, c, r.parts)
      BY <1>1, <1>2, <1>10, <2>2, <2>3, <2>4, SameRules DEF Lifecycle!Convert
    <2>6. [Lifecycle!Next]_(Lifecycle!vars)
      BY <1>1, <2>4, <2>5, SameRules DEF Lifecycle!Next
    <2>7. /\ r.write.client = c /\ r.write.status = "converted" /\ r.write \in LeadRow
      BY <1>1, <1>10, <2>2, <2>4 DEF LeadRow, Statuses
    <2>8. /\ client'[c] = [lead |-> l, parts |-> r.parts]
          /\ \A d \in ClientIds \ {c} : client'[d] = client[d]
          /\ client'[c] # None /\ client'[c].lead = l
          /\ \A d \in ClientIds : client[d] # None => client[d].lead \in Leads
      BY <2>2, <2>4, <1>1 DEF Inv, TypeOK, ClientRow
    <2>9. \A m \in Leads : ClientsOf(m)' = IF m = l THEN ClientsOf(m) \cup {c} ELSE ClientsOf(m)
      <3>1. ASSUME NEW m \in Leads, NEW d \in ClientIds
            PROVE  client'[d] # None /\ client'[d].lead = m
                      <=> \/ client[d] # None /\ client[d].lead = m
                          \/ m = l /\ d = c
        BY <2>4, <2>8
      <3>2. QED
        BY <2>4, <3>1 DEF ClientsOf
    <2>10. lead[l].client = None /\ ClientsOf(l) = {}
      BY <1>1, <1>10, <2>3 DEF LinkExact, Convertible
    <2>11. LinkExact'
      <3>1. ASSUME NEW m \in Leads, lead'[m] # None
            PROVE  /\ ClientsOf(m)' = {lead'[m].client} \ {None}
                   /\ lead'[m].client # None => lead'[m].status = "converted"
        <4>1. CASE m = l
          BY <1>4, <2>4, <2>7, <2>9, <2>10, <4>1
        <4>2. CASE m # l
          BY <1>4, <2>9, <3>1, <4>2 DEF LinkExact
        <4>3. QED
          BY <4>1, <4>2
      <3>2. QED
        BY <3>1 DEF LinkExact
    <2>12. ClientsHaveLead'
      BY <1>4, <2>7, <2>8 DEF ClientsHaveLead
    <2>13. QED
      BY <2>6, <2>11, <2>12
  <1>11. CASE r.kind \in {"none", "edit"}
    <2>1. r.write = lead[l] /\ client' = client
      BY <1>1, <1>2, <1>3, <1>11 DEF Changed
    <2>2. lead' = lead
      BY <1>1, <1>2, <2>1 DEF Inv, TypeOK
    <2>3. QED
      BY <1>1, <1>5, <1>11, <2>1, <2>2 DEF Lifecycle!vars
  <1>12. QED
    BY <1>1, <1>7, <1>8, <1>9, <1>10, <1>11 DEF Requests

LEMMA SerialStep ==
    ASSUME OneAtATime, SerialInv, [Next]_vars
    PROVE  SerialInv' /\ [Lifecycle!Next]_(Lifecycle!vars)
  <1>1. Inv'
    BY StepInv DEF SerialInv
  <1>2. ASSUME UNCHANGED <<lead, client>>
        PROVE  (ClientsHaveLead /\ LinkExact)' /\ [Lifecycle!Next]_(Lifecycle!vars)
    BY <1>2 DEF SerialInv, ClientsHaveLead, LinkExact, ClientsOf, Lifecycle!vars
  <1>3. ASSUME NEW s \in Sessions, Begin(s)
        PROVE  UNCHANGED <<lead, client>> /\ StillLoaded(s)'
    BY <1>3, BeginLoads DEF SerialInv
  <1>4. ASSUME NEW s \in Sessions,
               \/ InsertClient(s) \/ InsertContact(s) \/ InsertProfile(s) \/ append_activity(s)
               \/ SaveLead(s) \/ Abort(s)
        PROVE  UNCHANGED <<lead, client>> /\ (pc'[s] # "idle" => StillLoaded(s)')
    BY <1>4, StatementKeeps DEF SerialInv
  <1>5. ASSUME NEW s \in Sessions, Commit(s)
        PROVE  /\ [Lifecycle!Next]_(Lifecycle!vars) /\ (ClientsHaveLead /\ LinkExact)'
               /\ pc'[s] = "idle"
    <2>1. pc'[s] = "idle" /\ StillLoaded(s)
      BY <1>5 DEF Commit, End, Goto, SerialInv, Inv, TypeOK
    <2>2. QED
      BY <1>5, <2>1, CommitIsLifecycle DEF SerialInv
  <1>6. CASE Next
    <2>1. PICK s \in Sessions : Begin(s) \/ Proceed(s) \/ Abort(s)
      BY <1>6 DEF Next
    <2>2. \/ UNCHANGED <<lead, client>> /\ (pc'[s] # "idle" => StillLoaded(s)')
          \/ Commit(s)
      BY <1>3, <1>4, <2>1 DEF Proceed
    <2>3. \A u \in Sessions : pc'[u] # "idle" => StillLoaded(u)'
      BY <1>5, <2>2 DEF OneAtATime
    <2>4. QED
      BY <1>1, <1>2, <1>5, <2>2, <2>3 DEF SerialInv
  <1>7. CASE UNCHANGED vars
    <2>1. \A u \in Sessions : pc'[u] # "idle" => StillLoaded(u)'
      BY <1>7 DEF vars, SerialInv, StillLoaded, Loaded, Visible, MayConvert, Convertible, Changed
    <2>2. QED
      BY <1>1, <1>2, <1>7, <2>1 DEF vars, SerialInv
  <1>8. QED
    BY <1>6, <1>7

LEMMA InitSerialInv == Init => SerialInv /\ Lifecycle!Init
  BY InitInv DEF Init, SerialInv, ClientsHaveLead, LinkExact, Lifecycle!Init

\* One request at a time, however it ends, every endpoint does one step of LeadLifecycle: a
\* status moves along its machine from the committed one, and a conversion makes the whole
\* client and the link at once.
THEOREM SerialImplementsLifecycle == ASSUME OneAtATime PROVE Spec => ImplementsLifecycle
  <1>1. SerialInv /\ [Next]_vars => SerialInv' /\ [Lifecycle!Next]_(Lifecycle!vars)
    BY SerialStep
  <1>2. QED
    BY InitSerialInv, <1>1, PTL DEF Spec, ImplementsLifecycle, Lifecycle!Spec

\* One request at a time, a lead has the client its link names and no other, and a linked
\* lead stays "converted".
THEOREM SerialLinksAreExact == ASSUME OneAtATime PROVE Spec => []LinkExact
  <1>1. SerialInv /\ [Next]_vars => SerialInv'
    BY SerialStep
  <1>2. SerialInv => LinkExact
    BY DEF SerialInv
  <1>3. QED
    BY InitSerialInv, <1>1, <1>2, PTL DEF Spec

-----------------------------------------------------------------------------
(* Duplicate clients.  A conversion in flight may yet add a client, so it   *)
(* counts like one that is there; none begins on a lead that has a link,    *)
(* and a lead that has a client has a link.                                 *)

OpenOn(l) == {s \in Sessions : loc[s].kind = "convert" /\ loc[s].lead = l}

CountInv(l) == /\ ClientsOf(l) # {} => lead[l] # None /\ lead[l].client # None
               /\ IsFiniteSet(ClientsOf(l))
               /\ Cardinality(ClientsOf(l)) + Cardinality(OpenOn(l)) <= Cardinality(Sessions)

OverlapInv == Inv /\ \A l \in Leads : CountInv(l)

LEMMA OpenFinite ==
    ASSUME NEW S \in SUBSET Sessions, NEW T \in SUBSET S
    PROVE  /\ IsFiniteSet(S) /\ Cardinality(S) \in Nat
           /\ Cardinality(S) <= Cardinality(Sessions)
           /\ Cardinality(T) \in Nat /\ Cardinality(T) <= Cardinality(S)
  BY SessionsAssumption, FS_Subset, FS_CardinalityType

\* A step that adds no client and opens no conversion on l.
LEMMA CountKept ==
    ASSUME NEW l \in Leads, CountInv(l), UNCHANGED client, OpenOn(l)' \subseteq OpenOn(l),
           lead[l] # None /\ lead[l].client # None => lead'[l] # None /\ lead'[l].client # None
    PROVE  CountInv(l)'
  <1>1. ClientsOf(l)' = ClientsOf(l)
    BY DEF ClientsOf
  <1>2. OpenOn(l) \in SUBSET Sessions
    BY DEF OpenOn
  <1>3. /\ Cardinality(OpenOn(l)) \in Nat /\ Cardinality(OpenOn(l)') \in Nat
        /\ Cardinality(OpenOn(l)') <= Cardinality(OpenOn(l))
    BY <1>2, OpenFinite
  <1>4. Cardinality(ClientsOf(l)) \in Nat /\ Cardinality(Sessions) \in Nat
    BY SessionsAssumption, FS_CardinalityType DEF CountInv
  <1>5. Cardinality(ClientsOf(l)') + Cardinality(OpenOn(l)') <= Cardinality(Sessions)
    BY <1>1, <1>3, <1>4 DEF CountInv
  <1>6. QED
    BY <1>1, <1>5 DEF CountInv

\* A request that begins opens a conversion only where there is no client.
LEMMA BeginCount ==
    ASSUME Inv, NEW s \in Sessions, Begin(s), NEW l \in Leads, CountInv(l)
    PROVE  CountInv(l)'
  <1>1. ASSUME NEW step, NEW r, Start(s, step, r),
               r.kind = "convert" => lead[r.lead].client = None
        PROVE  CountInv(l)'
    <2>1. /\ UNCHANGED <<lead, client>> /\ loc'[s] = r
          /\ \A u \in Sessions \ {s} : loc'[u] = loc[u]
      BY <1>1 DEF Start, Inv, TypeOK
    <2>2. CASE r.kind = "convert" /\ r.lead = l
      <3>1. ClientsOf(l) = {}
        BY <1>1, <2>2 DEF CountInv
      <3>2. ClientsOf(l)' = {}
        BY <2>1, <3>1 DEF ClientsOf
      <3>3. OpenOn(l)' \in SUBSET Sessions
        BY DEF OpenOn
      <3>4. Cardinality(OpenOn(l)') \in Nat /\ Cardinality(OpenOn(l)') <= Cardinality(Sessions)
        BY <3>3, OpenFinite
      <3>5. QED
        BY <3>2, <3>4, FS_EmptySet DEF CountInv
    <2>3. CASE ~(r.kind = "convert" /\ r.lead = l)
      <3>1. OpenOn(l)' \subseteq OpenOn(l)
        BY <2>1, <2>3 DEF OpenOn
      <3>2. QED
        BY <2>1, <3>1, CountKept
    <2>4. QED
      BY <2>2, <2>3
  <1>2. CASE BeginSubmit(s)
    BY <1>1, <1>2 DEF BeginSubmit, NoRequest
  <1>3. CASE BeginEdit(s)
    BY <1>1, <1>3 DEF BeginEdit, NoRequest
  <1>4. CASE BeginStatus(s)
    BY <1>1, <1>4 DEF BeginStatus, NoRequest
  <1>5. CASE BeginAssign(s)
    BY <1>1, <1>5 DEF BeginAssign, NoRequest
  <1>6. CASE BeginConvert(s)
    BY <1>1, <1>6 DEF BeginConvert, NoRequest, Convertible
  <1>7. QED
    BY <1>2, <1>3, <1>4, <1>5, <1>6 DEF Begin

\* A statement, or an abort, of a request opens nothing.
LEMMA StatementCount ==
    ASSUME Inv, NEW s \in Sessions, NEW l \in Leads, CountInv(l),
           \/ InsertClient(s) \/ InsertContact(s) \/ InsertProfile(s) \/ append_activity(s)
           \/ SaveLead(s) \/ Abort(s)
    PROVE  CountInv(l)'
  <1>1. /\ UNCHANGED <<lead, client>>
        /\ \/ loc'[s] = NoRequest
           \/ (loc'[s].kind = loc[s].kind /\ loc'[s].lead = loc[s].lead)
        /\ \A u \in Sessions \ {s} : loc'[u] = loc[u]
    <2>1. CASE Abort(s)
      BY <2>1 DEF Abort, Rollback, End, Inv, TypeOK
    <2>2. CASE SaveLead(s)
      BY <2>2 DEF SaveLead, Inv, TypeOK, Requests
    <2>3. ASSUME NEW from, NEW part, NEW to, Insert(s, from, part, to)
          PROVE  /\ UNCHANGED <<lead, client>>
                 /\ loc'[s].kind = loc[s].kind /\ loc'[s].lead = loc[s].lead
                 /\ \A u \in Sessions \ {s} : loc'[u] = loc[u]
      BY <2>3 DEF Insert, Inv, TypeOK, Requests
    <2>4. QED
      BY <2>1, <2>2, <2>3 DEF InsertClient, InsertContact, InsertProfile, append_activity
  <1>2. OpenOn(l)' \subseteq OpenOn(l)
    BY <1>1 DEF OpenOn, NoRequest
  <1>3. QED
    BY <1>1, <1>2, CountKept

\* A COMMIT turns an open conversion of a lead into a client of it.
LEMMA CommitCount ==
    ASSUME Inv, NEW s \in Sessions, Commit(s), NEW l \in Leads, CountInv(l)
    PROVE  CountInv(l)'
  <1> USE NoneAssumption
  <1>1. /\ loc[s] \in Requests /\ loc[s].lead \in Leads /\ loc[s].write # None
        /\ loc[s].kind = "convert" <=> loc[s].client # None
        /\ loc[s].client # None => /\ client[loc[s].client] = None
                                   /\ loc[s].write.client = loc[s].client
        /\ loc[s].client \in ClientIds \cup {None}
    BY DEF Commit, Inv, TypeOK, SessionOK, Shape, FreshClient, WriteKnowsLink, Requests
  <1>2. /\ loc'[s].kind = "none" /\ \A u \in Sessions \ {s} : loc'[u] = loc[u]
        /\ lead'[loc[s].lead] = loc[s].write
        /\ lead[l] # None /\ lead[l].client # None => lead'[l] # None /\ lead'[l].client # None
    BY <1>1, CommitInv DEF Commit, End, NoRequest, Inv, TypeOK
  <1>3. OpenOn(l)' = OpenOn(l) \ {s}
    BY <1>2 DEF OpenOn
  <1>4. CASE loc[s].client = None
    <2>1. UNCHANGED client
      BY <1>4 DEF Commit
    <2>2. QED
      BY <1>2, <1>3, <2>1, CountKept
  <1>5. CASE loc[s].client # None
    <2> DEFINE c == loc[s].client
    <2>1. /\ c \in ClientIds /\ client[c] = None
          /\ client'[c] # None /\ client'[c].lead = loc[s].lead
          /\ \A d \in ClientIds \ {c} : client'[d] = client[d]
      BY <1>1, <1>5 DEF Commit, Inv, TypeOK, ClientRow, Requests
    <2>2. CASE loc[s].lead = l
      <3>1. ClientsOf(l)' = ClientsOf(l) \cup {c} /\ c \notin ClientsOf(l)
        BY <2>1, <2>2 DEF ClientsOf
      <3>2. s \in OpenOn(l) /\ OpenOn(l) \in SUBSET Sessions
        BY <1>1, <1>5, <2>2 DEF OpenOn
      <3>3. Cardinality(OpenOn(l)') = Cardinality(OpenOn(l)) - 1 /\ Cardinality(OpenOn(l)) \in Nat
        BY <1>3, <3>2, OpenFinite, FS_RemoveElement
      <3>4. /\ IsFiniteSet(ClientsOf(l)')
            /\ Cardinality(ClientsOf(l)') = Cardinality(ClientsOf(l)) + 1
            /\ Cardinality(ClientsOf(l)) \in Nat /\ Cardinality(Sessions) \in Nat
        <4>1. IsFiniteSet(ClientsOf(l)) /\ IsFiniteSet(Sessions)
          BY SessionsAssumption DEF CountInv
        <4>2. Cardinality(ClientsOf(l)) \in Nat /\ Cardinality(Sessions) \in Nat
          BY <4>1, FS_CardinalityType
        <4>3. /\ IsFiniteSet(ClientsOf(l) \cup {c})
              /\ Cardinality(ClientsOf(l) \cup {c}) = Cardinality(ClientsOf(l)) + 1
          BY <3>1, <4>1, FS_AddElement
        <4>4. QED
          BY <3>1, <4>2, <4>3
      <3>5. lead'[l] # None /\ lead'[l].client # None
        BY <1>1, <1>2, <1>5, <2>2
      <3>6. Cardinality(ClientsOf(l)') + Cardinality(OpenOn(l)') <= Cardinality(Sessions)
        BY <3>3, <3>4 DEF CountInv
      <3>7. QED
        BY <3>4, <3>5, <3>6 DEF CountInv
    <2>3. CASE loc[s].lead # l
      <3>1. \A d \in ClientIds : client'[d] # None /\ client'[d].lead = l
                                    <=> client[d] # None /\ client[d].lead = l
        BY <2>1, <2>3
      <3>2. ClientsOf(l)' = ClientsOf(l)
        BY <3>1 DEF ClientsOf
      <3>3. OpenOn(l)' = OpenOn(l)
        BY <1>3, <2>3 DEF OpenOn
      <3>4. QED
        BY <1>2, <3>2, <3>3 DEF CountInv
    <2>4. QED
      BY <2>2, <2>3
  <1>6. QED
    BY <1>4, <1>5

\* However many conversions of one lead overlap, and however they end, they leave no more
\* clients than there are sessions: none starts once one has linked the lead.
THEOREM DuplicatesAreBounded == Spec => []DuplicatesOverlap
  <1>1. Init => OverlapInv
    <2> SUFFICES ASSUME Init, NEW l \in Leads PROVE CountInv(l)
      BY InitInv DEF OverlapInv
    <2>1. ClientsOf(l) = {} /\ OpenOn(l) = {}
      BY DEF Init, ClientsOf, OpenOn, NoRequest
    <2>2. Cardinality(Sessions) \in Nat
      BY SessionsAssumption, FS_CardinalityType
    <2>3. QED
      BY <2>1, <2>2, FS_EmptySet DEF CountInv
  <1>2. OverlapInv /\ [Next]_vars => OverlapInv'
    <2> SUFFICES ASSUME OverlapInv, [Next]_vars, NEW l \in Leads PROVE CountInv(l)'
      BY StepInv DEF OverlapInv
    <2>1. CASE Next
      BY <2>1, BeginCount, StatementCount, CommitCount DEF OverlapInv, Next, Proceed
    <2>2. CASE UNCHANGED vars
      BY <2>2 DEF vars, OverlapInv, CountInv, ClientsOf, OpenOn
    <2>3. QED
      BY <2>1, <2>2
  <1>3. OverlapInv => DuplicatesOverlap
    <2> SUFFICES ASSUME NEW l \in Leads, CountInv(l)
                 PROVE  Cardinality(ClientsOf(l)) <= Cardinality(Sessions)
      BY DEF OverlapInv, DuplicatesOverlap
    <2>1. OpenOn(l) \in SUBSET Sessions
      BY DEF OpenOn
    <2>2. Cardinality(OpenOn(l)) \in Nat
      BY <2>1, OpenFinite
    <2>3. Cardinality(ClientsOf(l)) \in Nat /\ Cardinality(Sessions) \in Nat
      BY SessionsAssumption, FS_CardinalityType DEF CountInv
    <2>4. QED
      BY <2>2, <2>3 DEF CountInv
  <1>4. QED
    BY <1>1, <1>2, <1>3, PTL DEF Spec

=============================================================================
