--------------------------- MODULE EngagementProofs ---------------------------
(***************************************************************************)
(* Theorems about Engagements, for any services, milestones, tickets and   *)
(* sessions.                                                               *)
(***************************************************************************)
EXTENDS Engagements, TLAPS

-----------------------------------------------------------------------------
(* The inductive invariant.  Of one session with locals r at statement      *)
(* step: its shape, and what the tables know of the value it loaded (Loaded) *)
(* and of the row it has locked (Locked).  Of two sessions: Apart.          *)

Shape(step, r) ==
    /\ step = "idle" => r = NoRequest
    /\ step # "idle" => r.id \in Rows
    /\ r.lock \in {None, r.id}
    /\ step \in {"idle", "insert", "write", "remove"} => r.lock = None
    /\ step = "log" => r.lock # None
    /\ step \in {"idle", "insert", "write", "remove", "log"} => r.entry = None
    /\ step = "commit" => r.entry = IF r.lock = None THEN None ELSE Entry(r)
    /\ step = "insert" => r.was = None
    /\ step = "remove" => r.to = "deleted"

Fits(step, r) ==
    /\ step # "idle" => r.was \in Values(r.id) \cup {None}
    /\ step # "idle" => r.to \in Values(r.id) \cup {None, "deleted"}
    /\ step # "idle" /\ r.was = None => r.to \in Values(r.id)
    /\ r.was # None => r.named
    /\ r.to = "deleted" => r.id \in Milestones

Loaded(step, r) ==
    /\ step # "idle" /\ r.was = None => row[r.id] = None
    /\ r.id \in Tracked /\ r.was # None => Explains(trail[r.id], r.id, born[r.id], r.was)
    /\ r.id \in Flagged /\ r.was \in Final => marks[r.id] > 0

Locked(r) ==
    /\ r.lock # None /\ r.was # None => Live(row, r.id)
    /\ r.lock \in Milestones /\ r.was = None => ~SlotTaken(row, r.id)

Alone(step, r) == Shape(step, r) /\ Fits(step, r) /\ Loaded(step, r) /\ Locked(r)

\* Two requests hold different locks; an insert has its row, and its slot, to itself.
Apart(r, q) ==
    /\ r.lock # None => q.lock # r.lock
    /\ r.id # None /\ (r.was = None \/ q.was = None) => q.id # r.id
    /\ r.lock \in Milestones /\ q.lock \in Milestones /\ (r.was = None \/ q.was = None)
          => Slot[r.lock] # Slot[q.lock]

Inv == /\ TypeOK
       /\ \A s \in Sessions : Alone(pc[s], loc[s])
       /\ \A s, u \in Sessions : s # u => Apart(loc[s], loc[u])
       /\ TrailExplains
       /\ DoneIsLogged
       /\ SlotUnique

-----------------------------------------------------------------------------
LEMMA Constants == /\ None \notin AllValues /\ None \notin Rows /\ "deleted" \notin AllValues
                   /\ None # "deleted" /\ None \notin Final
                   /\ \A i \in Rows : Values(i) \subseteq AllValues
                   /\ \A i \in Rows : First(i) \subseteq Values(i)
                   /\ Milestones \subseteq Rows /\ Milestones \subseteq Flagged
                   /\ Milestones \cap Tracked = {} /\ Tracked \cap Flagged = {}
                   /\ Rows = Tracked \cup Flagged
  BY NoneAssumption, IdsAssumption, NewStagesAssumption
     DEF AllValues, Values, First, Rows, Tracked, Flagged, Stages, States, Progress,
         TicketStatus, Final

LEMMA AllowedValues ==
    ASSUME NEW i \in Rows, NEW v \in Values(i)
    PROVE  Allowed(i, v) \subseteq Values(i)
  <1>1. CASE i = Client
    BY <1>1 DEF Allowed, Values, Stages, ClientStageMachine
  <1>2. CASE i # Client /\ i \in Services
    BY <1>2 DEF Allowed, Values, States, ServiceStateMachine
  <1>3. CASE i # Client /\ i \notin Services
    BY <1>3 DEF Allowed, Values, Progress, TicketStatus
  <1>4. QED
    BY <1>1, <1>2, <1>3

\* A log that grows explains what it explained, and each entry explains one value more.
LEMMA ExplainsGrows ==
    ASSUME NEW i, NEW E, NEW F, E \subseteq F, NEW u, NEW v, Explains(E, i, u, v)
    PROVE  Explains(F, i, u, v)
  BY DEF Explains

LEMMA ExplainsNext ==
    ASSUME NEW i, NEW E, NEW u, NEW v, NEW w, Explains(E, i, u, v)
    PROVE  Explains(E \cup {<<v, w>>}, i, u, w)
  <1> SUFFICES ASSUME NEW S \in SUBSET Values(i), u \in S,
                      \A e \in E \cup {<<v, w>>} : e[1] \in S => e[2] \in S
               PROVE  w \in S
    BY DEF Explains
  <1>1. v \in S
    BY DEF Explains
  <1>2. <<v, w>>[1] \in S => <<v, w>>[2] \in S
    OBVIOUS
  <1>3. QED
    BY <1>1, <1>2

LEMMA NoRequestOK == /\ NoRequest \in Requests
                     /\ Alone("idle", NoRequest)
                     /\ \A q \in Requests : Apart(NoRequest, q) /\ Apart(q, NoRequest)
  <1>1. NoRequest \in Requests
    BY DEF NoRequest, Requests
  <1>2. Alone("idle", NoRequest)
    BY Constants DEF Alone, Shape, Fits, Loaded, Locked, NoRequest
  <1>3. \A q \in Requests : Apart(NoRequest, q) /\ Apart(q, NoRequest)
    BY Constants DEF Apart, NoRequest, Requests
  <1>4. QED
    BY <1>1, <1>2, <1>3

LEMMA InitInv == Init => Inv
  <1> SUFFICES ASSUME Init PROVE Inv
    OBVIOUS
  <1>1. TypeOK
    BY NoRequestOK DEF Init, TypeOK, Steps
  <1>2. \A s \in Sessions : Alone(pc[s], loc[s])
    BY NoRequestOK DEF Init
  <1>3. \A s, u \in Sessions : s # u => Apart(loc[s], loc[u])
    BY NoRequestOK DEF Init
  <1>4. TrailExplains /\ DoneIsLogged /\ SlotUnique
    BY Constants DEF Init, TrailExplains, DoneIsLogged, SlotUnique, Live
  <1>5. QED
    BY <1>1, <1>2, <1>3, <1>4 DEF Inv

\* A statement that commits nothing keeps the invariant if it leaves its session in order.
LEMMA LocalStep ==
    ASSUME Inv, NEW s \in Sessions, NEW step \in Steps, NEW r \in Requests,
           pc' = [pc EXCEPT ![s] = step], loc' = [loc EXCEPT ![s] = r],
           UNCHANGED <<row, born, trail, marks>>, Alone(step, r),
           \A u \in Sessions \ {s} : Apart(r, loc[u]) /\ Apart(loc[u], r)
    PROVE  Inv'
  <1>1. /\ pc'[s] = step /\ loc'[s] = r
        /\ \A u \in Sessions \ {s} : pc'[u] = pc[u] /\ loc'[u] = loc[u]
    BY DEF Inv, TypeOK
  <1>2. TypeOK'
    BY DEF Inv, TypeOK
  <1>3. ASSUME NEW u \in Sessions PROVE Alone(pc[u], loc[u])'
    <2>1. Alone(pc'[u], loc'[u])
      BY <1>1 DEF Inv
    <2>2. QED
      BY <2>1 DEF Alone, Shape, Fits, Loaded, Locked
  <1>4. \A t, u \in Sessions : t # u => Apart(loc[t], loc[u])'
    <2> SUFFICES ASSUME NEW t \in Sessions, NEW u \in Sessions, t # u
                 PROVE  Apart(loc'[t], loc'[u])
      BY DEF Apart
    <2>1. QED
      BY <1>1 DEF Inv
  <1>5. (TrailExplains /\ DoneIsLogged /\ SlotUnique)'
    BY DEF Inv, TrailExplains, DoneIsLogged, SlotUnique, Live
  <1>6. QED
    BY <1>2, <1>3, <1>4, <1>5 DEF Inv

LEMMA RollbackInv ==
    ASSUME Inv, NEW s \in Sessions, Rollback(s)
    PROVE  Inv'
  <1>1. \A u \in Sessions : loc[u] \in Requests
    BY DEF Inv, TypeOK
  <1>2. QED
    BY <1>1, LocalStep, NoRequestOK DEF Rollback, End, Goto, Steps

-----------------------------------------------------------------------------
(* The statements before COMMIT.                                           *)

\* A request that is to go on at step with row i, loaded as was, or new.
LEMMA StartInv ==
    ASSUME Inv, NEW s \in Sessions, NEW step \in {"insert", "write", "remove", "commit"},
           NEW i \in Rows, NEW was, NEW to, NEW named \in BOOLEAN,
           Start(s, step, i, was, to, named), was # None => named,
           IF step = "remove" THEN to = "deleted" /\ i \in Milestones
                              ELSE to \in Values(i) \cup {None},
           \/ /\ step = "insert" /\ was = None /\ to \in Values(i) /\ row[i] = None
              /\ \A u \in Sessions : loc[u].id # i
           \/ step # "insert" /\ Live(row, i) /\ was = row[i]
    PROVE  Inv'
  <1> DEFINE r == [id |-> i, was |-> was, to |-> to, named |-> named, lock |-> None,
                 entry |-> None]
  <1>1. was \in Values(i) \cup {None}
    BY Constants DEF Inv, TypeOK, Live
  <1>2. r \in Requests
    BY <1>1, Constants DEF Requests
  <1>3. Alone(step, r)
    <2>1. Shape(step, r) /\ Fits(step, r)
      BY <1>1, Constants DEF Shape, Fits, Live
    <2>2. Loaded(step, r) /\ Locked(r)
      BY Constants DEF Loaded, Locked, Live, Inv, TrailExplains, DoneIsLogged
    <2>3. QED
      BY <2>1, <2>2 DEF Alone
  <1>4. ASSUME NEW u \in Sessions \ {s} PROVE Apart(r, loc[u]) /\ Apart(loc[u], r)
    <2>1. loc[u] \in Requests /\ Alone(pc[u], loc[u])
      BY DEF Inv, TypeOK
    <2>2. loc[u].id = i /\ loc[u].was = None => step # "insert" /\ row[i] = None
      BY <2>1, Constants DEF Alone, Shape, Loaded, NoRequest
    <2>3. QED
      BY <2>1, <2>2, Constants DEF Apart, Requests, Live
  <1>5. pc' = [pc EXCEPT ![s] = step] /\ loc' = [loc EXCEPT ![s] = r]
        /\ UNCHANGED <<row, born, trail, marks>>
    BY DEF Start, Goto
  <1> HIDE DEF r
  <1>6. step \in Steps
    BY DEF Steps
  <1>7. QED
    BY <1>2, <1>3, <1>4, <1>5, <1>6, LocalStep

LEMMA BeginInv ==
    ASSUME Inv, NEW s \in Sessions, Begin(s)
    PROVE  Inv' /\ row' = row
  <1>1. ASSUME NEW i \in Rows, NEW named \in BOOLEAN, LoadNew(s, i, named) PROVE Inv' /\ row' = row
    <2>1. PICK v \in First(i) : /\ row[i] = None
                                /\ \A u \in Sessions : loc[u].id # i
                                /\ Start(s, "insert", i, None, v, named)
      BY <1>1 DEF LoadNew
    <2>2. v \in Values(i)
      BY Constants
    <2>3. QED
      BY <2>1, <2>2, StartInv DEF Start
  <1>2. ASSUME NEW i \in Rows, SetValue(s, i) PROVE Inv' /\ row' = row
    <2>1. PICK v \in Allowed(i, row[i]) :
              Start(s, IF i \in Tickets /\ v = row[i] THEN "commit" ELSE "write", i, row[i], v, TRUE)
      BY <1>2 DEF SetValue
    <2>2. Live(row, i) /\ v \in Values(i)
      BY <1>2, AllowedValues, Constants DEF SetValue, Inv, TypeOK, Live
    <2>3. PICK step \in {"write", "commit"} : Start(s, step, i, row[i], v, TRUE)
      BY <2>1
    <2>4. QED
      BY <2>2, <2>3, StartInv DEF Start
  <1>3. ASSUME NEW i \in Rows, EditRow(s, i) PROVE Inv' /\ row' = row
    BY <1>3, StartInv DEF EditRow, Start
  <1>4. ASSUME delete_milestone(s) PROVE Inv' /\ row' = row
    BY <1>4, StartInv, Constants DEF delete_milestone, Start
  <1>5. Client \in Rows /\ Services \subseteq Rows /\ Milestones \subseteq Rows
        /\ Tickets \subseteq Rows
    BY DEF Rows, Tracked, Flagged
  <1>6. QED
    BY <1>1, <1>2, <1>3, <1>4, <1>5
       DEF Begin, create_client, convert_from_lead, create_service, create_under_service, create_ticket,
           change_stage, update_client, change_state, update_service, update_milestone,
           update_ticket, update_ticket_internal

\* What locking the row of r does to it.
LEMMA LockInv ==
    ASSUME Inv, NEW s \in Sessions, NEW step \in {"log", "commit"}, TakeLock(s, step),
           pc[s] \in {"insert", "write", "remove"},
           step = "commit" => Entry(loc[s]) = None,
           \A u \in Sessions \ {s} : loc[u].lock # loc[s].id,
           loc[s].was # None => Live(row, loc[s].id),
           loc[s].was = None /\ loc[s].id \in Milestones => SlotFree(s) /\ ~SlotTaken(row, loc[s].id)
    PROVE  Inv'
  <1> DEFINE r == [loc[s] EXCEPT !.lock = loc[s].id]
  <1>1. loc[s] \in Requests /\ Alone(pc[s], loc[s]) /\ loc[s].id \in Rows
    BY DEF Inv, TypeOK, Alone, Shape
  <1>2. /\ r \in Requests /\ r.id = loc[s].id /\ r.was = loc[s].was /\ r.to = loc[s].to
        /\ r.named = loc[s].named /\ r.entry = loc[s].entry /\ r.lock = loc[s].id
    BY <1>1 DEF Requests
  <1>3. pc' = [pc EXCEPT ![s] = step] /\ loc' = [loc EXCEPT ![s] = r]
        /\ UNCHANGED <<row, born, trail, marks>>
    BY DEF TakeLock, Goto
  <1> HIDE DEF r
  <1>4. Entry(r) = Entry(loc[s])
    BY <1>2 DEF Entry, Said
  <1>5. Shape(step, r)
    BY <1>1, <1>2, <1>4, Constants DEF Alone, Shape
  <1>6. Fits(step, r) /\ Loaded(step, r) /\ Locked(r)
    BY <1>1, <1>2 DEF Alone, Fits, Loaded, Locked
  <1>7. ASSUME NEW u \in Sessions \ {s} PROVE Apart(r, loc[u]) /\ Apart(loc[u], r)
    <2>1. /\ loc[u] \in Requests /\ Alone(pc[u], loc[u])
          /\ Apart(loc[s], loc[u]) /\ Apart(loc[u], loc[s])
      BY DEF Inv, TypeOK
    <2>2. ASSUME r.lock \in Milestones, loc[u].lock \in Milestones,
                 r.was = None \/ loc[u].was = None
          PROVE  Slot[r.lock] # Slot[loc[u].lock]
      <3>1. CASE r.was = None
        BY <1>2, <2>2, <3>1 DEF SlotFree
      <3>2. CASE r.was # None
        <4>1. Live(row, r.lock)
          BY <1>2, <3>2
        <4>2. loc[u].lock = loc[u].id /\ loc[u].was = None
          BY <2>1, <2>2, <3>2, Constants DEF Alone, Shape
        <4>3. ~SlotTaken(row, loc[u].lock)
          BY <2>1, <2>2, <4>2 DEF Alone, Locked
        <4>4. QED
          BY <2>2, <4>1, <4>3 DEF SlotTaken
      <3>3. QED
        BY <3>1, <3>2
    <2>3. QED
      BY <1>2, <2>1, <2>2 DEF Apart
  <1>8. QED
    BY <1>2, <1>3, <1>5, <1>6, <1>7, LocalStep DEF Alone, Steps

LEMMA WriteInv ==
    ASSUME Inv, NEW s \in Sessions, InsertRow(s) \/ WriteRow(s) \/ RemoveRow(s)
    PROVE  Inv'
  <1> DEFINE r == loc[s]
  <1>1. r \in Requests /\ Alone(pc[s], r)
    BY DEF Inv, TypeOK
  <1>2. AfterWrite(s) \in {"log", "commit"} /\ (AfterWrite(s) = "commit" => Entry(r) = None)
    BY DEF AfterWrite
  <1>3. ASSUME InsertRow(s), ~Rollback(s) PROVE Inv'
    <2>1. pc[s] = "insert" /\ TakeLock(s, AfterWrite(s)) /\ r.was = None /\ r.id \in Rows
      BY <1>1, <1>3 DEF InsertRow, Alone, Shape
    <2>2. \A u \in Sessions \ {s} : loc[u].lock # r.id
      <3> SUFFICES ASSUME NEW u \in Sessions \ {s} PROVE loc[u].lock # r.id
        OBVIOUS
      <3>1. Apart(r, loc[u]) /\ Alone(pc[u], loc[u])
        BY DEF Inv
      <3>2. QED
        BY <2>1, <3>1, Constants DEF Apart, Alone, Shape
    <2>3. r.id \in Milestones => SlotFree(s) /\ ~SlotTaken(row, r.id)
      BY <1>3 DEF InsertRow
    <2>4. QED
      BY <1>2, <2>1, <2>2, <2>3, LockInv
  <1>4. ASSUME WriteRow(s), ~Rollback(s) PROVE Inv'
    <2>1. pc[s] = "write" /\ TakeLock(s, AfterWrite(s)) /\ Live(row, r.id) /\ RowFree(s)
      BY <1>4 DEF WriteRow
    <2>2. r.was # None
      BY <1>1, <2>1 DEF Alone, Loaded, Live
    <2>3. QED
      BY <1>2, <2>1, <2>2, LockInv DEF RowFree
  <1>5. ASSUME RemoveRow(s), Live(row, r.id) PROVE Inv'
    <2>1. pc[s] = "remove" /\ TakeLock(s, "commit") /\ RowFree(s)
      BY <1>5 DEF RemoveRow
    <2>2. r.was # None /\ Entry(r) = None
      BY <1>1, <1>5, <2>1, Constants DEF Alone, Loaded, Live, Shape, Fits, Entry, Final
    <2>3. QED
      BY <1>5, <2>1, <2>2, LockInv DEF RowFree
  <1>6. ASSUME RemoveRow(s), ~Live(row, r.id) PROVE Inv'
    <2>1. /\ pc[s] = "remove" /\ pc' = [pc EXCEPT ![s] = "commit"]
          /\ loc' = loc /\ UNCHANGED <<row, born, trail, marks>>
      BY <1>6 DEF RemoveRow, Goto
    <2>2. loc' = [loc EXCEPT ![s] = r]
      BY <2>1 DEF Inv, TypeOK
    <2>3. Alone("commit", r)
      BY <1>1, <2>1 DEF Alone, Shape, Fits, Loaded, Locked
    <2>4. \A u \in Sessions \ {s} : Apart(r, loc[u]) /\ Apart(loc[u], r)
      BY DEF Inv
    <2>5. QED
      BY <1>1, <2>1, <2>2, <2>3, <2>4, LocalStep DEF Steps
  <1>7. QED
    BY <1>3, <1>4, <1>5, <1>6, RollbackInv

LEMMA AppendInv ==
    ASSUME Inv, NEW s \in Sessions, append_activity(s)
    PROVE  Inv'
  <1> DEFINE r == [loc[s] EXCEPT !.entry = Entry(loc[s])]
  <1>1. loc[s] \in Requests /\ Alone("log", loc[s]) /\ pc[s] = "log" /\ loc[s].id \in Rows
    BY DEF append_activity, Inv, TypeOK, Alone, Shape
  <1>2. /\ pc' = [pc EXCEPT ![s] = "commit"] /\ loc' = [loc EXCEPT ![s] = r]
        /\ UNCHANGED <<row, born, trail, marks>>
    BY DEF append_activity, Goto
  <1>3. Entry(loc[s]) \in Entries \cup {None}
    BY <1>1, Constants
       DEF Alone, Fits, Entry, Said, Entries, Final, AllValues, Progress, TicketStatus
  <1>4. /\ r \in Requests /\ r.id = loc[s].id /\ r.was = loc[s].was /\ r.to = loc[s].to
        /\ r.named = loc[s].named /\ r.entry = Entry(loc[s]) /\ r.lock = loc[s].lock
    BY <1>1, <1>3 DEF Requests
  <1> HIDE DEF r
  <1>5. Entry(r) = Entry(loc[s])
    BY <1>4 DEF Entry, Said
  <1>6. Shape("commit", r) /\ Fits("commit", r) /\ Loaded("commit", r) /\ Locked(r)
    BY <1>1, <1>4, <1>5 DEF Alone, Shape, Fits, Loaded, Locked
  <1>7. \A u \in Sessions \ {s} : Apart(r, loc[u]) /\ Apart(loc[u], r)
    BY <1>4 DEF Inv, Apart
  <1>8. QED
    BY <1>2, <1>4, <1>6, <1>7, LocalStep DEF Alone, Steps

-----------------------------------------------------------------------------
(* COMMIT.                                                                 *)

\* What a commit does to the tables.
CommitEffect(r) ==
    /\ r.id \in Rows
    /\ \A i \in Rows \ {r.lock} : row'[i] = row[i]
    /\ \A i \in Tracked : trail[i] \subseteq trail'[i]
    /\ \A i \in Flagged : marks'[i] \in Nat /\ marks'[i] >= marks[i]
    /\ r.lock # None => row'[r.id] = IF r.to = None THEN row[r.id] ELSE r.to
    /\ \A i \in Tracked : i # r.lock \/ r.was # None => born'[i] = born[i]
    /\ r.lock # None /\ r.to # None /\ r.id \in Tracked
          => /\ trail'[r.id] = trail[r.id] \cup {<<r.was, Said(r)>>}
             /\ r.was = None => born'[r.id] = r.to
    /\ r.lock # None /\ r.to \in Final /\ r.was # r.to /\ r.id \in Flagged
          => marks'[r.id] = marks[r.id] + 1

LEMMA CommitEffects ==
    ASSUME Inv, NEW s \in Sessions, Commit(s)
    PROVE  /\ CommitEffect(loc[s])
           /\ row' \in [Rows -> AllValues \cup {None, "deleted"}]
           /\ trail' \in [Tracked -> SUBSET Entries]
           /\ marks' \in [Flagged -> Nat]
           /\ born' \in [Tracked -> AllValues \cup {None}]
  <1> DEFINE r == loc[s]
  <1>1. r \in Requests /\ Shape("commit", r) /\ Fits("commit", r) /\ pc[s] = "commit"
    BY DEF Inv, TypeOK, Commit, Alone
  <1>2. r.id \in Rows /\ r.lock \in {None, r.id} /\ None \notin Rows
    BY <1>1, Constants DEF Shape
  <1>3. /\ row' \in [Rows -> AllValues \cup {None, "deleted"}]
        /\ \A i \in Rows \ {r.lock} : row'[i] = row[i]
        /\ r.lock # None => row'[r.id] = IF r.to = None THEN row[r.id] ELSE r.to
    BY <1>1, <1>2 DEF Commit, Inv, TypeOK, Requests
  <1>4. r.entry = IF r.lock = None THEN None ELSE Entry(r)
    BY <1>1 DEF Shape
  <1>5. r.entry # None => r.entry = <<r.was, Said(r)>> /\ r.entry \in Entries
    BY <1>1, <1>4 DEF Entry, Requests
  <1>6. <<r.was, Said(r)>> # None \/ r.to \notin AllValues
    BY <1>1, NoneAssumption DEF Requests, Said
  <1>7. /\ r.lock # None /\ r.to # None /\ r.id \in Tracked => r.entry = <<r.was, Said(r)>>
        /\ r.lock # None /\ r.to \in Final /\ r.was # r.to /\ r.id \in Flagged
              => r.entry = <<r.was, Said(r)>>
    BY <1>4 DEF Entry
  <1>8. /\ trail' \in [Tracked -> SUBSET Entries]
        /\ \A i \in Tracked : trail[i] \subseteq trail'[i]
        /\ r.lock # None /\ r.to # None /\ r.id \in Tracked
              => trail'[r.id] = trail[r.id] \cup {<<r.was, Said(r)>>}
    <2>1. trail' = IF r.entry # None /\ r.id \in Tracked
                   THEN [trail EXCEPT ![r.id] = @ \cup {r.entry}] ELSE trail
      BY DEF Commit
    <2>2. trail \in [Tracked -> SUBSET Entries]
      BY DEF Inv, TypeOK
    <2>3. r.to # None /\ r.id \in Tracked => r.to \in AllValues
      BY <1>1, Constants DEF Fits, Shape
    <2>4. QED
      BY <1>5, <1>6, <1>7, <2>1, <2>2, <2>3
  <1>9. /\ marks' \in [Flagged -> Nat]
        /\ \A i \in Flagged : marks'[i] \in Nat /\ marks'[i] >= marks[i]
        /\ r.lock # None /\ r.to \in Final /\ r.was # r.to /\ r.id \in Flagged
              => marks'[r.id] = marks[r.id] + 1
    <2>1. marks' = IF r.entry # None /\ r.id \in Flagged
                   THEN [marks EXCEPT ![r.id] = @ + 1] ELSE marks
      BY DEF Commit
    <2>2. marks \in [Flagged -> Nat]
      BY DEF Inv, TypeOK
    <2>3. Final \subseteq AllValues
      BY DEF Final, AllValues, Progress, TicketStatus
    <2>4. r.lock # None /\ r.to \in Final /\ r.was # r.to /\ r.id \in Flagged => r.entry # None
      BY <1>6, <1>7, <2>3
    <2>5. CASE r.entry # None /\ r.id \in Flagged
      BY <2>1, <2>2, <2>5
    <2>6. CASE ~(r.entry # None /\ r.id \in Flagged)
      BY <2>1, <2>2, <2>4, <2>6
    <2>7. QED
      BY <2>5, <2>6
  <1>10. /\ born' \in [Tracked -> AllValues \cup {None}]
         /\ \A i \in Tracked : i # r.lock \/ r.was # None => born'[i] = born[i]
         /\ r.lock # None /\ r.id \in Tracked /\ r.was = None => born'[r.id] = r.to
    <2>1. born' = IF r.lock \in Tracked /\ r.was = None THEN [born EXCEPT ![r.id] = r.to] ELSE born
      BY DEF Commit
    <2>2. born \in [Tracked -> AllValues \cup {None}]
      BY DEF Inv, TypeOK
    <2>3. r.was = None /\ r.lock \in Tracked => r.to \in AllValues
      BY <1>1, <1>2, Constants DEF Fits
    <2>4. CASE r.lock \in Tracked /\ r.was = None
      <3>1. born' = [born EXCEPT ![r.id] = r.to] /\ r.id \in Tracked /\ r.lock = r.id
        BY <1>2, <2>1, <2>4, Constants
      <3>2. QED
        BY <2>2, <2>3, <2>4, <3>1
    <2>5. CASE ~(r.lock \in Tracked /\ r.was = None)
      <3>1. born' = born
        BY <2>1, <2>5
      <3>2. ~(r.lock # None /\ r.id \in Tracked /\ r.was = None)
        BY <1>2, <2>5
      <3>3. QED
        BY <2>2, <3>1, <3>2
    <2>6. QED
      BY <2>4, <2>5
  <1>11. QED
    BY <1>2, <1>3, <1>8, <1>9, <1>10 DEF CommitEffect

\* Another session finds its row as it left it.
LEMMA OthersKeep ==
    ASSUME Inv, NEW s \in Sessions, Commit(s), NEW u \in Sessions \ {s}
    PROVE  Alone(pc[u], loc[u])'
  <1> DEFINE r == loc[s]
             q == loc[u]
             step == pc[u]
  <1>1. /\ q \in Requests /\ step \in Steps /\ Alone(step, q) /\ Apart(r, q) /\ Apart(q, r)
        /\ r \in Requests /\ Alone("commit", r)
    BY DEF Inv, TypeOK, Commit
  <1>2. CommitEffect(r)
    BY CommitEffects
  <1>3. pc'[u] = step /\ loc'[u] = q
    BY DEF Commit, End, Goto, Inv, TypeOK
  <1>4. (Shape(pc[u], loc[u]) /\ Fits(pc[u], loc[u]))'
    BY <1>1, <1>3 DEF Alone, Shape, Fits
  <1>5. Loaded(pc[u], loc[u])'
    <2>1. step # "idle" /\ q.was = None => row'[q.id] = None
      BY <1>1, <1>2, Constants DEF Alone, Loaded, Apart, CommitEffect, Shape
    <2>2. q.id \in Tracked /\ q.was # None => Explains(trail'[q.id], q.id, born'[q.id], q.was)
      <3> SUFFICES ASSUME q.id \in Tracked, q.was # None
                   PROVE  Explains(trail'[q.id], q.id, born'[q.id], q.was)
        OBVIOUS
      <3>1. r.was = None => r.id # q.id
        BY <1>1, <1>2, Constants DEF Apart, CommitEffect
      <3>2. born'[q.id] = born[q.id]
        BY <1>1, <1>2, <3>1, Constants DEF CommitEffect, Alone, Shape
      <3>3. trail[q.id] \subseteq trail'[q.id] /\ Explains(trail[q.id], q.id, born[q.id], q.was)
        BY <1>1, <1>2 DEF CommitEffect, Alone, Loaded
      <3>4. QED
        BY <3>2, <3>3, ExplainsGrows
    <2>3. q.id \in Flagged /\ q.was \in Final => marks'[q.id] > 0
      <3> SUFFICES ASSUME q.id \in Flagged, q.was \in Final PROVE marks'[q.id] > 0
        OBVIOUS
      <3>1. marks[q.id] \in Nat /\ marks[q.id] > 0
        BY <1>1 DEF Alone, Loaded, Inv, TypeOK
      <3>2. QED
        BY <1>2, <3>1 DEF CommitEffect
    <2>4. QED
      BY <1>3, <2>1, <2>2, <2>3 DEF Loaded
  <1>6. Locked(loc[u])'
    <2>1. q.lock # None => q.lock = q.id /\ q.id # r.lock /\ q.id \in Rows
      BY <1>1, Constants DEF Alone, Shape, Apart, NoRequest
    <2>2. q.lock # None /\ q.was # None => row'[q.id] \notin {None, "deleted"}
      BY <1>1, <1>2, <2>1 DEF Alone, Locked, Live, CommitEffect
    <2>3. ASSUME q.lock \in Milestones, q.was = None,
                 NEW k \in Milestones, row'[k] \notin {None, "deleted"}, Slot[k] = Slot[q.id]
          PROVE  FALSE
      <3>1. CASE k = r.lock
        BY <1>1, <2>1, <2>3, <3>1, Constants DEF Apart
      <3>2. CASE k # r.lock
        <4>1. row[k] \notin {None, "deleted"}
          BY <1>2, <2>3, <3>2, Constants DEF CommitEffect
        <4>2. QED
          BY <1>1, <2>3, <4>1 DEF Alone, Locked, SlotTaken, Live
      <3>3. QED
        BY <3>1, <3>2
    <2>4. QED
      BY <1>3, <2>2, <2>3 DEF Locked, Live, SlotTaken
  <1>7. QED
    BY <1>4, <1>5, <1>6 DEF Alone

LEMMA CommitInv ==
    ASSUME Inv, NEW s \in Sessions, Commit(s)
    PROVE  /\ Inv'
           /\ \A m \in Milestones : row[m] = "deleted" => row'[m] = "deleted"
  <1> DEFINE r == loc[s]
  <1>1. r \in Requests /\ Alone("commit", r) /\ r.id \in Rows
    BY DEF Inv, TypeOK, Commit, Alone, Shape
  <1>2. CommitEffect(r)
    BY CommitEffects
  <1>3. /\ pc'[s] = "idle" /\ loc'[s] = NoRequest
        /\ \A u \in Sessions \ {s} : pc'[u] = pc[u] /\ loc'[u] = loc[u]
        /\ pc' \in [Sessions -> Steps] /\ loc' \in [Sessions -> Requests]
    BY NoRequestOK DEF Commit, End, Goto, Inv, TypeOK, Steps
  <1>4. r.lock # None => r.lock = r.id
    BY <1>1 DEF Alone, Shape
  <1>5. \A i \in Rows : row[i] \in Values(i) \cup {None}
                              \cup (IF i \in Milestones THEN {"deleted"} ELSE {})
    BY DEF Inv, TypeOK
  <1>6. TypeOK'
    <2>1. ASSUME NEW i \in Rows
          PROVE  row'[i] \in Values(i) \cup {None}
                              \cup (IF i \in Milestones THEN {"deleted"} ELSE {})
      <3>1. CASE i = r.lock
        BY <1>1, <1>2, <1>4, <1>5, <3>1, Constants DEF CommitEffect, Alone, Fits
      <3>2. CASE i # r.lock
        BY <1>2, <1>5, <3>2 DEF CommitEffect
      <3>3. QED
        BY <3>1, <3>2
    <2>2. QED
      BY <1>3, <2>1, CommitEffects DEF TypeOK
  <1>7. ASSUME NEW u \in Sessions PROVE Alone(pc[u], loc[u])'
    <2>1. CASE u = s
      BY <1>3, <2>1, Constants DEF Alone, Shape, Fits, Loaded, Locked, NoRequest
    <2>2. CASE u # s
      BY <2>2, OthersKeep
    <2>3. QED
      BY <2>1, <2>2
  <1>8. \A t, u \in Sessions : t # u => Apart(loc[t], loc[u])'
    <2> SUFFICES ASSUME NEW t \in Sessions, NEW u \in Sessions, t # u
                 PROVE  Apart(loc'[t], loc'[u])
      BY DEF Apart
    <2>1. QED
      BY <1>3, NoRequestOK DEF Inv, TypeOK
  <1>9. TrailExplains'
    <2> SUFFICES ASSUME NEW i \in Tracked, row'[i] # None
                 PROVE  /\ {<<None, born'[i]>>, <<None, None>>} \cap trail'[i] # {}
                        /\ Explains(trail'[i], i, born'[i], row'[i])
      BY DEF TrailExplains
    <2>1. CASE i = r.lock /\ r.to # None /\ r.was = None
      <3>1. /\ trail'[i] = trail[i] \cup {<<None, Said(r)>>}
            /\ row'[i] = r.to /\ born'[i] = r.to
        BY <1>2, <1>4, <2>1, Constants DEF CommitEffect
      <3>2. Said(r) \in {r.to, None}
        BY DEF Said
      <3>3. QED
        BY <3>1, <3>2 DEF Explains
    <2>2. CASE i = r.lock /\ r.to # None /\ r.was # None
      <3>1. r.named /\ Live(row, i) /\ Explains(trail[i], i, born[i], r.was)
        BY <1>1, <1>4, <2>2, Constants DEF Alone, Fits, Loaded, Locked
      <3>2. /\ trail'[i] = trail[i] \cup {<<r.was, r.to>>}
            /\ row'[i] = r.to /\ born'[i] = born[i]
        BY <1>2, <1>4, <2>2, <3>1, Constants DEF CommitEffect, Said
      <3>3. {<<None, born[i]>>, <<None, None>>} \cap trail[i] # {}
        BY <3>1 DEF Inv, TrailExplains, Live
      <3>4. Explains(trail'[i], i, born'[i], row'[i])
        BY <3>1, <3>2, ExplainsNext
      <3>5. QED
        BY <3>2, <3>3, <3>4
    <2>3. CASE ~(i = r.lock /\ r.to # None)
      <3>1. i = r.lock => r.was # None
        BY <1>1, <1>4, <2>3, Constants DEF Alone, Fits
      <3>2. row'[i] = row[i] /\ born'[i] = born[i] /\ trail[i] \subseteq trail'[i]
        BY <1>2, <1>4, <2>3, <3>1, Constants DEF CommitEffect
      <3>3. /\ {<<None, born[i]>>, <<None, None>>} \cap trail[i] # {}
            /\ Explains(trail[i], i, born[i], row[i])
        BY <3>2 DEF Inv, TrailExplains
      <3>4. QED
        BY <3>2, <3>3, ExplainsGrows
    <2>4. QED
      BY <2>1, <2>2, <2>3
  <1>10. DoneIsLogged'
    <2> SUFFICES ASSUME NEW i \in Flagged, row'[i] \in Final
                 PROVE  marks'[i] > 0
      BY DEF DoneIsLogged
    <2>1. marks[i] \in Nat /\ marks'[i] \in Nat /\ marks'[i] >= marks[i]
      BY <1>2 DEF CommitEffect, Inv, TypeOK
    <2>2. CASE i = r.lock /\ r.to # None /\ r.was # r.to
      <3>1. marks'[i] = marks[i] + 1
        BY <1>2, <1>4, <2>2, Constants DEF CommitEffect
      <3>2. QED
        BY <2>1, <3>1
    <2>3. CASE i = r.lock /\ r.to # None /\ r.was = r.to
      <3>1. marks[i] > 0
        BY <1>1, <1>2, <1>4, <2>3, Constants DEF CommitEffect, Alone, Loaded
      <3>2. QED
        BY <2>1, <3>1
    <2>4. CASE ~(i = r.lock /\ r.to # None)
      <3>1. row'[i] = row[i]
        BY <1>2, <1>4, <2>4, Constants DEF CommitEffect
      <3>2. QED
        BY <2>1, <3>1 DEF Inv, DoneIsLogged
    <2>5. QED
      BY <2>2, <2>3, <2>4
  <1>11. SlotUnique'
    <2> SUFFICES ASSUME NEW m \in Milestones, NEW k \in Milestones, m # k,
                        Live(row', m), Live(row', k), Slot[m] = Slot[k]
                 PROVE  FALSE
      BY DEF SlotUnique, Live
    <2>1. ASSUME NEW j \in Milestones, Live(row', j), ~Live(row, j)
          PROVE  j = r.lock /\ r.was = None
      BY <1>1, <1>2, <1>4, <2>1, Constants DEF CommitEffect, Live, Alone, Locked
    <2>2. CASE Live(row, m) /\ Live(row, k)
      BY <2>2 DEF Inv, SlotUnique
    <2>3. CASE ~Live(row, m) /\ Live(row, k)
      <3>1. m = r.lock /\ r.was = None /\ m = r.id
        BY <1>4, <2>1, <2>3, Constants
      <3>2. QED
        BY <1>1, <2>3, <3>1 DEF Alone, Locked, SlotTaken
    <2>4. CASE Live(row, m) /\ ~Live(row, k)
      <3>1. k = r.lock /\ r.was = None /\ k = r.id
        BY <1>4, <2>1, <2>4, Constants
      <3>2. QED
        BY <1>1, <2>4, <3>1 DEF Alone, Locked, SlotTaken
    <2>5. CASE ~Live(row, m) /\ ~Live(row, k)
      BY <2>1, <2>5
    <2>6. QED
      BY <2>2, <2>3, <2>4, <2>5
  <1>12. \A m \in Milestones : row[m] = "deleted" => row'[m] = "deleted"
    BY <1>1, <1>2, <1>4, Constants DEF CommitEffect, Alone, Loaded, Locked, Live
  <1>13. QED
    BY <1>6, <1>7, <1>8, <1>9, <1>10, <1>11, <1>12 DEF Inv

LEMMA StepInv ==
    ASSUME Inv, [Next]_vars
    PROVE  /\ Inv'
           /\ \A m \in Milestones : row[m] = "deleted" => row'[m] = "deleted"
  <1>1. ASSUME NEW s \in Sessions, Begin(s) PROVE Inv' /\ row' = row
    BY <1>1, BeginInv
  <1>2. ASSUME NEW s \in Sessions, InsertRow(s) \/ WriteRow(s) \/ RemoveRow(s)
        PROVE  Inv' /\ row' = row
    BY <1>2, WriteInv DEF InsertRow, WriteRow, RemoveRow, TakeLock, Rollback
  <1>3. ASSUME NEW s \in Sessions, append_activity(s) PROVE Inv' /\ row' = row
    BY <1>3, AppendInv DEF append_activity
  <1>4. ASSUME NEW s \in Sessions, Abort(s) PROVE Inv' /\ row' = row
    BY <1>4, RollbackInv DEF Abort, Rollback
  <1>5. CASE UNCHANGED vars
    <2>1. \A s \in Sessions : Alone(pc[s], loc[s])'
      BY <1>5 DEF vars, Inv, Alone, Shape, Fits, Loaded, Locked
    <2>2. \A s, u \in Sessions : s # u => Apart(loc[s], loc[u])'
      BY <1>5 DEF vars, Inv, Apart
    <2>3. (TypeOK /\ TrailExplains /\ DoneIsLogged /\ SlotUnique)'
      BY <1>5 DEF vars, Inv, TypeOK, TrailExplains, DoneIsLogged, SlotUnique, Live
    <2>4. QED
      BY <1>5, <2>1, <2>2, <2>3 DEF Inv, vars
  <1>6. QED
    BY <1>1, <1>2, <1>3, <1>4, <1>5, CommitInv DEF Next, Proceed

-----------------------------------------------------------------------------
\* Rows, log and requests have their types, whatever requests run and overlap: no stage,
\* state or status is ever stored that its table's machine does not know.
THEOREM TypeCorrect == Spec => []TypeOK
  <1>1. Inv => TypeOK
    BY DEF Inv
  <1>2. QED
    BY InitInv, StepInv, <1>1, PTL DEF Spec

\* However a client was made, by create_client or from a lead, and whatever requests overlap,
\* the activity log has its creation and a way from its first stage to the one it is in; the
\* same of services.  Which stage that was, the entry of a conversion does not name.
THEOREM TrailAlwaysExplains == Spec => []TrailExplains
  <1>1. Inv => TrailExplains
    BY DEF Inv
  <1>2. QED
    BY InitInv, StepInv, <1>1, PTL DEF Spec

\* A complete milestone has a milestone_completed entry, a closed ticket a ticket_closed one.
THEOREM CompletionsAreLogged == Spec => []DoneIsLogged
  <1>1. Inv => DoneIsLogged
    BY DEF Inv
  <1>2. QED
    BY InitInv, StepInv, <1>1, PTL DEF Spec

\* No two milestones of a service get one number.
THEOREM SlotsStayUnique == Spec => []SlotUnique
  <1>1. Inv => SlotUnique
    BY DEF Inv
  <1>2. QED
    BY InitInv, StepInv, <1>1, PTL DEF Spec

\* A deleted milestone never comes back.
THEOREM DeletionsAreFinal == Spec => DeletedStaysDeleted
  <1>1. Inv /\ [Next]_vars =>
           [\A m \in Milestones : row[m] = "deleted" => row'[m] = "deleted"]_vars
    BY StepInv
  <1>2. Inv /\ [Next]_vars => Inv'
    BY StepInv
  <1>3. QED
    BY InitInv, <1>1, <1>2, PTL DEF Spec, DeletedStaysDeleted

-----------------------------------------------------------------------------
(* One request at a time: the refinement of EngagementRules.               *)

OneAtATime == \A s, u \in Sessions : s = u

\* What the request loaded is still so: the value of its row, and the checks on it and on other
\* rows, under which it set out.
StillLoaded(r) ==
    /\ row[r.id] = r.was
    /\ r.was = None => r.to \in First(r.id) /\ MayInsert(row, r.id)
    /\ r.was # None => Live(row, r.id)
    /\ r.was # None => \/ r.to \in Allowed(r.id, r.was) \cup {None}
                       \/ r.to = "deleted" /\ r.id \in Milestones

SerialInv == Inv /\ \A s \in Sessions : pc[s] # "idle" => StillLoaded(loc[s])

\* EngagementRules has the same tables and machines.
LEMMA SameRules ==
    /\ Rules!Rows = Rows /\ Rules!AllValues = AllValues
    /\ \A i : Rules!First(i) = First(i)
    /\ \A i, v : Rules!Allowed(i, v) = Allowed(i, v)
    /\ \A t, i : /\ Rules!Live(t, i) <=> Live(t, i)
                 /\ Rules!SlotTaken(t, i) <=> SlotTaken(t, i)
                 /\ Rules!MayInsert(t, i) <=> MayInsert(t, i)
  <1>1. Rules!Rows = Rows
    BY DEF Rules!Rows, Rules!Tracked, Rules!Flagged, Rows, Tracked, Flagged
  <1>2. Rules!AllValues = AllValues
    BY DEF Rules!AllValues, Rules!Stages, Rules!States, Rules!Progress, Rules!TicketStatus,
           AllValues, Stages, States, Progress, TicketStatus
  <1>3. \A i : Rules!First(i) = First(i)
    BY DEF Rules!First, First
  <1>4. \A i, v : Rules!Allowed(i, v) = Allowed(i, v)
    BY DEF Rules!Allowed, Rules!ClientStageMachine, Rules!ServiceStateMachine, Rules!Progress,
           Rules!TicketStatus, Allowed, ClientStageMachine, ServiceStateMachine, Progress, TicketStatus
  <1>5. \A t, i : /\ Rules!Live(t, i) <=> Live(t, i)
                  /\ Rules!SlotTaken(t, i) <=> SlotTaken(t, i)
                  /\ Rules!MayInsert(t, i) <=> MayInsert(t, i)
    BY DEF Rules!Live, Rules!SlotTaken, Rules!MayInsert, Live, SlotTaken, MayInsert
  <1>6. QED
    BY <1>1, <1>2, <1>3, <1>4, <1>5

LEMMA BeginLoads ==
    ASSUME Inv, NEW s \in Sessions, Begin(s)
    PROVE  UNCHANGED <<row, marks>> /\ StillLoaded(loc'[s])
  <1>1. ASSUME NEW step, NEW i, NEW was, NEW to, NEW named, Start(s, step, i, was, to, named),
               row[i] = was,
               \/ was = None /\ to \in First(i) /\ MayInsert(row, i)
               \/ /\ Live(row, i)
                  /\ \/ to \in Allowed(i, was) \cup {None}
                     \/ to = "deleted" /\ i \in Milestones
        PROVE  UNCHANGED <<row, marks>> /\ StillLoaded(loc'[s])
    <2>1. loc'[s] = [id |-> i, was |-> was, to |-> to, named |-> named, lock |-> None,
                       entry |-> None]
      BY <1>1 DEF Start, Inv, TypeOK
    <2>2. loc'[s].id = i /\ loc'[s].was = was /\ loc'[s].to = to
      BY <2>1
    <2>3. QED
      BY <1>1, <2>2 DEF Start, StillLoaded, Live
  <1>2. ASSUME NEW i \in Rows, NEW named,
               LoadNew(s, i, named) \/ SetValue(s, i) \/ EditRow(s, i)
        PROVE  UNCHANGED <<row, marks>> /\ StillLoaded(loc'[s])
    <2>1. CASE LoadNew(s, i, named)
      BY <1>1, <2>1 DEF LoadNew
    <2>2. CASE SetValue(s, i)
      <3>1. PICK v \in Allowed(i, row[i]) :
                Start(s, IF i \in Tickets /\ v = row[i] THEN "commit" ELSE "write", i, row[i], v, TRUE)
        BY <2>2 DEF SetValue
      <3>2. Live(row, i)
        BY <2>2 DEF SetValue
      <3>3. QED
        BY <1>1, <3>1, <3>2
    <2>3. CASE EditRow(s, i)
      BY <1>1, <2>3 DEF EditRow
    <2>4. QED
      BY <1>2, <2>1, <2>2, <2>3
  <1>3. ASSUME delete_milestone(s) PROVE UNCHANGED <<row, marks>> /\ StillLoaded(loc'[s])
    BY <1>1, <1>3 DEF delete_milestone
  <1>4. Client \in Rows /\ Services \subseteq Rows /\ Milestones \subseteq Rows
        /\ Tickets \subseteq Rows
    BY DEF Rows, Tracked, Flagged
  <1>5. QED
    BY <1>2, <1>3, <1>4
       DEF Begin, create_client, convert_from_lead, create_service, create_under_service, create_ticket,
           change_stage, update_client, change_state, update_service, update_milestone,
           update_ticket, update_ticket_internal

\* A statement before COMMIT leaves the tables, and what the request is about.
LEMMA StatementKeeps ==
    ASSUME Inv, NEW s \in Sessions,
           InsertRow(s) \/ WriteRow(s) \/ RemoveRow(s) \/ append_activity(s) \/ Abort(s)
    PROVE  /\ UNCHANGED <<row, marks>>
           /\ pc'[s] # "idle" => /\ pc[s] # "idle"
                                 /\ loc'[s].id = loc[s].id /\ loc'[s].was = loc[s].was
                                 /\ loc'[s].to = loc[s].to
  <1>1. ASSUME NEW step, TakeLock(s, step), pc[s] # "idle"
        PROVE  /\ UNCHANGED <<row, marks>>
               /\ loc'[s].id = loc[s].id /\ loc'[s].was = loc[s].was /\ loc'[s].to = loc[s].to
    BY <1>1 DEF TakeLock, Inv, TypeOK, Requests
  <1>2. ASSUME Rollback(s) PROVE UNCHANGED <<row, marks>> /\ pc'[s] = "idle"
    BY <1>2 DEF Rollback, End, Goto, Inv, TypeOK
  <1>3. CASE InsertRow(s) \/ WriteRow(s) \/ Abort(s)
    BY <1>1, <1>2, <1>3 DEF InsertRow, WriteRow, Abort
  <1>4. CASE RemoveRow(s)
    BY <1>1, <1>4 DEF RemoveRow
  <1>5. CASE append_activity(s)
    BY <1>5 DEF append_activity, Inv, TypeOK, Requests
  <1>6. QED
    BY <1>3, <1>4, <1>5

\* A COMMIT is one request of EngagementRules, or changes no column.
LEMMA CommitIsRule ==
    ASSUME Inv, NEW s \in Sessions, Commit(s), StillLoaded(loc[s])
    PROVE  [Rules!Next]_row
  <1> DEFINE r == loc[s]
  <1>1. r \in Requests /\ Alone("commit", r) /\ r.id \in Rows
    BY DEF Inv, TypeOK, Commit, Alone, Shape
  <1>2. row' = IF r.lock = None \/ r.to = None THEN row ELSE [row EXCEPT ![r.id] = r.to]
    BY DEF Commit
  <1>3. CASE r.lock = None \/ r.to = None
    BY <1>2, <1>3
  <1>4. CASE r.lock # None /\ r.to # None
    <2>1. row' = [row EXCEPT ![r.id] = r.to] /\ r.lock = r.id
      BY <1>1, <1>2, <1>4 DEF Alone, Shape
    <2>2. CASE r.was = None
      <3>1. r.to \in AllValues
        BY <1>1, <2>2, Constants DEF Alone, Fits, Shape, NoRequest
      <3>2. r.id \in Milestones => ~SlotTaken(row, r.id)
        BY <1>1, <2>1, <2>2 DEF Alone, Locked
      <3>3. Rules!Create(r.id, r.to)
        BY <2>1, <2>2, <3>2, SameRules DEF StillLoaded, Rules!Create
      <3>4. QED
        BY <1>1, <3>1, <3>3, SameRules DEF Rules!Next
    <2>3. CASE r.was # None /\ r.to = "deleted"
      <3>1. Rules!Delete(r.id)
        BY <1>1, <2>1, <2>3, SameRules DEF StillLoaded, Alone, Fits, Rules!Delete
      <3>2. QED
        BY <1>1, <3>1, SameRules DEF Rules!Next
    <2>4. CASE r.was # None /\ r.to # "deleted"
      <3>1. r.to \in AllValues
        BY <1>1, <1>4, <2>4 DEF Requests
      <3>2. Rules!Change(r.id, r.to)
        BY <1>4, <2>1, <2>4, SameRules DEF StillLoaded, Rules!Change
      <3>3. QED
        BY <1>1, <3>1, <3>2, SameRules DEF Rules!Next
    <2>5. QED
      BY <2>2, <2>3, <2>4
  <1>5. QED
    BY <1>3, <1>4

\* A COMMIT logs a completion when and only when it makes one.
LEMMA CommitMarksFlips ==
    ASSUME Inv, NEW s \in Sessions, Commit(s), StillLoaded(loc[s]), NEW i \in Flagged
    PROVE  marks'[i] # marks[i] <=> row'[i] \in Final /\ row[i] # row'[i]
  <1> DEFINE r == loc[s]
  <1>1. r \in Requests /\ Alone("commit", r) /\ r.id \in Rows /\ i \in Rows
    BY Constants DEF Inv, TypeOK, Commit, Alone, Shape
  <1>2. /\ row' = IF r.lock = None \/ r.to = None THEN row ELSE [row EXCEPT ![r.id] = r.to]
        /\ marks' = IF r.entry # None /\ r.id \in Flagged
                    THEN [marks EXCEPT ![r.id] = @ + 1] ELSE marks
    BY DEF Commit
  <1>3. row[i] \in AllValues \cup {None, "deleted"} /\ marks[i] \in Nat
    BY <1>1 DEF Inv, TypeOK
  <1>4. CASE i # r.id
    BY <1>2, <1>4
  <1>5. CASE i = r.id /\ r.lock = None
    BY <1>1, <1>2, <1>5 DEF Alone, Shape
  <1>6. CASE i = r.id /\ r.lock # None
    <2>1. r.entry = Entry(r) /\ row[i] = r.was
      BY <1>1, <1>6 DEF Alone, Shape, StillLoaded
    <2>2. r.entry # None <=> r.to \in Final /\ r.was # r.to
      <3>1. Final \subseteq AllValues
        BY DEF Final, AllValues, Progress, TicketStatus
      <3>2. r.to \in Final => <<r.was, Said(r)>> # None
        BY <1>1, <3>1, NoneAssumption DEF Requests, Said
      <3>3. QED
        BY <1>6, <2>1, <3>2, Constants DEF Entry
    <2>3. marks'[i] # marks[i] <=> r.entry # None
      <3>1. CASE r.entry # None
        <4>1. marks' = [marks EXCEPT ![i] = @ + 1]
          BY <1>2, <1>6, <3>1
        <4>2. marks'[i] = marks[i] + 1
          BY <4>1 DEF Inv, TypeOK
        <4>3. QED
          BY <1>3, <3>1, <4>2
      <3>2. CASE r.entry = None
        BY <1>2, <3>2
      <3>3. QED
        BY <3>1, <3>2
    <2>4. row'[i] = IF r.to = None THEN row[i] ELSE r.to
      BY <1>1, <1>2, <1>6 DEF Inv, TypeOK
    <2>5. QED
      BY <2>1, <2>2, <2>3, <2>4, Constants
  <1>7. QED
    BY <1>4, <1>5, <1>6

MarksFlip == \A i \in Flagged : marks'[i] # marks[i] <=> row'[i] \in Final /\ row[i] # row'[i]

LEMMA SerialStep ==
    ASSUME OneAtATime, SerialInv, [Next]_vars
    PROVE  SerialInv' /\ [Rules!Next]_row /\ [MarksFlip]_vars
  <1>1. Inv'
    BY StepInv DEF SerialInv
  <1>2. ASSUME NEW s \in Sessions, Begin(s)
        PROVE  UNCHANGED <<row, marks>> /\ StillLoaded(loc[s])'
    BY <1>2, BeginLoads DEF SerialInv, StillLoaded
  <1>3. ASSUME NEW s \in Sessions,
               InsertRow(s) \/ WriteRow(s) \/ RemoveRow(s) \/ append_activity(s) \/ Abort(s)
        PROVE  UNCHANGED <<row, marks>> /\ (pc'[s] # "idle" => StillLoaded(loc[s])')
    BY <1>3, StatementKeeps DEF SerialInv, StillLoaded
  <1>4. ASSUME NEW s \in Sessions, Commit(s)
        PROVE  [Rules!Next]_row /\ MarksFlip /\ pc'[s] = "idle"
    <2>1. pc'[s] = "idle" /\ StillLoaded(loc[s])
      BY <1>4 DEF Commit, End, Goto, SerialInv, Inv, TypeOK
    <2>2. QED
      BY <1>4, <2>1, CommitIsRule, CommitMarksFlips DEF SerialInv, MarksFlip
  <1>5. CASE Next
    <2>1. PICK s \in Sessions : Begin(s) \/ Proceed(s) \/ Abort(s)
      BY <1>5 DEF Next
    <2>2. pc'[s] # "idle" => StillLoaded(loc[s])'
      BY <1>2, <1>3, <1>4, <2>1 DEF Proceed
    <2>3. \A u \in Sessions : pc'[u] # "idle" => StillLoaded(loc[u])'
      BY <2>2 DEF OneAtATime
    <2>4. [Rules!Next]_row
      BY <1>2, <1>3, <1>4, <2>1 DEF Proceed
    <2>5. MarksFlip
      BY <1>2, <1>3, <1>4, <2>1 DEF Proceed, MarksFlip
    <2>6. QED
      BY <1>1, <2>3, <2>4, <2>5 DEF SerialInv
  <1>6. CASE UNCHANGED vars
    <2>1. \A u \in Sessions : pc'[u] # "idle" => StillLoaded(loc[u])'
      BY <1>6 DEF vars, SerialInv, StillLoaded
    <2>2. QED
      BY <1>1, <1>6, <2>1 DEF vars, SerialInv
  <1>7. QED
    BY <1>5, <1>6

\* One request at a time, however it ends, the endpoints do what EngagementRules says: stages and
\* states move along their machines from the committed value, a number is taken once, and nothing
\* is created under a row that is gone or a client that is lost.
THEOREM SerialImplementsRules == ASSUME OneAtATime PROVE Spec => ImplementsRules
  <1>1. Init => SerialInv /\ Rules!Init
    BY InitInv, SameRules DEF Init, SerialInv, Rules!Init
  <1>2. SerialInv /\ [Next]_vars => SerialInv' /\ [Rules!Next]_row
    BY SerialStep
  <1>3. QED
    BY <1>1, <1>2, PTL DEF Spec, ImplementsRules, Rules!Spec

\* One request at a time, a completion is logged when and only when the row becomes final.
THEOREM SerialMarksAreFlips == ASSUME OneAtATime PROVE Spec => MarksAreFlips
  <1>1. Init => SerialInv
    BY InitInv DEF Init, SerialInv
  <1>2. SerialInv /\ [Next]_vars => SerialInv' /\ [MarksFlip]_vars
    BY SerialStep
  <1>3. [MarksFlip]_vars => [\A i \in Flagged : marks'[i] # marks[i]
                                <=> row'[i] \in Final /\ row[i] # row'[i]]_vars
    BY DEF MarksFlip
  <1>4. QED
    BY <1>1, <1>2, <1>3, PTL DEF Spec, MarksAreFlips
=============================================================================
