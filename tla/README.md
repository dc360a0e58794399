# Zanovix CRM: formal specifications

TLA+ models of the Zanovix CRM in `src/` (a FastAPI service over PostgreSQL and Redis,
with a Next.js admin panel), the TLC configurations that check them on small instances,
and theorems about them that the TLA+ proof system checks for every instance.

Most of the code is row edits behind HTTP endpoints, and its tests drive one request after
another. What they hardly reach is what this project is about: **requests that overlap**, in the
service's database and in the panel that waits for their answers. Every
request has its own `AsyncSession` and its own READ COMMITTED transaction
(`database/connection.py`), no service takes a lock when it reads (`SELECT ... FOR UPDATE`
occurs nowhere), and every service decides on the values it loaded and writes them later. In the browser every page keeps its own copy of rows, and every answer is applied
to whatever the page has become in the meantime.

## 1. The system

| Component | State | Operations | Interacts with |
|---|---|---|---|
| Billing profiles (`billing_profile_service.py`) | rows with `tax_id`, `is_default`, `created_at`; a unique `(client_id, tax_id)` | create, update, delete, set_default, list, get | client detail, conversion of a lead |
| Leads and conversion (`lead_service.py`, `client_service.py: convert_from_lead`) | `status`, `owner_id`, `converted_client_id` | public submit, edit, status change, assign, convert | makes client, contact, profile, log entry |
| Clients (`client_service.py`) | `stage` | create, edit, stage change | services check the stage; log |
| Services (`service_service.py`) | `state` | create, edit, state change | parent client; log |
| Milestones (`milestone_service.py`) | `completed_at`; a unique `(service_id, n)` | create, edit, complete or clear, delete | parent service; log |
| Tickets (`ticket_service.py`) | `status` | create and edit by the client, edit and status by staff | log |
| Activity log (`activity_log_service.py`) | append-only entries | append, in the caller's transaction; list | all of the above |
| Contacts (`contact_service.py`) | rows | create, edit, delete | conversion makes one |
| Client chat (`message_service.py`, `me.py`, chat page) | messages ordered by `created_at`; the page's list and cursor | send, poll every 10 s | browser and API |
| Rate limiter (`shared/rate_limiter.py`, middleware) | one sorted set per caller in Redis | record and count, read the oldest | public lead form, several API processes |
| Authentication (`auth.py`, `routes/admin.py`) | JWT and the Redis blacklist of `jti`s | login, verify, logout | every endpoint; the panel's session |
| Panel session (`auth-context.tsx`, `lib/api.ts`, the two gates, `middleware.ts`, login page) | token in memory, cookie, user, loading, the form, requests in flight | load, login, logout, 401, redirects | authentication |
| Kanban board (`pipeline/page.tsx`, `use-stage-transition.ts`, `kanban-*.tsx`) | rows, cards shown, the snapshot to revert to | load, filter, switch view, drag, answer, revert | stage endpoint |
| List pages (leads, clients, the portal's support page, their dialogs) | filter, rows, dialog, saving | filter, search, fetch, create | list and create endpoints |
| Detail pages (lead, service, client) | the copy of a row, transition dialog | fetch, move, edit a part | status, state, stage, milestone, contact, profile endpoints |
| Pages that only load (dashboard, team, portal) | data, errors, loading | load, leave | list and `me` endpoints |
| Conversion dialog (`convert-lead-dialog.tsx`, `BillingProfileForm.tsx`) | form, kept billing data, accordion | open, type, hide, submit | conversion |
| Redis streams helper, conversions and errors, migrations and deployment | | | see section 7 |

Behaviours that are hard, and the properties that make each part correct:

* *Billing.* A rule over several rows (one default profile) is kept by several statements
  (bulk demotion, then promotion; check of the tax id, then insert), which lock rows in no
  fixed order. Correct means: unique tax ids, one default, never emptied, deletes are final,
  no request hangs.
* *Conversion.* Five writes, one transaction, a check at the start. Correct means: whole or
  nothing, linked to its own client, once per lead, the link is never lost again.
* *Stages, states, completions.* Read, decide, write, log. Correct means: moves follow the
  machines, the log explains what the tables hold, completions are logged exactly when they
  happen, a service never has two milestones of one number, deletes are final.
* *Chat.* Timestamps of transactions that commit out of order; a cursor moved by a send and by
  polls in flight. Correct means: every message is shown, once, in order.
* *Rate limiter.* Clock read and Redis transaction are two steps; errors let the call pass.
  Correct means: a bound on calls per real window; a caller who waits as told gets in.
* *Authentication, session.* A logged-out token stays refused; what is on the screen belongs to the account that
  requests run under; redirects, gates and reloads come to an end.
* *Board.* The cards move before the answer. Correct means: once the answers are in, the board is as the database is.
* *Lists, details.* Answers come late, out of order and to pages that have changed. Correct means: the rows answer the
  filter, contain what the user was told of, and are sent once; a copy agrees with its row; a move is offered only if it can succeed.
* *Loading pages.* Some of several requests fail. Correct means: no half of the data stands for the whole; loading ends.
* *Conversion dialog.* Form and data have different lifetimes. Correct means: what is sent is what is shown.

## 2. Modules

| Modules | Part |
|---|---|
| `BillingTable` | rows of one client and the queries on them |
| `BillingAtomic` | abstract: each billing request takes effect at once |
| `BillingProfiles` | the service, statement by statement; refines `BillingAtomic` |
| `BillingProofs` | theorems about it |
| `LeadTable`, `LeadLifecycle`, `Leads`, `LeadProofs` | the same four for leads and their conversion |
| `EngagementTable`, `EngagementRules`, `Engagements`, `EngagementProofs` | the same four for one client with its services, milestones, tickets and activity log |
| `MCBilling`, `MCLeads`, `MCEngagements` | values and symmetries for TLC |
| `PanelTypes` | the panel's copies of roles, states and transition maps (`lib/types.ts`), and the backend's machines |
| `Board`, `Session`, `Chat`, `ListPages`, `DetailPages`, `LoadPages`, `ConvertForm` | a part of the panel each, with the API behind it |
| `Panel`, `MCPanel` | the parts as one specification; values for TLC |
| `BoardProofs`, `SessionProofs`, `ChatProofs`, `PageProofs` (lists, details, loading pages, conversion dialog), `PanelProofs` | theorems about them |

Each detailed module has `Sessions`, the requests that may be in progress at a time. A session
has a program counter `pc[s]` that names its next statement and locals `loc[s]`: the request, what
it loaded, and what it has written but not committed. `Begin(s)` is a request together with its load
and the checks on what it loaded; `Proceed(s)` is one more statement; `Commit(s)` is
`await session.commit()` in the route, which publishes all of it at once; `Rollback(s)` is what
`get_async_session` does on an exception. Actions have the names of the functions they
model where a function is one action (`append_activity`, `change_stage`, `create_under_service`), and of its
statements where it is several (`CountProfiles`, `StartDemotion`, `Promote`).

What PostgreSQL does is modelled from how the services use it and is marked external in
`PROJECT.json`: a write locks its row until the transaction ends and then sees the row's last
committed version; a plain SELECT takes no lock and sees the last commits; an INSERT with a key that an open
transaction has taken waits for it; a bulk UPDATE works on the rows committed when it starts and
takes each again when its lock is free; an UPDATE of a row that is gone is a `StaleDataError`, a
DELETE of one only a warning. The key-share lock that an INSERT takes on its parent row does not conflict
with an UPDATE of other columns, so foreign keys add no waits. What SQLAlchemy does matters as much: **a flush writes only attributes
that changed from the value that was loaded** (`EndDemotion`, `Changed`, `SetValue`), which is how an overlap
loses a default profile and also why a late edit does not undo a conversion.

*Billing.* `db` is the committed table and `pend[s]` the row versions that `s` has written; they are also its
locks. In `Engagements` a request locks at most one row, so that row's id (`lock`) is enough; in `Leads` the
lead's new version (`write`).

*Engagements.* All four kinds of row share one shape (the value that a rule looks at) and all endpoints one
sequence (load, write, log, commit), so one set of statements serves thirteen endpoints, which differ in
what they load and check (`Allowed`, `MayInsert`, `First`) and in what they log (`Entry`). The log
is kept as the set of (old, new) pairs per client or service, and as a count of completion entries per milestone or
ticket: what the properties tell apart. The entry of a creation has no old value, and no new one either where its text names none: a service
starts in `scoping` without a word of it, and `lead_converted` does not say which stage the conversion gave the client. The first value is
therefore a history variable (`born`). Entries name services by their title only; the model keeps them
per service, as if titles were unique.

*The panel.* A module has the React state of its page as variables, one action per handler and one per
answer that comes in, and the API behind the page as actions that serve or lose a request. A request is a record
in flight with what its closure captured (the filter of its `onSuccess`, the credentials it carries, whether its component is
still mounted). `request` in `lib/api.ts` joins a GET to one for the same address that is in flight; since only
equal addresses are joined and addresses belong to one part, the parts share no state, and `Panel` is their
sum: `part` says which of them a behaviour runs, and the others rest. That keeps one run for the panel without
multiplying state spaces that never meet, and `PanelProofs` shows that nothing proved of a part is lost by it.

| Module | State in the code | Actions that are more than one handler |
|---|---|---|
| `Board` | `clients`, `isLoading`, `error`, `view` of the page; `clients` and `revertRef` of the mounted board | `Drop` is `handleDragEnd` with the optimistic move; `Apply` and `Refuse` are `PATCH .../stage` |
| `Session` | `token` of the client, the cookie, `user`, `isLoading`, `sessionStorage.returnTo`, the form | `ThrowOut` is the whole 401 path (clear, remember, hard load); `Load` drops all but cookie and storage |
| `Chat` | `messages`, `sinceRef`, `isLoading`, the composer | `Begin`, `Commit` are a sender's transaction; `Got` applies one GET for everybody who waits for it |
| `ListPages` | filters, rows, dialog | `CreatedHere`: close, reset, tell, and fetch with the filter of the submission |
| `DetailPages` | the copy of the row, `serverAllowed` and `targetState` of the dialog | `Edit(p)` stands for the five dialogs and forms that complete a part |
| `LoadPages` | `data`, `errors`, `isLoading` | `Respond` delivers one answer; `Promise.allSettled` and `Promise.all` decide what is taken |
| `ConvertForm` | `billingData`, `billingErrors`, the fields of the form while it is mounted | `Converted` leaves the list for the new client |

A card, a token or a message is a model value or a number; messages are numbered by `created_at`, so equal times do not
occur. `Newer(s)` is what `list_messages` selects, as the set of the one list that is in order, leaves out only messages
newer than its own and stops at the limit: a condition that can be reasoned about where a sort cannot. Filters are members of a small set; on the board they do not change which clients come back. The activity that a service's page
fetches after the service itself is part of `TakeRow`. Rows are never deleted while a page shows them, so no 404 comes.

## 3. Runs

| Run | Instance | Distinct states | Shows |
|---|---|---|---|
| `billing_serial` | 1 request, 3 profiles, 3 tax ids, starting with 0, 1 or 3 | 2,566 | the statements implement `BillingAtomic`; exactly one default; never emptied |
| `billing_concurrent` | 2 requests of any kind, 3 profiles, 2 tax ids, from 0 or 2 | 132,485 | `TaxIdUnique`, `DeletedStaysDeleted`, every request finishes in spite of deadlocks |
| `billing_promotions` | 3 edits or promotions at a time, 3 profiles | 63,589 | `AtMostOneDefault` |
| `billing_zero_default` | 2 promotions | violation | finding 1 |
| `billing_emptied` | 2 deletes | violation | finding 2 |
| `leads_serial` | 1 request, 2 leads, 3 clients, admin, comercial and consultor | 51,207 | implements `LeadLifecycle`, with its scoping by owner; links exact |
| `leads_concurrent` | 2 requests, 1 lead, 3 clients | 46,414 | whole conversions, own links, kept links, late writes that take nothing back, duplicates only by overlap, requests finish |
| `leads_double_conversion` | 2 requests, 1 lead | violation | finding 3 |
| `engagements_serial` | 1 request; client, service, 2 milestones of one number, ticket | 353,995 | implements `EngagementRules`; completions logged exactly when they happen |
| `engagements_concurrent` | 2 requests, the same rows | 1,227,497 | the log leads from every first stage and state to the current one, nothing done without an entry, unique numbers, final deletes |
| `panel` | every part, see below | 499,091 | what each part of the panel shows agrees with the database, with the account and with itself; three liveness properties |
| `board_reverts` | 2 cards, 2 moves | violation | finding 4 |

What `panel` shows, and under which conditions (each is a variable that remembers that the code was already in a
situation in which it promises nothing; section 4 says what happens there):

| Property | Says | Says nothing |
|---|---|---|
| `PanelTypeOK` | the state of every part is well formed | |
| `LoneMovesSettle` | moves made one at a time, granted or refused, leave the board as the database is | after moves overlapped, an answer was lost, or the board was mounted again from old rows (`events`) |
| `SuccessesSettle` | so do overlapping moves of different cards that all succeed | after a refusal or two open moves of one card |
| `SessionMatches` | the page on the screen is of the account whose token its requests carry | after a login overlapped a logout or another `/me`, or its own `/me` failed (`raced`), until a hard load |
| `TabRests` | a tab comes to rest on the form or on a page again and again | while the user loads pages again and again |
| `ThreadExact` | the thread is all messages up to the cursor, once, in order | after disorder (`mixed`) |
| `ChatCatchesUp` | every message is shown | the same |
| `FilterAnswered` | rows answer the filter and contain each row the user was told of | after fetches of two filters overlapped, or one that failed without a place for it (`crossed`, `fault`) |
| `OneSubmission` | one press of a dialog's button is one request, however often it is closed and opened | |
| `DetailAgrees` | a copy agrees with its row when nothing is in flight | after overlaps that replace the row, or lost answers (`upset`) |
| `RefusalsExplained` | a move on the page's map is refused only where the two maps differ | the same |
| `DashboardHonest`, `PortalAllOrNothing` | no figure or list from half of the answers | |
| `PageLoads` | loading ends | while the user leaves again and again |
| `SentAsShown` | a conversion sends the profile on the screen | until a field is touched after the form was hidden (`unseen`) |

**Bounds, and why they are enough.** Rows of different clients (or leads) never meet in a
statement, so one client suffices, and one lead where overlap is the question. Three profiles are a default,
an heir and a bystander; with two tax ids every two of them can collide. Two requests are enough for each overlap that
we know to go wrong, since each is a read by one request and a commit by another; promotions, whose locks form
chains, get three. In `billing_*` ids are created in increasing order and used again only at the top, so a run may
delete and create for ever. In `leads_concurrent` there is one client id more than overlapping requests can use,
so that the bound of `DuplicatesOverlap` is not the bound of the model. `Engagements` bounds the log: `MaxTrail` logged
changes of client and service together (4 serial, 3 concurrent) and `MaxMarks` completions per row (2 and 1). They
guard the start of a request (`Room`), so a request that is under way always ends; two that start at the
last free entry may exceed the bound by one, which leaves room for double entries.
`NewStages` are the stages that a client is created with, by a POST or by a conversion: the serial run uses the first and `active`
(a body may name any), the concurrent one `proposal_sent`, which leaves an `active` and a `lost` ahead.
Every action of every module fires in the passing runs. Deadlock is checked in all but the two of the panel, where
a user who does nothing is not one.

In the panel: two cards and two PATCHes in flight, since an overlap is of two and a slot is free again after its
answer, so a run may go on moving cards for ever; the cards start in adjacent stages, so each can be granted and refused. Two tokens of two accounts, one in each portal, so one
can be thrown out while another comes; pages are loaded by address any number of times. Three messages with pages of one
row, so the page is behind by more than a page; one poll that waits for a GET of another. Two filters, two POST slots (one more than may be in use). Two
moves of a row and two completed parts, so a second request meets the effects of a first; one PATCH of a row at a time,
since the buttons are disabled while one is in flight (a second needs a page that was unmounted). All six pages that load, visited in any order, so answers asked for by one
reach the next. Two conversions in flight, by a dialog that was mounted anew.

**Fairness.** `FairSpec` is what `RequestsFinish` needs, and the two billing findings are checked under it too. `SF_vars(Proceed(s))`: PostgreSQL queues waiters for a row in order, so a request
whose row is free again and again gets it; the API's event loop runs every ready request. `WF_vars(DeadlockVictim(s))`:
PostgreSQL's deadlock detector aborts a member of a cycle of waits (`deadlock_timeout`). `Begin`, `ConnectionLost`
and `Abort` have none: nobody has to send a request or lose a connection. `RequestsFinish` is not claimed for `Engagements`:
a request there waits for one row or number while it holds nothing, so no cycle can arise, and the property would say
only what its fairness does.

The panel's three liveness properties have these. `WF(Gate)`: React runs effects. `WF(Proceed("me"))`, `WF(Response(s))`: a
request is answered or fails, and its promise is resumed; `Proceed` covers both halves, of which one at a time is enabled. `TabRests` needs it
of `/me` only: a login, a logout or a save that is never answered does not keep the tab from resting.
`WF(Poll)`: the timer ticks while the page is open. `SF(AnswerGet(s))`: a GET for a cursor that is sent again every 10 s is not lost every time; without it a
network that always fails would refute everything. `WF(Handle(s))`: an answer is applied. The user has none; a page need not be opened, a message need not be sent or
committed.

## 4. What overlapping requests do

Held, for every interleaving and failure (model-checked, most of it proved): unique tax ids and
milestone numbers; deletes are final; conversions are whole, link to their own client and stay linked; a late write on a lead takes back neither
its owner nor its status; no completion is without an entry. The log explains every stage and state as far as its entries go: the creation is
logged, and the logged changes lead from the first value to the current one. Where a client that was made from a lead started is not in the log:
"Lead ... converted to client" names no stage, while "Client created at stage: ..." does (`client_service.py:190-196, 365-371`).

Not held; each is a run that finds the violation and is listed under "findings":

1. *No default profile.* `set_default` loads `p` (the default), another promotion commits, `set_default` demotes the
   other, and its flush skips `p` since it was loaded as the default. The comment at
   `billing_profile_service.py:228` says that this cannot be.
2. *No profile at all.* Two deletes: the first promotes the sibling, which the second has loaded
   as not the default and deletes.
3. *Two clients from one lead.* Both conversions pass the check; the second link wins, the first client is an orphan.

4. *A refused card stays.* Two moves overlap on the board; the first success clears `revertRef`, which both share, so the
   refusal of the second has nothing to go back to. The comment at `use-stage-transition.ts:11-13` says that it reverts on any error.

Other rules that only hold for one request at a time, as the code never promises more: two creates can each become the
default profile (so `AtMostOneDefault` is checked for promotions and edits only, and `ExactlyOneDefault` serially);
a stage change decided before the client was lost takes it out of `lost`, and a service can be created while its client is being
lost (`ImplementsRules` is serial); a milestone completed, or a ticket closed, by two requests is logged twice
(`MarksAreFlips` is serial); a lead reassigned after the scoped load is edited, or moved, by its former owner, since owner and
role are looked at only there (`LateWritesMerge` says that the lead keeps its new owner all the same; a conversion looks at the role and
at no owner). One at a time too, `PATCH /leads/{id}/status` may set `converted`
without a client, after which the lead cannot be converted; the status machine allows it and
`LeadLifecycle` has it.

In the panel, what the conditions of the properties leave out:

* *Board.* A refusal takes a later move of another card back with it. Switching to the list and back mounts the board from rows
  that know of no move, since a success does not tell the page. Two open moves of one card can be applied in the other order.
* *Session.* The answer of a logout removes the token and cookie of a login made in between. A login joins the `/me` that the page sent when it
  was loaded, with the old cookie, and shows the old account.
* *Chat.* A message that is committed after a later one was fetched is behind the cursor for good. A send moves the cursor past
  messages that were not fetched. A poll that waits for a GET in flight appends its answer a second time.
* *Lists.* Answers of two filters are taken in the order in which they come; a dialog's `onSuccess` fetches with the filter of its submission;
  a failed load leaves the old rows in place with a toast only.
* *Details.* Every answer replaces the whole lead, so of two the older can win. The panel offers review to running and maintenance to paused,
  which the backend always refuses. A dialog that was cancelled may keep a choice which is no longer on the map.
* *Conversion.* The accordion and Cancel unmount the billing form and keep its data, which the next conversion sends unseen.

## 5. Theorems

All hold for any number of sessions, rows, cards, filters, messages and requests. They assume what the modules assume of their
constants: ids of different kinds differ; `None`, `NoRow`, `Unwritten`, `Sent`, `Failed` and `"ok"` are not rows, columns,
requests or answers; `Slot` gives a milestone a service and a number; profiles are positive numbers; roles are roles; a row is created in a
status of its machine; a GET of messages has a limit of at least one; and, for `DuplicatesAreBounded`, the sessions are finitely many.

Theorems named `Serial...` have one hypothesis more, `OneAtATime`: any two sessions are the same one, so a request starts when the last has ended, by a
commit, an error or a lost connection. The code does not promise more (section 4, and three findings), and the serial runs are instances of it.
`PromotionsKeepOneDefault` has `PromotionsAndEdits`: any number of requests, none of which creates or deletes.

| Module | Theorem | States |
|---|---|---|
| `BillingProofs` | `TypeCorrect`, `TaxIdStaysUnique`, `DeletedProfilesStayDeleted` | `[]TypeOK`, `[]TaxIdUnique`, `DeletedStaysDeleted` |
| | `PromotionsKeepOneDefault` | `[]AtMostOneDefault`, of promotions and edits |
| | `SerialImplementsAtomic`, `SerialKeepsOneDefault`, `SerialNeverEmptied` | `ImplementsAtomic`, `[]ExactlyOneDefault`, `NeverEmptied`, one request at a time |
| | `AtomicIsConsistent` | of `BillingAtomic` itself: unique tax ids and exactly one default |
| `LeadProofs` | `TypeCorrect`, `ConversionsAreWhole`, `LinksAreOwn`, `LinksAreKept`, `LateWritesTakeNothingBack`, `DuplicatesAreBounded` | `[]TypeOK`, `[]ClientsComplete`, `[]LinkToOwnClient`, `LinkKept`, `LateWritesMerge`, `[]DuplicatesOverlap` |
| | `SerialImplementsLifecycle`, `SerialLinksAreExact` | `ImplementsLifecycle`, `[]LinkExact`, one request at a time |
| `EngagementProofs` | `TypeCorrect`, `TrailAlwaysExplains`, `CompletionsAreLogged`, `SlotsStayUnique`, `DeletionsAreFinal` | `[]TypeOK`, `[]TrailExplains`, `[]DoneIsLogged`, `[]SlotUnique`, `DeletedStaysDeleted` |
| | `SerialImplementsRules`, `SerialMarksAreFlips` | `ImplementsRules`, `MarksAreFlips`, one request at a time |
| `BoardProofs` | `BoardTypeCorrect`, `LoneMovesSettled`, `SuccessesSettled` | `[]BoardTypeOK`, `[]LoneMovesSettle`, `[]SuccessesSettle`, for any cards and number of open moves |
| `SessionProofs` | `ScreenMatchesSession` | `[]SessionMatches`, for any accounts and number of tokens |
| `ChatProofs` | `ChatTypeCorrect`, `ThreadIsExact` | `[]ChatTypeOK`, `[]ThreadExact`, for any limit and number of messages |
| `PageProofs` | `ListTypeCorrect`, `OnePressOneRequest`, `RowsAnswerTheFilter` | `[]ListTypeOK`, `[]OneSubmission`, `[]FilterAnswered` |
| | `DetailTypeCorrect`, `PageAgreesWithRow`, `RefusalsAreExplained` | `[]DetailTypeOK`, `[]DetailAgrees`, `[]RefusalsExplained` |
| | `LoadTypeCorrect`, `DashboardIsHonest`, `PortalShowsAllOrNothing` | `[]LoadTypeOK`, `[]DashboardHonest`, `[]PortalAllOrNothing` |
| | `ConvertTypeCorrect`, `SentIsShown` | `[]ConvertTypeOK`, `[]SentAsShown` |
| `PanelProofs` | `PanelTypeCorrect`, `BoardSettlesInPanel`, `ScreenMatchesSessionInPanel`, `ThreadIsExactInPanel`, `ListsAnswerInPanel`, `DialogsAreSafeInPanel`, `DetailPagesAgreeInPanel`, `LoadsAreWholeInPanel` | every safety property of the panel, of `PanelSpec` as the run checks it |

None of these invariants is inductive alone; in each module the strengthening says what open transactions may commit.

* **Billing.** `TypeInv`: a session reads its own writes, so types need that a deleted row is the last write of its
  transaction. `KeyInv`: what each session *would* commit is unique (`ViewsUnique`), and two sessions never put one key on
  two rows (`KeysExclusive`); for this locks are exclusive, the id of a new row is its own, and a row keeps its key until the
  last write (`TaxKept`), since other rows' keys are read from the committed table. A commit turns `View(s)` into the table, so
  the other views must stay unique on top of it: that is where `KeysExclusive` is needed.
  `DefaultInv`, for promotions: at every step the rows that a promotion has still to demote (`todo`) and those it has demoted are all
  the others, so its commit leaves one default; an edit holds a row with the flag that the table has, since nobody else can have
  committed that row. `SerialInv`: `Sees` says for every statement what the only session reads (the table with what its request has changed so
  far) and which of its checks still hold; the last statement's view is then a step of `BillingAtomic`.
* **Leads.** Per session, `SessionOK`: which parts are inserted at which statement, that the client id is its own, and that
  the row about to be committed agrees with the committed lead on the link unless this is the conversion
  (`WriteKnowsLink`), and on owner and status unless the request sets them (`WriteMerges`), which holds since what is written is
  the committed row with the request's columns changed, and no other session has that row (`RowIsMine`). `CountInv`: the clients of a lead and the
  conversions open on it are together at most the sessions; a conversion begins only on a lead without a link, which is one
  without a client. `SerialInv`: what the one request loaded is still so (`StillLoaded`), and so its commit is a step of `LeadLifecycle`.
* **Engagements.** `Loaded`: the log leads from the first value (`born`, which only an insert sets, and nobody has loaded the row before) not
  only to the current value but to every value that an open request has loaded (it is append-only), so writing over a newer one adds an entry that starts at an explained value. `Locked` and `Apart`:
  a locked row is live and an insert has its row and number to itself. `SerialInv`: the row still has the value that the
  request loaded, and its checks still hold (`StillLoaded`).
* **Board.** `Known` ties what the page has fetched and which moves the mounted board still hears of to the database: `RowsNow`, the
  rows of a board without moves are the table; `OwnMoves`, nobody else moves a card. On it stand two invariants about
  the time before everything is answered. `LoneInv`: there is one open move; until it is decided the snapshot is the table and the board is the
  table with the move in it, and after that whichever of the two the answer leads to. `HappyInv`: each card with an undecided move shows its target,
  every other card its stage. The properties are the case that no move is open.
* **Session.** `Waits`: the ApiClient's token is the cookie or missing, and only a loaded page or a login waits for `/me`.
  `CookieInv`, unless a login was raced: the `/me` in flight was sent with the cookie or brings its account; a user is the
  cookie's account while no new `/me` is asked for; and while a logout is in flight nobody is logged in nor about to be, so that the
  cookie it takes away is missed by nobody. `raced` is what breaks each of the three.
* **Chat.** `Table`, at all times: what the page asked for, got or sent is committed. `Exact`, until `mixed`: the thread is the messages up to the
  cursor in order, and at most one GET is in flight, for that cursor, with one to wait for it. `Fresh`: the list it brings is in order, newer
  than the cursor, and leaves out nothing committed up to its own last message, neither when it is selected nor after later commits, which are
  all newer until `mixed`. The lemmas on lists say what a join of two lists contains and when it is in order.
* **Lists.** `SubmitInv`: a request in flight keeps the button disabled, since closing the dialog does not reset `isSaving`.
  `RowsAnswer`, until `crossed`: what is in flight is for the page's filter, and its answer, or the rows when nothing is in flight, are no older than
  what the user was told.
* **Details.** `Agreed`, until `upset`: a fetch is alone; one move is in flight, and none of a lead beside an edit; the copy with the parts
  whose answers are in flight is the row. `PatchKnows`: a move without an answer starts at the row's status, a refused one is not on the
  backend's map, and one that was made has the row in its answer; of a service or client only the status of it, since parts may be completed meanwhile.
* **Loading pages.** `LoadInv`: on the dashboard, loading ends only when all have settled, and `errors` and `data` say how; in the
  portal, data are taken all at once and nothing that comes later changes them.
* **Conversion.** `FormInv`: the form is mounted exactly while the accordion is open, and data that were typed are seen or `unseen`.
* **Panel.** `PartSteps`: a step of the panel is a step or a stutter of each part, so `PanelSpec` implies the safety part of each.

The lemmas (`LocalStep`, `WriteUnique`, `CommitEffects`, `OthersKeep`) are about kinds of step (local, a write, a commit), so
that each action is an instance of one. An action property follows from the invariant and the same case split.

**Only model-checked:** the liveness properties `RequestsFinish`, `TabRests`, `ChatCatchesUp` and `PageLoads`, since liveness under fairness and `ENABLED` are
outside the prover. Every other property of the passing runs is a theorem. The violations are what TLC finds: no theorem says that the
code must misbehave.

## 6. Plan

Done, in this order: 1. billing profiles, `BillingAtomic`, proofs; 2. leads; 3. engagements; 4. the panel: board, session, chat, lists,
details, loading pages, conversion dialog, with their proofs; 5. every safety and action property of the runs as a theorem, and the three refinements.

Left, most useful first:

6. `RateLimiter`: API processes that read the clock and then run the Redis transaction at a later time, errors
   before and after it. Abstract: a counter of admitted calls per window. Run: limit 2, window of a few ticks, two callers'
   processes, delay at most D. Properties: at most `limit` counted calls in every window of W - D; expiry never
   drops a counted entry; a lone caller who waits `retry_after` is admitted.
7. Two tabs that share the cookie, and two users who move cards of one board.
8. Theorems: how far an overlap can go. For any number of requests, no more default profiles than creates that overlapped; the
   log has no more completions of a row than requests that were open at once.

## 7. Not modelled

List and detail endpoints, which only read. Requests that change nothing, and columns without a rule (names, prices, due dates), except
that an edit of them locks the row and fails if it is gone. `404` for a client: no endpoint deletes one. Owner scoping of clients
and services for consultors in `Engagements` (a filter of what is loaded, as modelled in `Leads`). Who may change a ticket's status.
Log entries of kinds that no property is about (contacts, `ticket_opened`, `ticket_updated`, messages); `lead_converted` is in `Leads` as a part of the conversion and in `Engagements` as the entry
of a creation.
The `force` flag of stage changes: no route passes it. Contacts: single-row edits. Redis streams: nothing calls
`shared/redis_client.py` for streams. Diagnostics, the payload sanitizer, error mapping, logging and configuration: pure
conversions. Migrations, seeds and deployment: run once by an operator; the constraints they create are in the models.
The rate limiter (plan, 6).

Of the panel: other tabs with the same cookie, and other people's changes of the rows on a page, except where a module says so
(messages of the team, a lead that is moved on while its conversion is open). Passwords, deactivated accounts and the scoping of
endpoints by role. The settings and users pages, and the portal's billing, documents and meetings, which send no requests; the assign dialog, whose list of users
is a stub that is always empty. Sidebar, breadcrumb, command palette, search on the client, locale and theme, and the ui kit. On which side of the chat a
message is drawn, and marks for unread ones; the text of tickets and messages. Setting a default or deleting in `BillingProfileList`: single requests
followed by a fetch, with the rules in `BillingProfiles`. The middleware's `returnTo` parameter, which nothing reads. `PROJECT.json` lists
each component with its status and each hazard with the properties that cover it, or with a note where the code goes wrong and no property is about it.
