------------------------------- MODULE ChatProofs -------------------------------
(***************************************************************************)
(* Theorems about Chat, for any number of messages, any limit of a page of *)
(* them and any number of polls that wait for one GET.                     *)
(***************************************************************************)
EXTENDS Chat, TLAPS

-----------------------------------------------------------------------------
(* Lists of messages.                                                      *)

LEMMA JoinedSet ==
    ASSUME NEW q \in Seq(Numbers), NEW r \in Seq(Numbers)
    PROVE  q \o r \in Seq(Numbers) /\ ToSet(q \o r) = ToSet(q) \cup ToSet(r)
<1>1. q \o r \in Seq(Numbers) /\ Len(q \o r) = Len(q) + Len(r) OBVIOUS
<1>2. \A i \in 1..Len(q) : (q \o r)[i] = q[i] OBVIOUS
<1>3. \A i \in 1..Len(r) : (q \o r)[Len(q) + i] = r[i] OBVIOUS
<1>4. \A i \in 1..Len(q \o r) : i \notin 1..Len(q) => i - Len(q) \in 1..Len(r) BY <1>1
<1>5. ASSUME NEW x PROVE x \in ToSet(q \o r) <=> x \in ToSet(q) \/ x \in ToSet(r)
  <2>1. ASSUME x \in ToSet(q \o r) PROVE x \in ToSet(q) \/ x \in ToSet(r)
    <3>1. PICK i \in 1..Len(q \o r) : x = (q \o r)[i] BY <2>1, <1>1 DEF ToSet
    <3>2. CASE i \in 1..Len(q) BY <3>1, <3>2, <1>2 DEF ToSet
    <3>3. CASE i \notin 1..Len(q)
      <4>1. i - Len(q) \in 1..Len(r) BY <3>1, <3>3, <1>4
      <4>2. x = r[i - Len(q)] BY <3>1, <4>1, <1>1, <1>3
      <4> QED BY <4>1, <4>2 DEF ToSet
    <3> QED BY <3>2, <3>3
  <2>2. ASSUME x \in ToSet(q) PROVE x \in ToSet(q \o r)
    <3>1. PICK i \in 1..Len(q) : x = q[i] BY <2>2 DEF ToSet
    <3>2. i \in 1..Len(q \o r) /\ x = (q \o r)[i] BY <1>1, <1>2, <3>1
    <3> QED BY <3>2, <1>1 DEF ToSet
  <2>3. ASSUME x \in ToSet(r) PROVE x \in ToSet(q \o r)
    <3>1. PICK i \in 1..Len(r) : x = r[i] BY <2>3 DEF ToSet
    <3>2. Len(q) + i \in 1..Len(q \o r) /\ x = (q \o r)[Len(q) + i] BY <1>1, <1>3, <3>1
    <3> QED BY <3>2, <1>1 DEF ToSet
  <2> QED BY <2>1, <2>2, <2>3
<1> QED BY <1>1, <1>5

\* Two lists in order make one, when every message of the second is newer than all of the first.
LEMMA JoinedInOrder ==
    ASSUME NEW q \in Seq(Numbers), NEW r \in Seq(Numbers), Increasing(q), Increasing(r),
           \A i \in ToSet(q), j \in ToSet(r) : i < j
    PROVE  Increasing(q \o r)
<1>1. Len(q \o r) = Len(q) + Len(r) /\ DOMAIN (q \o r) = 1..Len(q) + Len(r) OBVIOUS
<1>2. \A i \in 1..Len(q) : (q \o r)[i] = q[i] /\ q[i] \in ToSet(q) BY DEF ToSet
<1>3. \A i \in 1..Len(q) + Len(r) : i \notin 1..Len(q) =>
         /\ i - Len(q) \in 1..Len(r) /\ (q \o r)[i] = r[i - Len(q)] /\ r[i - Len(q)] \in ToSet(r)
  BY DEF ToSet
<1>4. ASSUME NEW i \in 1..Len(q) + Len(r), NEW j \in 1..Len(q) + Len(r), i < j
      PROVE  (q \o r)[i] < (q \o r)[j]
  <2>1. CASE j \in 1..Len(q)
    <3>1. i \in 1..Len(q) BY <1>4, <2>1
    <3> QED BY <1>2, <1>4, <2>1, <3>1 DEF Increasing
  <2>2. CASE i \in 1..Len(q) /\ j \notin 1..Len(q) BY <1>2, <1>3, <2>2
  <2>3. CASE i \notin 1..Len(q)
    <3>1. j \notin 1..Len(q) /\ i - Len(q) < j - Len(q) BY <1>4, <2>3
    <3>2. i - Len(q) \in DOMAIN r /\ j - Len(q) \in DOMAIN r BY <1>3, <2>3, <3>1
    <3> QED BY <1>3, <2>3, <3>1, <3>2 DEF Increasing
  <2> QED BY <2>1, <2>2, <2>3
<1> QED BY <1>1, <1>4 DEF Increasing

LEMMA OneMessage ==
    ASSUME NEW i \in Numbers
    PROVE  <<i>> \in Seq(Numbers) /\ ToSet(<<i>>) = {i} /\ Increasing(<<i>>)
BY DEF ToSet, Increasing

\* The last of a list in order is its newest.
LEMMA LastIsNewest ==
    ASSUME NEW q \in Seq(Numbers), q # <<>>
    PROVE  /\ Last(q) \in ToSet(q) /\ Last(q) \in Numbers
           /\ Increasing(q) => \A i \in ToSet(q) : i <= Last(q)
<1>1. Len(q) \in DOMAIN q /\ Last(q) = q[Len(q)] BY DEF Last
<1>2. Last(q) \in ToSet(q) /\ Last(q) \in Numbers BY <1>1 DEF ToSet
<1>3. ASSUME Increasing(q), NEW i \in ToSet(q) PROVE i <= Last(q)
  <2>1. PICK k \in DOMAIN q : i = q[k] BY DEF ToSet
  <2>2. k <= Len(q) /\ i \in Numbers BY <2>1
  <2>3. CASE k = Len(q) BY <1>1, <2>1, <2>2, <2>3 DEF Numbers
  <2>4. CASE k < Len(q)
    <3>1. q[k] < q[Len(q)] BY <1>1, <1>3, <2>1, <2>4 DEF Increasing
    <3> QED BY <1>1, <1>2, <2>1, <2>2, <3>1 DEF Numbers
  <2> QED BY <2>2, <2>3, <2>4
<1> QED BY <1>2, <1>3

LEMMA TimesOK ==
    ASSUME NEW q \in Seq(Numbers), NEW n \in Nat
    PROVE  Times(q, n) \in Seq(Numbers) /\ Times(q, 1) = q
<1>1. CASE Len(q) = 0
  <2>1. n * Len(q) = 0 /\ 1 * Len(q) = 0 BY <1>1
  <2>2. Times(q, n) = <<>> /\ Times(q, 1) = <<>> BY <2>1 DEF Times
  <2> QED BY <1>1, <2>2
<1>2. CASE Len(q) > 0
  <2> DEFINE L == Len(q)  at(k) == ((k - 1) % L) + 1
  <2>1. L \in Nat /\ n * L \in Nat OBVIOUS
  <2>2. \A k \in 1..n * L : at(k) \in 1..L BY <1>2, <2>1
  <2>3. \A k \in 1..L : at(k) = k BY <1>2, <2>1
  <2>4. Times(q, n) = [k \in 1..n * L |-> q[at(k)]] /\ Times(q, 1) = [k \in 1..1 * L |-> q[at(k)]]
    BY DEF Times
  <2>5. 1 * L = L BY <2>1
  <2> HIDE DEF at
  <2>6. \A k \in 1..n * L : q[at(k)] \in Numbers BY <2>2
  <2>7. Times(q, n) \in Seq(Numbers) BY <2>1, <2>4, <2>6
  <2>8. Times(q, 1) = [k \in 1..L |-> q[k]] BY <2>3, <2>4, <2>5
  <2>9. q = [k \in 1..L |-> q[k]] OBVIOUS
  <2> QED BY <2>7, <2>8, <2>9
<1> QED BY <1>1, <1>2

-----------------------------------------------------------------------------
(* The invariant.                                                          *)

\* What holds of the table whatever happens: a message is open, committed or gone; what the page
\* has asked for, got and sent is committed; and the first load is the GET without a cursor.
Table == /\ open \cap committed = {} /\ open \cup committed \subseteq 1..begun
         /\ since \in {0} \cup committed
         /\ post # None /\ post.answer = "ok" => post.id \in committed
         /\ \A s \in 0..MaxMessage : gets[s] # None =>
               ToSet(gets[s].items) \subseteq committed /\ (gets[s].initial => s = 0)

\* One poll waits, or the first load, for what is in order and leaves no committed message out.
Fresh(s) == LET q == gets[s].items
            IN  /\ gets[s].polls = IF gets[s].initial THEN 0 ELSE 1
                /\ Increasing(q) /\ \A i \in ToSet(q) : i > s
                /\ q # <<>> => \A i \in committed : s < i /\ i <= Last(q) => i \in ToSet(q)

\* Until mixed, the thread is what it should be, and the one GET in flight is for its cursor.
Exact == ~mixed => /\ Increasing(messages) /\ ToSet(messages) = {i \in committed : i <= since}
                   /\ \A s \in 0..MaxMessage : gets[s] # None => s = since /\ Fresh(s)

ChatInv == ChatTypeOK /\ Table /\ Exact

LEMMA Words == /\ Sent # Failed /\ Sent # None /\ Failed # None
               /\ Sent # "ok" /\ Failed # "ok" /\ None \notin GetRequest /\ None \notin PostRequest
BY ChatAssumption, MarksAssumption

LEMMA GetPut ==
    ASSUME ChatTypeOK, NEW s \in 0..MaxMessage, NEW g \in GetRequest \cup {None},
           gets' = [gets EXCEPT ![s] = g]
    PROVE  /\ gets' \in [0..MaxMessage -> GetRequest \cup {None}]
           /\ gets'[s] = g /\ \A r \in 0..MaxMessage \ {s} : gets'[r] = gets[r]
BY DEF ChatTypeOK

\* A GET that is new.
LEMMA NewGetOK ==
    ASSUME NEW b \in BOOLEAN
    PROVE  /\ NewGet(b) \in GetRequest /\ NewGet(b) # None
           /\ NewGet(b).items = <<>> /\ NewGet(b).initial = b
           /\ NewGet(b).polls = (IF b THEN 0 ELSE 1)
<1>1. <<>> \in Seq(Numbers) /\ (IF b THEN 0 ELSE 1) \in 0..MaxPolls BY ChatAssumption
<1>2. NewGet(b) \in GetRequest BY <1>1 DEF NewGet, GetRequest
<1> QED BY <1>2, Words DEF NewGet

LEMMA EmptyList == <<>> \in Seq(Numbers) /\ ToSet(<<>>) = {} /\ Increasing(<<>>)
BY DEF ToSet, Increasing

\* What leaves the page, the table and what the GETs have brought alone.
LEMMA ThreadStands ==
    ASSUME ChatInv, UNCHANGED <<messages, since, committed, mixed>>, open' \cup open \subseteq 1..begun',
           committed \subseteq 1..begun', open' \cap committed = {},
           post' # None /\ post'.answer = "ok" => post'.id \in committed,
           \A s \in 0..MaxMessage : gets'[s] # None =>
              /\ gets[s] # None
              /\ gets'[s].items = gets[s].items /\ gets'[s].initial = gets[s].initial
              /\ gets'[s].polls = gets[s].polls
    PROVE  Table' /\ Exact'
<1>1. Table' BY DEF ChatInv, Table
<1>2. \A s \in 0..MaxMessage : gets'[s] # None /\ Fresh(s) => Fresh(s)' BY DEF Fresh
<1>3. Exact' BY <1>2 DEF ChatInv, Exact
<1> QED BY <1>1, <1>3

LEMMA StepAnswerGet == ASSUME ChatInv, NEW s \in 0..MaxMessage, AnswerGet(s) PROVE ChatInv'
<1> USE Words
<1> DEFINE g0 == gets[s]  newer == {i \in committed : i > s}
<1>1. g0 \in GetRequest /\ g0 # None BY DEF AnswerGet, ChatInv, ChatTypeOK
<1>2. /\ UNCHANGED <<loading, messages, since, begun, open, committed, post, mixed>>
      /\ committed \subseteq Numbers
  BY DEF AnswerGet, UNCHANGEDpage, UNCHANGEDtable, ChatInv, ChatTypeOK
<1>3. PICK q \in Newer(s) : gets' = [gets EXCEPT ![s].answer = "ok", ![s].items = q]
  BY DEF AnswerGet
<1>4. /\ q \in UNION {[1..n -> newer] : n \in 0..PageLimit} /\ Increasing(q)
      /\ \A i \in newer \ ToSet(q) : \A j \in ToSet(q) : j < i
  BY DEF Newer, Lists
<1>5. PICK n \in 0..PageLimit : q \in [1..n -> newer] BY <1>4
<1>6. n \in Nat BY <1>5, ChatAssumption
<1>7. q \in Seq(Numbers) /\ ToSet(q) \subseteq newer BY <1>2, <1>5, <1>6 DEF ToSet
<1> DEFINE g == [g0 EXCEPT !.answer = "ok", !.items = q]
<1>8. /\ g \in GetRequest /\ g.items = q /\ g.initial = g0.initial /\ g.polls = g0.polls
  BY <1>1, <1>7 DEF GetRequest
<1>9. gets' = [gets EXCEPT ![s] = g] BY <1>3
<1> HIDE DEF g
<1>10. /\ gets' \in [0..MaxMessage -> GetRequest \cup {None}]
       /\ gets'[s] = g /\ \A r \in 0..MaxMessage \ {s} : gets'[r] = gets[r]
  BY <1>8, <1>9, GetPut DEF ChatInv
<1>11. ChatTypeOK' BY <1>2, <1>10 DEF ChatInv, ChatTypeOK
<1>12. Table' BY <1>1, <1>2, <1>7, <1>8, <1>10 DEF ChatInv, Table
<1>13. ASSUME ~mixed PROVE Exact'
  <2>1. s = since /\ Fresh(s) BY <1>1, <1>13 DEF ChatInv, Exact
  <2>2. q # <<>> => \A i \in committed : s < i /\ i <= Last(q) => i \in ToSet(q)
    <3>1. ASSUME q # <<>>, NEW i \in committed, s < i, i <= Last(q), i \notin ToSet(q) PROVE FALSE
      <4>1. i \in newer /\ i \in Numbers BY <1>2, <3>1
      <4>2. Last(q) \in ToSet(q) /\ Last(q) \in Numbers BY <1>7, <3>1, LastIsNewest
      <4>3. Last(q) < i BY <1>4, <3>1, <4>1, <4>2
      <4> QED BY <3>1, <4>1, <4>2, <4>3 DEF Numbers
    <3> QED BY <3>1
  <2>3. Fresh(s)' BY <1>2, <1>4, <1>7, <1>8, <1>10, <2>1, <2>2 DEF Fresh
  <2>4. \A r \in 0..MaxMessage \ {s} : gets'[r] = None BY <1>10, <1>13, <2>1 DEF ChatInv, Exact
  <2> QED BY <1>2, <1>13, <2>1, <2>3, <2>4 DEF ChatInv, Exact
<1> QED BY <1>2, <1>11, <1>12, <1>13 DEF ChatInv, Exact

LEMMA StepPoll == ASSUME ChatInv, Poll PROVE ChatInv'
<1>1. UNCHANGED <<loading, messages, since, begun, open, committed, post>>
  BY DEF Poll, UNCHANGEDpage, UNCHANGEDtable
<1>2. since \in 0..MaxMessage BY DEF ChatInv, ChatTypeOK
<1>3. CASE gets[since] = None
  <2>1. gets' = [gets EXCEPT ![since] = NewGet(FALSE)] /\ mixed' = mixed BY <1>3 DEF Poll
  <2> DEFINE g == NewGet(FALSE)
  <2>2. g \in GetRequest /\ g # None /\ g.items = <<>> /\ g.initial = FALSE /\ g.polls = 1
    BY NewGetOK
  <2> HIDE DEF g
  <2>3. gets' = [gets EXCEPT ![since] = g] BY <2>1 DEF g
  <2>4. /\ gets' \in [0..MaxMessage -> GetRequest \cup {None}]
        /\ gets'[since] = g /\ \A r \in 0..MaxMessage \ {since} : gets'[r] = gets[r]
    BY <1>2, <2>2, <2>3, GetPut DEF ChatInv
  <2>5. ChatTypeOK' BY <1>1, <2>1, <2>4 DEF ChatInv, ChatTypeOK
  <2>6. Table' BY <1>1, <2>2, <2>4, EmptyList DEF ChatInv, Table
  <2>7. ASSUME ~mixed PROVE Exact'
    <3>1. \A r \in 0..MaxMessage \ {since} : gets'[r] = None BY <1>2, <2>4, <2>7 DEF ChatInv, Exact
    <3>2. Fresh(since)' BY <1>1, <2>2, <2>4, <1>2, EmptyList DEF Fresh
    <3> QED BY <1>1, <1>2, <2>1, <2>7, <3>1, <3>2 DEF ChatInv, Exact
  <2> QED BY <2>1, <2>5, <2>6, <2>7 DEF ChatInv, Exact
<1>4. CASE gets[since] # None
  <2> DEFINE g0 == gets[since]  g == [g0 EXCEPT !.polls = @ + 1]
  <2>1. g0 \in GetRequest BY <1>2, <1>4 DEF ChatInv, ChatTypeOK
  <2>2. g0.polls < MaxPolls /\ mixed' = TRUE BY <1>4 DEF Poll
  <2>3. g0.polls + 1 \in 0..MaxPolls BY <2>1, <2>2, ChatAssumption DEF GetRequest
  <2>4. g \in GetRequest /\ g.items = g0.items /\ g.initial = g0.initial
    BY <2>1, <2>3 DEF GetRequest
  <2>5. gets' = [gets EXCEPT ![since] = g] BY <1>4 DEF Poll
  <2> HIDE DEF g
  <2>6. /\ gets' \in [0..MaxMessage -> GetRequest \cup {None}]
        /\ gets'[since] = g /\ \A r \in 0..MaxMessage \ {since} : gets'[r] = gets[r]
    BY <1>2, <2>4, <2>5, GetPut DEF ChatInv
  <2>7. ChatTypeOK' BY <1>1, <2>2, <2>6 DEF ChatInv, ChatTypeOK
  <2>8. Table' BY <1>1, <1>2, <1>4, <2>4, <2>6 DEF ChatInv, Table
  <2> QED BY <2>2, <2>7, <2>8 DEF ChatInv, Exact
<1> QED BY <1>3, <1>4

\* The page's GET has failed, or never reached the API.
LEMMA StepGetFails == ASSUME ChatInv, NEW s \in 0..MaxMessage, FailGet(s) \/ NotGot(s) PROVE ChatInv'
<1> USE Words
<1>1. gets[s] \in GetRequest /\ gets[s] # None BY DEF FailGet, NotGot, ChatInv, ChatTypeOK
<1>2. /\ UNCHANGED <<messages, since, begun, open, committed, post, mixed>>
      /\ loading' \in BOOLEAN
  BY <1>1 DEF FailGet, NotGot, UNCHANGEDpage, UNCHANGEDtable, ChatInv, ChatTypeOK, GetRequest
<1> DEFINE failed == [gets[s] EXCEPT !.answer = Failed]
<1>3. /\ failed \in GetRequest /\ failed.items = gets[s].items /\ failed.initial = gets[s].initial
      /\ failed.polls = gets[s].polls
  BY <1>1 DEF GetRequest
<1>4. PICK g \in {failed, None} : gets' = [gets EXCEPT ![s] = g] BY DEF FailGet, NotGot
<1> HIDE DEF failed
<1>5. /\ gets' \in [0..MaxMessage -> GetRequest \cup {None}]
      /\ gets'[s] = g /\ \A r \in 0..MaxMessage \ {s} : gets'[r] = gets[r]
  BY <1>3, <1>4, GetPut DEF ChatInv
<1>6. ChatTypeOK' BY <1>2, <1>5 DEF ChatInv, ChatTypeOK
<1>7. Table' /\ Exact' BY <1>1, <1>2, <1>3, <1>4, <1>5, ThreadStands DEF ChatInv, Table
<1> QED BY <1>6, <1>7 DEF ChatInv

LEMMA StepGot == ASSUME ChatInv, NEW s \in 0..MaxMessage, Got(s) PROVE ChatInv'
<1> USE Words
<1> DEFINE q     == gets[s].items
           start == IF gets[s].initial /\ q # <<>> THEN <<>> ELSE messages
           times == gets[s].polls + IF gets[s].initial THEN 1 ELSE 0
<1>1. /\ gets[s] \in GetRequest /\ gets[s] # None /\ messages \in Seq(Numbers)
      /\ since \in 0..MaxMessage /\ committed \subseteq Numbers /\ ToSet(q) \subseteq committed
  BY DEF Got, ChatInv, ChatTypeOK, Table
<1>2. q \in Seq(Numbers) /\ times \in Nat /\ gets[s].initial \in BOOLEAN BY <1>1, ChatAssumption DEF GetRequest
<1>3. /\ UNCHANGED <<begun, open, committed, post, mixed>>
      /\ loading' = (loading /\ ~gets[s].initial)
      /\ messages' = start \o Times(q, times)
      /\ since' = IF q = <<>> THEN since ELSE Last(q)
      /\ gets' = [gets EXCEPT ![s] = None]
  BY DEF Got, UNCHANGEDtable
<1>4. /\ gets' \in [0..MaxMessage -> GetRequest \cup {None}]
      /\ gets'[s] = None /\ \A r \in 0..MaxMessage \ {s} : gets'[r] = gets[r]
  BY <1>3, GetPut DEF ChatInv
<1>5. start \in Seq(Numbers) BY <1>1, EmptyList
<1>6. messages' \in Seq(Numbers) BY <1>2, <1>3, <1>5, TimesOK, JoinedSet
<1>7. since' \in {0} \cup committed /\ since' \in 0..MaxMessage
  <2>1. CASE q = <<>> BY <1>1, <1>3, <2>1 DEF ChatInv, Table
  <2>2. CASE q # <<>>
    <3>1. Last(q) \in ToSet(q) /\ Last(q) \in Numbers BY <1>2, <2>2, LastIsNewest
    <3>2. since' = Last(q) BY <1>3, <2>2
    <3> QED BY <1>1, <3>1, <3>2, ChatAssumption DEF Numbers
  <2> QED BY <2>1, <2>2
<1>8. loading' \in BOOLEAN BY <1>3
<1>9. ChatTypeOK' BY <1>3, <1>4, <1>6, <1>7, <1>8 DEF ChatInv, ChatTypeOK
<1>10. Table' BY <1>3, <1>4, <1>7 DEF ChatInv, Table
<1>11. ASSUME ~mixed PROVE Exact'
  <2>1. s = since /\ Fresh(s) /\ \A r \in 0..MaxMessage : gets'[r] = None
    BY <1>1, <1>4, <1>11 DEF ChatInv, Exact
  <2>2. Increasing(messages) /\ ToSet(messages) = {i \in committed : i <= since}
    BY <1>11 DEF ChatInv, Exact
  <2>3. times = 1 /\ Increasing(q) /\ \A i \in ToSet(q) : i > since BY <1>2, <2>1 DEF Fresh
  <2>4. gets[s].initial => messages = <<>>
    <3>1. ASSUME gets[s].initial, messages # <<>> PROVE FALSE
      <4>1. since = 0 BY <1>1, <2>1, <3>1 DEF ChatInv, Table
      <4>2. Last(messages) \in ToSet(messages) /\ Last(messages) \in Numbers
        BY <1>1, <3>1, LastIsNewest
      <4> QED BY <2>2, <4>1, <4>2 DEF Numbers
    <3> QED BY <3>1
  <2>5. start = messages BY <2>4
  <2> HIDE DEF start, times
  <2>6. messages' = messages \o q BY <1>2, <1>3, <2>3, <2>5, TimesOK
  <2>7. ToSet(messages') = {i \in committed : i <= since} \cup ToSet(q)
    BY <1>1, <1>2, <2>2, <2>6, JoinedSet
  <2>8. \A i \in ToSet(messages), j \in ToSet(q) : i < j
    <3>1. ASSUME NEW i \in ToSet(messages), NEW j \in ToSet(q) PROVE i < j
      <4>1. i \in Numbers /\ j \in Numbers /\ i <= since /\ j > since BY <1>1, <2>2, <2>3, <3>1
      <4> QED BY <1>1, <4>1 DEF Numbers
    <3> QED BY <3>1
  <2>9. Increasing(messages') BY <1>1, <1>2, <2>2, <2>3, <2>6, <2>8, JoinedInOrder
  <2>10. ToSet(messages') = {i \in committed : i <= since'}
    <3>1. CASE q = <<>> BY <1>3, <2>7, <3>1, EmptyList
    <3>2. CASE q # <<>>
      <4>1. since' = Last(q) /\ Last(q) \in Numbers /\ Last(q) \in ToSet(q)
            /\ \A i \in ToSet(q) : i <= Last(q)
        BY <1>2, <1>3, <2>3, <3>2, LastIsNewest
      <4>2. \A i \in committed : since < i /\ i <= Last(q) => i \in ToSet(q) BY <2>1, <3>2 DEF Fresh
      <4>3. since < Last(q) BY <2>3, <4>1
      <4>4. ASSUME NEW i \in committed PROVE i <= since \/ i \in ToSet(q) <=> i <= Last(q)
        <5>1. i \in Nat /\ since \in Nat /\ Last(q) \in Nat BY <1>1, <4>1, ChatAssumption DEF Numbers
        <5> QED BY <4>1, <4>2, <4>3, <5>1
      <4>5. \A i : i \in ToSet(messages') <=> i \in committed /\ (i <= since \/ i \in ToSet(q))
        BY <1>1, <2>7
      <4> QED BY <4>1, <4>4, <4>5
    <3> QED BY <3>1, <3>2
  <2> QED BY <1>3, <2>1, <2>9, <2>10 DEF Exact
<1> QED BY <1>3, <1>9, <1>10, <1>11 DEF ChatInv, Exact

\* A message begins, or is rolled back; or a POST is sent, lost or given up.
LEMMA StepQuiet ==
    ASSUME ChatInv, \/ \E own \in BOOLEAN : Begin(own)
                    \/ \E i \in Numbers : Rollback(i)
                    \/ LosePost \/ Send \/ SendFailed
    PROVE  ChatInv'
<1> USE Words
<1>0. /\ begun \in 0..MaxMessage /\ open \subseteq Numbers /\ committed \subseteq Numbers
      /\ open \cap committed = {} /\ open \cup committed \subseteq 1..begun
      /\ post \in PostRequest \cup {None}
      /\ post # None /\ post.answer = "ok" => post.id \in committed
  BY DEF ChatInv, ChatTypeOK, Table
<1>1. UNCHANGED <<loading, messages, since, committed, gets, mixed>>
  BY DEF Begin, Rollback, LosePost, Send, SendFailed, UNCHANGEDpage, UNCHANGEDtable
<1>2. /\ begun' \in begun..MaxMessage /\ open' \subseteq Numbers
      /\ open' \cap committed = {} /\ open' \cup open \subseteq 1..begun'
  <2>1. ASSUME NEW own \in BOOLEAN, Begin(own)
      PROVE  /\ begun' \in begun..MaxMessage /\ open' \subseteq Numbers
             /\ open' \cap committed = {} /\ open' \cup open \subseteq 1..begun'
    <3>1. begun' = begun + 1 /\ begun < MaxMessage /\ open' = open \cup {begun + 1} BY <2>1 DEF Begin
    <3>2. begun + 1 \in 1..MaxMessage /\ begun + 1 \notin 1..begun BY <1>0, <3>1, ChatAssumption
    <3>3. \A i \in 1..begun : i \in 1..begun + 1 BY <1>0
    <3> QED BY <1>0, <3>1, <3>2, <3>3 DEF Numbers
  <2>2. ASSUME begun' = begun, open' \subseteq open
      PROVE  /\ begun' \in begun..MaxMessage /\ open' \subseteq Numbers
             /\ open' \cap committed = {} /\ open' \cup open \subseteq 1..begun'
    BY <1>0, <2>2, ChatAssumption
  <2> QED BY <2>1, <2>2 DEF Rollback, LosePost, Send, SendFailed, UNCHANGEDtable
<1>3. /\ post' \in PostRequest \cup {None}
      /\ post' # None /\ post'.answer = "ok" => post'.id \in committed
  <2> DEFINE failed == [post EXCEPT !.answer = Failed]
             sent   == [id |-> 0, answer |-> Sent]
  <2>1. post # None => failed \in PostRequest /\ failed.answer = Failed BY <1>0 DEF PostRequest
  <2>2. sent \in PostRequest /\ sent.answer = Sent BY ChatAssumption DEF PostRequest
  <2>3. ASSUME NEW i \in Numbers, post # None, post.answer = Sent
        PROVE  [post EXCEPT !.id = i] \in PostRequest /\ [post EXCEPT !.id = i].answer = Sent
    BY <1>0, <2>3, ChatAssumption DEF PostRequest, Numbers
  <2>4. ASSUME NEW own \in BOOLEAN, Begin(own) 
      PROVE  post' \in PostRequest \cup {None} /\ (post' # None /\ post'.answer = "ok" => post'.id \in committed)
    <3>1. begun + 1 \in Numbers BY <1>0, <2>4, ChatAssumption DEF Begin, Numbers
    <3>2. \/ post' = post
          \/ post # None /\ post.answer = Sent /\ post' = [post EXCEPT !.id = begun + 1]
      BY <2>4 DEF Begin
    <3> QED BY <1>0, <2>3, <3>1, <3>2
  <2>5. ASSUME NEW i \in Numbers, Rollback(i) 
      PROVE  post' \in PostRequest \cup {None} /\ (post' # None /\ post'.answer = "ok" => post'.id \in committed)
    <3>1. post' = post \/ (post # None /\ post' = failed) BY <2>5 DEF Rollback, Own
    <3> QED BY <1>0, <2>1, <3>1
  <2>6. CASE LosePost BY <2>1, <2>6 DEF LosePost
  <2>7. CASE Send BY <2>2, <2>7 DEF Send
  <2>8. CASE SendFailed BY <2>8 DEF SendFailed
  <2> QED BY <2>4, <2>5, <2>6, <2>7, <2>8
<1>4. begun' \in 0..MaxMessage BY <1>0, <1>2
<1>5. ChatTypeOK' BY <1>1, <1>2, <1>3, <1>4 DEF ChatInv, ChatTypeOK
<1>6. committed \subseteq 1..begun' BY <1>0, <1>2
<1>7. Table' /\ Exact' BY <1>1, <1>2, <1>3, <1>6, ThreadStands
<1> QED BY <1>5, <1>7 DEF ChatInv

\* Until mixed, a message that is committed is newer than all that were.
LEMMA StepCommit == ASSUME ChatInv, NEW i \in Numbers, Commit(i) PROVE ChatInv'
<1> USE Words
<1>0. /\ begun \in 0..MaxMessage /\ open \subseteq Numbers /\ committed \subseteq Numbers
      /\ open \cap committed = {} /\ open \cup committed \subseteq 1..begun
      /\ post \in PostRequest \cup {None} /\ mixed \in BOOLEAN
      /\ since \in {0} \cup committed
      /\ post # None /\ post.answer = "ok" => post.id \in committed
  BY DEF ChatInv, ChatTypeOK, Table
<1>1. /\ UNCHANGED <<loading, messages, since, begun, gets>>
      /\ i \in open /\ open' = open \ {i} /\ committed' = committed \cup {i}
      /\ mixed' = (mixed \/ \E j \in committed : j > i)
  BY DEF Commit, UNCHANGEDpage
<1>2. post' \in PostRequest \cup {None} /\ (post' # None /\ post'.answer = "ok" => post'.id \in committed')
  <2>1. CASE Own(i)
    <3>1. PICK a \in {"ok", Failed} : post' = [post EXCEPT !.answer = a] BY <2>1 DEF Commit
    <3>2. post \in PostRequest /\ post.id = i BY <1>0, <2>1 DEF Own
    <3>3. post' \in PostRequest /\ post'.id = i BY <3>1, <3>2 DEF PostRequest
    <3> QED BY <1>1, <3>3
  <2>2. CASE ~Own(i)
    <3>1. post' = post BY <2>2 DEF Commit
    <3> QED BY <1>0, <1>1, <3>1
  <2> QED BY <2>1, <2>2
<1>3. ChatTypeOK' BY <1>0, <1>1, <1>2 DEF ChatInv, ChatTypeOK
<1>4. Table' BY <1>0, <1>1, <1>2 DEF ChatInv, Table
<1>5. ASSUME ~mixed' PROVE Exact'
  <2>1. ~mixed /\ i \notin committed /\ i \in Nat \ {0} BY <1>0, <1>1, <1>5, ChatAssumption DEF Numbers
  <2>2. ASSUME NEW j \in committed PROVE j < i
    <3>1. ~(j > i) BY <1>1, <1>5
    <3>2. j \in Numbers /\ j # i BY <1>0, <2>1
    <3>3. j \in Nat BY <3>2, ChatAssumption DEF Numbers
    <3> QED BY <2>1, <3>1, <3>2, <3>3
  <2>3. since < i /\ ~(i <= since) BY <1>0, <2>1, <2>2
  <2>4. Increasing(messages) /\ ToSet(messages) = {j \in committed : j <= since}
    BY <2>1 DEF ChatInv, Exact
  <2>5. ToSet(messages) = {j \in committed' : j <= since} BY <1>1, <2>3, <2>4
  <2>6. ASSUME NEW s \in 0..MaxMessage, gets[s] # None PROVE s = since /\ Fresh(s)'
    <3>1. s = since /\ Fresh(s) BY <2>1, <2>6 DEF ChatInv, Exact
    <3> DEFINE q == gets[s].items
    <3>2. q \in Seq(Numbers) /\ ToSet(q) \subseteq committed
      BY <2>6 DEF ChatInv, ChatTypeOK, Table, GetRequest
    <3>3. q # <<>> => ~(i <= Last(q))
      <4>1. ASSUME q # <<>> PROVE Last(q) < i BY <2>2, <3>2, <4>1, LastIsNewest
      <4>2. q # <<>> => Last(q) \in Nat BY <3>2, LastIsNewest, ChatAssumption DEF Numbers
      <4> QED BY <2>1, <4>1, <4>2
    <3> QED BY <1>1, <3>1, <3>3 DEF Fresh
  <2> QED BY <1>1, <2>4, <2>5, <2>6 DEF Exact
<1> QED BY <1>3, <1>4, <1>5 DEF ChatInv, Exact

LEMMA StepSendDone == ASSUME ChatInv, SendDone PROVE ChatInv'
<1> USE Words
<1> DEFINE i == post.id
<1>1. /\ post \in PostRequest /\ i \in committed /\ i \in Numbers /\ committed \subseteq Numbers
      /\ messages \in Seq(Numbers) /\ since \in {0} \cup committed /\ mixed \in BOOLEAN
  BY DEF SendDone, ChatInv, ChatTypeOK, Table
<1>2. /\ UNCHANGED <<begun, open, committed, loading, gets>>
      /\ messages' = Append(messages, i) /\ since' = i /\ post' = None
      /\ mixed' = (mixed \/ Disorder(i))
  BY DEF SendDone, UNCHANGEDtable
<1>3. messages' = messages \o <<i>> /\ messages' \in Seq(Numbers) BY <1>1, <1>2
<1>4. mixed' \in BOOLEAN BY <1>1, <1>2 DEF Disorder
<1>5. i \in 0..MaxMessage BY <1>1, ChatAssumption DEF Numbers
<1>6. ChatTypeOK' BY <1>2, <1>3, <1>4, <1>5 DEF ChatInv, ChatTypeOK
<1>7. Table' BY <1>1, <1>2 DEF ChatInv, Table
<1>8. ASSUME ~mixed' PROVE Exact'
  <2>1. ~mixed /\ (\A s \in DOMAIN gets : gets[s] = None) /\ ToSet(messages) = {j \in committed : j < i}
    BY <1>2, <1>8 DEF Disorder
  <2>2. DOMAIN gets = 0..MaxMessage BY DEF ChatInv, ChatTypeOK
  <2>3. Increasing(messages) BY <2>1 DEF ChatInv, Exact
  <2>4. ToSet(<<i>>) = {i} /\ Increasing(<<i>>) /\ <<i>> \in Seq(Numbers) BY <1>1, OneMessage
  <2>5. \A j \in ToSet(messages), k \in ToSet(<<i>>) : j < k BY <2>1, <2>4
  <2> HIDE DEF i
  <2>6. Increasing(messages') BY <1>1, <1>3, <2>3, <2>4, <2>5, JoinedInOrder
  <2>7. ToSet(messages') = {j \in committed : j < i} \cup {i}
    <3>1. ToSet(messages \o <<i>>) = ToSet(messages) \cup ToSet(<<i>>) BY <1>1, <2>4, JoinedSet
    <3> QED BY <1>3, <2>1, <2>4, <3>1
  <2>8. \A j \in committed : j <= i <=> j < i \/ j = i BY <1>1, ChatAssumption DEF Numbers
  <2>9. ToSet(messages') = {j \in committed' : j <= since'} BY <1>1, <1>2, <2>7, <2>8
  <2> QED BY <1>2, <2>1, <2>2, <2>6, <2>9 DEF Exact
<1> QED BY <1>6, <1>7, <1>8 DEF ChatInv, Exact

LEMMA StepChat == ASSUME ChatInv, [ChatNext]_chatVars PROVE ChatInv'
<1>1. CASE UNCHANGED chatVars
  <2>1. UNCHANGED <<messages, since, committed, mixed, open, begun, post, gets, loading>>
    BY <1>1 DEF chatVars
  <2>2. ChatTypeOK' BY <2>1 DEF ChatInv, ChatTypeOK
  <2>3. Table' /\ Exact' BY <2>1, ThreadStands DEF ChatInv, Table
  <2> QED BY <2>2, <2>3 DEF ChatInv
<1> QED BY <1>1, StepAnswerGet, StepGetFails, StepGot, StepPoll, StepQuiet, StepCommit,
           StepSendDone DEF ChatNext, Settle, Handle

LEMMA InitChat == ChatInit => ChatInv
<1> SUFFICES ASSUME ChatInit PROVE ChatInv OBVIOUS
<1>1. gets = [s \in 0..MaxMessage |-> IF s = 0 THEN NewGet(TRUE) ELSE None] BY DEF ChatInit
<1> DEFINE g == NewGet(TRUE)
<1>2. g \in GetRequest /\ g # None /\ g.items = <<>> /\ g.initial /\ g.polls = 0 BY NewGetOK
<1> HIDE DEF g
<1>3. /\ gets = [s \in 0..MaxMessage |-> IF s = 0 THEN g ELSE None]
      /\ 0 \in 0..MaxMessage
  BY <1>1, ChatAssumption DEF g
<1>4. /\ gets \in [0..MaxMessage -> GetRequest \cup {None}] /\ gets[0] = g
      /\ \A s \in 0..MaxMessage : gets[s] # None => s = 0
  BY <1>2, <1>3
<1>5. ChatTypeOK BY <1>3, <1>4, EmptyList DEF ChatInit, ChatTypeOK
<1>6. Table BY <1>2, <1>4, EmptyList DEF ChatInit, Table
<1>7. Fresh(0) BY <1>2, <1>4, EmptyList DEF Fresh
<1>8. Exact BY <1>4, <1>7, EmptyList DEF ChatInit, Exact
<1> QED BY <1>5, <1>6, <1>8 DEF ChatInv

LEMMA InvThread == ChatInv => ThreadExact
BY DEF ChatInv, Exact, ThreadExact

LEMMA AlwaysChatInv == ChatSpec => []ChatInv
<1>1. ChatInv /\ [ChatNext]_chatVars => ChatInv' BY StepChat
<1> QED BY <1>1, InitChat, PTL DEF ChatSpec

\* The state of the chat is well formed.
THEOREM ChatTypeCorrect == ChatSpec => []ChatTypeOK
<1>1. ChatInv => ChatTypeOK BY DEF ChatInv
<1> QED BY <1>1, AlwaysChatInv, PTL

\* The thread is every message up to the cursor, once, in order, for any number of messages and
\* any limit of a page of them: until messages are committed out of order, a poll joins a GET or
\* a sent message overtakes ones that were not fetched. No fairness is needed.
THEOREM ThreadIsExact == ChatSpec => []ThreadExact
BY AlwaysChatInv, InvThread, PTL
=============================================================================
