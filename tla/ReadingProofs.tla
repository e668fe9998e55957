--------------------------- MODULE ReadingProofs ---------------------------
(***************************************************************************)
(* What a read answers, whatever the mail, the requests and the writes     *)
(* around them: the safety properties of module Reading for every value of *)
(* its constants.                                                          *)
(*                                                                         *)
(* The store's half of the invariant is about rows and locks.  A writer    *)
(* that holds a lock is alone with the row and has read what the row says  *)
(* (Locks), so a PATCH that is done can only be undone by another one that *)
(* says so (PatchSticks); labels are those a row came with, or patched     *)
(* (AsArrived); each message is counted by its thread at most once         *)
(* (Tables).                                                               *)
(*                                                                         *)
(* The reader's half says what a read that is not done yet has already     *)
(* committed itself to.  A walk under way has returned every row it must   *)
(* not lose or still has it past its token (Walked), which is what the key *)
(* of a token and the one row more than a page are for; a thread's first   *)
(* query found it in reach (Found); a link ends within TTL of a moment at  *)
(* which its bytes were readable (Links); and where the mount is not there *)
(* for the caller nothing was begun (TurnedAway).                          *)
(***************************************************************************)
EXTENDS Reading, AccessProofs, FiniteSetTheorems, TLAPS

(***************************************************************************)
(* The store.  A row is known once it has been inserted, and stays so when *)
(* it is deleted: ids are not used again.                                  *)
(***************************************************************************)
Known(row) ==
  \/ row \in Threads /\ \A m \in Opens : ThreadOf[m] = row => arrival[m] # "waiting"
  \/ row \in Messages /\ arrival[row] \in {"stored", "done"}

Patched(row) ==
  \E w \in DOMAIN write : write[w].at = "ok" /\ w.op = "update" /\ w.target = row

ThreadRow(row) ==
  row = [labels |-> row.labels, last |-> row.last, stamp |-> row.stamp, count |-> row.count,
         subject |-> row.subject, updated |-> row.updated]

(* The messages a thread may have counted.                                 *)
Counted(t) ==
  {m \in Messages : /\ ThreadOf[m] = t
                    /\ arrival[m] = "done" \/ (m \in Opens /\ arrival[m] # "waiting")}

Tables ==
  /\ DOMAIN threads \subseteq Threads /\ DOMAIN messages \subseteq Messages
  /\ \A t \in DOMAIN threads :
       /\ ThreadRow(threads[t])
       /\ threads[t].last \in Messages /\ ThreadOf[threads[t].last] = t
       /\ threads[t].stamp \in Nat /\ threads[t].subject \in Opens
       /\ threads[t].count \in 1..Cardinality(Counted(t))
  /\ \A m \in DOMAIN messages : ThreadOf[m] \in DOMAIN threads

Arrivals ==
  /\ arrival \in [Messages -> {"waiting", "placed", "stored", "done", "failed"}]
  /\ \A m \in Opens : arrival[m] # "stored"
  /\ \A row \in DOMAIN threads \cup DOMAIN messages : Known(row)

Writes ==
  /\ DOMAIN write \in Crowds
  /\ \A w \in DOMAIN write :
       /\ write[w] = [at |-> write[w].at, read |-> write[w].read]
       /\ write[w].at \in {"idle", "holding", "ok", "not_found", "forbidden", "refused"}
       /\ write[w].at \in {"holding", "ok"} =>
            Known(w.target) /\ InReach(w.scope, w.mount, PlaceOf(w.target))

(* Who holds a row's lock is alone with it, and what was read under the    *)
(* lock is what the row says.                                              *)
Locks ==
  \A w \in DOMAIN write : write[w].at = "holding" =>
    /\ w.op = "update" /\ Exists(w.target) /\ write[w].read = LabelsOf(w.target)
    /\ \A v \in DOMAIN write \ {w} : write[v].at = "holding" => v.target # w.target

(* Only a PATCH parts a message from the labels it came with, or a thread  *)
(* from those of the message that opened it.                               *)
AsArrived ==
  /\ \A t \in DOMAIN threads : threads[t].last \in Opens =>
       threads[t].labels = Arrives[threads[t].last] \/ Patched(t)
  /\ \A m \in DOMAIN messages : messages[m] = Arrives[m] \/ Patched(m)

StoreInv == Tables /\ Arrivals /\ Writes /\ Locks /\ PatchSticks /\ AsArrived

(***************************************************************************)
(* The reader.                                                             *)
(***************************************************************************)
Blobs == {BlobOf[m] : m \in Messages}

Shape ==
  /\ request \in Requests /\ clock \in 0..MaxClock
  /\ reader = [at |-> reader.at, answer |-> reader.answer, rows |-> reader.rows,
               cursor |-> reader.cursor, body |-> reader.body, link |-> reader.link,
               clock |-> reader.clock]
  /\ reader.at \in {"start", "walking", "members", "linked", "done"}
  /\ reader.at = "start" => reader = Idle
  /\ reader.at = "walking" => request.op \in Lists
  /\ reader.at = "members" => request.op = "get_thread" /\ reader.answer = "none"
  /\ reader.at = "linked" => request.op \in {"raw", "attachment"} /\ reader.answer = "ok"

Found ==
  /\ \A item \in reader.rows : InReach(request.scope, item.mount, PlaceOf(item.row))
  /\ request.op \notin Lists
       /\ (reader.at \in {"members", "linked"} \/ reader.answer \in {"ok", "bytes"}) =>
       InReach(request.scope, request.mount, PlaceOf(request.target))

(* At a mount that is not there for the caller, nothing was ever begun.    *)
TurnedAway ==
  ~MountVisible(request, request.mount) =>
    \/ reader.at = "start"
    \/ Done /\ reader.rows = {} /\ reader.answer = "not_found"
    \/ /\ Done /\ reader.rows = {} /\ reader.answer = "forbidden"
       /\ request.mount.kind = "pod" /\ request.op \notin Lists
       /\ ~RuledOut(request.scope, request.mount)

(* Of the rows a walk must not lose each was returned or lies past the     *)
(* token.                                                                  *)
Walked ==
  /\ reader.at = "start" => steady = {}
  /\ reader.at = "walking" /\ request.then = request.mount =>
       /\ steady \subseteq Matching(request, request.mount)
       /\ reader.cursor.key \in Nat \X Nat
       /\ \A row \in steady :
            \/ \E item \in reader.rows : item.row = row
            \/ PastToken(request, reader.cursor, row)
  /\ WalkComplete

Bodied ==
  /\ reader.at = "members" =>
       /\ ThreadRow(reader.body) /\ reader.body.last \in Messages
       /\ ThreadOf[reader.body.last] = request.target /\ reader.body.subject \in Opens
  /\ BodyHonest

(* A link dies within TTL of a moment at which its bytes were readable.    *)
Links ==
  /\ readable \in [Blobs -> Int]
  /\ \A blob \in Blobs : readable[blob] <= clock
  /\ reader.at = "linked" =>
       /\ reader.link.blob \in Blobs /\ reader.link.expires \in Int
       /\ readable[reader.link.blob] >= 0
       /\ reader.link.expires <= readable[reader.link.blob] + TTL
  /\ reader.answer = "bytes" => reader.body \in Blobs /\ reader.clock \in Int
  /\ BytesWereReadable

ReaderInv == Shape /\ Found /\ TurnedAway /\ Walked /\ ListHidesOpeners /\ Bodied /\ Links

IInv == StoreInv /\ ReaderInv

(***************************************************************************)
(* Finite sets in a strict order R: the last element, and the first n.     *)
(***************************************************************************)
Orders(R, S) ==
  /\ \A x \in S : <<x, x>> \notin R
  /\ \A x, y \in S : x # y => <<x, y>> \in R \/ <<y, x>> \in R
  /\ \A x, y, z \in S : <<x, y>> \in R /\ <<y, z>> \in R => <<x, z>> \in R

Ahd(R, S, x) == {y \in S : <<y, x>> \in R}
FirstOf(R, S, n) == {x \in S : Cardinality(Ahd(R, S, x)) < n}

(* A finite set that is not empty has a first and a last element.          *)
LEMMA HasFirst ==
  ASSUME NEW R, NEW S, IsFiniteSet(S), S # {}, Orders(R, S)
  PROVE  \E x \in S : \A y \in S \ {x} : <<x, y>> \in R
<1> DEFINE T == {Ahd(R, S, x) : x \in S}
<1>1. IsWellFoundedOn(StrictSubsetOrdering(S), FiniteSubsetsOf(S))
  BY FS_StrictSubsetOrderingWellFounded
<1>2. T \subseteq FiniteSubsetsOf(S) /\ T # {}
  <2>1. ASSUME NEW x \in S
        PROVE  Ahd(R, S, x) \in FiniteSubsetsOf(S)
    <3>1. Ahd(R, S, x) \in SUBSET S
      BY DEF Ahd
    <3> QED BY <3>1, FS_Subset DEF FiniteSubsetsOf
  <2> QED BY <2>1
<1>3. PICK U \in T : \A V \in T : ~ (<<V, U>> \in StrictSubsetOrdering(S))
  BY <1>1, <1>2, WFMin
<1>4. PICK x \in S : U = Ahd(R, S, x)
  BY <1>3
<1>5. ASSUME NEW y \in S \ {x}
      PROVE  <<x, y>> \in R
  <2>1. SUFFICES ASSUME <<y, x>> \in R
                 PROVE  FALSE
    BY <1>5 DEF Orders
  <2>2. Ahd(R, S, y) \subseteq Ahd(R, S, x) /\ y \in Ahd(R, S, x) /\ y \notin Ahd(R, S, y)
    BY <1>5, <2>1 DEF Orders, Ahd
  <2>3. <<Ahd(R, S, y), U>> \in StrictSubsetOrdering(S)
    BY <1>4, <2>2, <1>2 DEF StrictSubsetOrdering, Ahd
  <2>4. Ahd(R, S, y) \in T
    OBVIOUS
  <2> QED BY <1>3, <2>3, <2>4
<1> QED BY <1>5

(* A last element is a first one of the order read backwards.              *)
LEMMA HasLast ==
  ASSUME NEW R, NEW S, IsFiniteSet(S), S # {}, Orders(R, S)
  PROVE  \E x \in S : \A y \in S \ {x} : <<y, x>> \in R
<1> DEFINE Back == {p \in S \X S : <<p[2], p[1]>> \in R}
<1>1. \A x, y \in S : <<x, y>> \in Back <=> <<y, x>> \in R
  OBVIOUS
<1>2. Orders(Back, S)
  <2> HIDE DEF Back
  <2> QED BY <1>1 DEF Orders
<1>3. PICK x \in S : \A y \in S \ {x} : <<x, y>> \in Back
  <2> HIDE DEF Back
  <2> QED BY <1>2, HasFirst
<1> QED BY <1>1, <1>3

(* What is not among the first n comes after all that is.                  *)
LEMMA RestIsBehind ==
  ASSUME NEW R, NEW S, IsFiniteSet(S), Orders(R, S), NEW n \in Nat,
         NEW x \in FirstOf(R, S, n), NEW y \in S, y \notin FirstOf(R, S, n)
  PROVE  <<x, y>> \in R
<1>1. x \in S /\ x # y
  BY DEF FirstOf
<1>2. SUFFICES ASSUME <<y, x>> \in R
               PROVE  FALSE
  BY <1>1 DEF Orders
<1>3. Ahd(R, S, x) \in SUBSET S /\ Ahd(R, S, y) \in SUBSET Ahd(R, S, x)
  BY <1>1, <1>2 DEF Orders, Ahd
<1>4. IsFiniteSet(Ahd(R, S, x)) /\ IsFiniteSet(Ahd(R, S, y))
  BY <1>3, FS_Subset
<1>5. Cardinality(Ahd(R, S, y)) <= Cardinality(Ahd(R, S, x))
  BY <1>3, <1>4, FS_Subset
<1>6. Cardinality(Ahd(R, S, y)) \in Nat /\ Cardinality(Ahd(R, S, x)) \in Nat
  BY <1>4, FS_CardinalityType
<1> QED BY <1>5, <1>6 DEF FirstOf

(* The first n of a set that is not empty are some, if n is not 0.         *)
LEMMA SomeAreFirst ==
  ASSUME NEW R, NEW S, IsFiniteSet(S), S # {}, Orders(R, S), NEW n \in Nat, n # 0
  PROVE  FirstOf(R, S, n) # {}
<1>1. PICK x \in S : \A y \in S \ {x} : <<x, y>> \in R
  BY HasFirst
<1>2. Ahd(R, S, x) = {}
  BY <1>1 DEF Orders, Ahd
<1>3. x \in FirstOf(R, S, n)
  BY <1>2, FS_EmptySet DEF FirstOf
<1> QED BY <1>3

(* Fetching one more than n tells whether there is more: if the first n    *)
(* of the first n + 1 are all of these, they are all there are.            *)
LEMMA OneMoreTells ==
  ASSUME NEW R, NEW S, IsFiniteSet(S), Orders(R, S), NEW n \in Nat,
         FirstOf(R, FirstOf(R, S, n + 1), n) = FirstOf(R, S, n + 1)
  PROVE  FirstOf(R, S, n + 1) = S
<1> DEFINE F == FirstOf(R, S, n + 1)
<1>1. F \in SUBSET S
  BY DEF FirstOf
<1>2. SUFFICES ASSUME S \ F # {}
               PROVE  FALSE
  BY <1>1
<1>3. IsFiniteSet(F) /\ IsFiniteSet(S \ F) /\ Orders(R, F) /\ Orders(R, S \ F)
  <2>1. S \ F \in SUBSET S
    OBVIOUS
  <2>2. IsFiniteSet(F) /\ IsFiniteSet(S \ F)
    <3> HIDE DEF F
    <3> QED BY <1>1, <2>1, FS_Subset
  <2> HIDE DEF F
  <2> QED BY <1>1, <2>2 DEF Orders
<1>4. PICK y \in S \ F : \A z \in (S \ F) \ {y} : <<y, z>> \in R
  <2> HIDE DEF F
  <2> QED BY <1>2, <1>3, HasFirst
<1>5. F # {}
  <2>1. n + 1 \in Nat /\ n + 1 # 0 /\ S # {}
    BY <1>2
  <2> QED BY <2>1, SomeAreFirst
<1>6. \A z \in F : <<z, y>> \in R
  <2>1. n + 1 \in Nat
    OBVIOUS
  <2> QED BY <1>4, <2>1, RestIsBehind
<1>7. Ahd(R, S, y) = F
  <2> HIDE DEF F
  <2> QED BY <1>1, <1>4, <1>6 DEF Orders, Ahd
<1>8. Cardinality(F) \in Nat /\ ~(Cardinality(F) < n + 1)
  <2>1. ~(Cardinality(Ahd(R, S, y)) < n + 1)
    BY <1>4 DEF FirstOf
  <2>2. Cardinality(F) \in Nat
    <3> HIDE DEF F
    <3> QED BY <1>3, FS_CardinalityType
  <2> HIDE DEF F
  <2> QED BY <1>7, <2>1, <2>2
<1>9. PICK h \in F : \A z \in F \ {h} : <<z, h>> \in R
  <2> HIDE DEF F
  <2> QED BY <1>3, <1>5, HasLast
<1>10. Ahd(R, F, h) = F \ {h}
  <2> HIDE DEF F
  <2> QED BY <1>3, <1>9 DEF Orders, Ahd
<1>11. Cardinality(Ahd(R, F, h)) = Cardinality(F) - 1
  <2> HIDE DEF F
  <2> QED BY <1>3, <1>9, <1>10, FS_RemoveElement
<1>12. Cardinality(Ahd(R, F, h)) < n
  <2>1. h \in FirstOf(R, F, n)
    BY <1>9
  <2> QED BY <2>1 DEF FirstOf
<1> HIDE DEF F
<1> QED BY <1>8, <1>11, <1>12

(***************************************************************************)
(* A page in those terms.                                                  *)
(***************************************************************************)
Keyed(r, S) ==
  /\ \A x \in S : Key(r, x) \in Nat \X Nat
  /\ \A x, y \in S : Key(r, x) = Key(r, y) => x = y

InWalk(r, S) == {p \in S \X S : Ahead(r, Key(r, p[1]), Key(r, p[2]))}

(* Keys are ordered strictly and totally, ascending ...                    *)
LEMMA BeforeIsStrict ==
  /\ \A a \in Nat \X Nat : ~Before(a, a)
  /\ \A a, b \in Nat \X Nat : a # b => Before(a, b) \/ Before(b, a)
  /\ \A a, b, c \in Nat \X Nat : Before(a, b) /\ Before(b, c) => Before(a, c)
<1>1. \A a \in Nat \X Nat : ~Before(a, a)
  BY DEF Before
<1>2. ASSUME NEW a \in Nat \X Nat, NEW b \in Nat \X Nat, a # b
      PROVE  Before(a, b) \/ Before(b, a)
  <2>1. a[1] \in Nat /\ a[2] \in Nat /\ b[1] \in Nat /\ b[2] \in Nat
    OBVIOUS
  <2>2. a[1] # b[1] \/ a[2] # b[2]
    BY <1>2
  <2> QED BY <2>1, <2>2 DEF Before
<1>3. ASSUME NEW a \in Nat \X Nat, NEW b \in Nat \X Nat, NEW c \in Nat \X Nat,
             Before(a, b), Before(b, c)
      PROVE  Before(a, c)
  BY <1>3 DEF Before
<1> QED BY <1>1, <1>2, <1>3

(* ... and in either direction of a walk.                                  *)
LEMMA AheadIsStrict ==
  ASSUME NEW r
  PROVE  /\ \A a \in Nat \X Nat : ~Ahead(r, a, a)
         /\ \A a, b \in Nat \X Nat : a # b => Ahead(r, a, b) \/ Ahead(r, b, a)
         /\ \A a, b, c \in Nat \X Nat : Ahead(r, a, b) /\ Ahead(r, b, c) => Ahead(r, a, c)
  BY BeforeIsStrict DEF Ahead

(* Rows with keys of their own stand in a strict total order, and a page   *)
(* is a beginning of it.                                                   *)
LEMMA WalkOrders ==
  ASSUME NEW r, NEW S, Keyed(r, S)
  PROVE  /\ Orders(InWalk(r, S), S)
         /\ \A n : Foremost(r, S, n) = FirstOf(InWalk(r, S), S, n)
<1>1. \A x, y \in S : <<x, y>> \in InWalk(r, S) <=> Ahead(r, Key(r, x), Key(r, y))
  BY DEF InWalk
<1>2. Orders(InWalk(r, S), S)
  BY <1>1, AheadIsStrict DEF Orders, Keyed
<1>3. ASSUME NEW n
      PROVE  Foremost(r, S, n) = FirstOf(InWalk(r, S), S, n)
  <2>1. \A x \in S : {other \in S : Ahead(r, Key(r, other), Key(r, x))}
                       = Ahd(InWalk(r, S), S, x)
    BY <1>1 DEF Ahd
  <2> QED BY <2>1 DEF Foremost, FirstOf
<1> QED BY <1>2, <1>3

(* The row a token names is the last of its page.                          *)
LEMMA HindmostIsLast ==
  ASSUME NEW r, NEW S, IsFiniteSet(S), S # {}, Keyed(r, S)
  PROVE  /\ Hindmost(r, S) \in S
         /\ \A x \in S \ {Hindmost(r, S)} : Ahead(r, Key(r, x), Key(r, Hindmost(r, S)))
<1>1. PICK h \in S : \A x \in S \ {h} : <<x, h>> \in InWalk(r, S)
  BY WalkOrders, HasLast
<1>2. \A x \in S \ {h} : Ahead(r, Key(r, x), Key(r, h))
  BY <1>1 DEF InWalk
<1> QED BY <1>2 DEF Hindmost

(* A page of n rows, when n + 1 were asked for: with no row left over it   *)
(* has all there are; with one left over it has some row, and whatever it  *)
(* has not lies past its last.                                             *)
LEMMA PageIsPrefix ==
  ASSUME NEW r, NEW S, IsFiniteSet(S), Keyed(r, S), NEW n \in Nat, n # 0,
         NEW found, found = Foremost(r, S, n + 1),
         NEW items, items = Foremost(r, found, n)
  PROVE  /\ items \subseteq S
         /\ found = items => items = S
         /\ found # items =>
              /\ Hindmost(r, items) \in items
              /\ \A x \in S \ items : Ahead(r, Key(r, Hindmost(r, items)), Key(r, x))
<1>1. found \in SUBSET S /\ items \in SUBSET found
  BY DEF Foremost
<1>2. IsFiniteSet(found) /\ IsFiniteSet(items) /\ Keyed(r, found) /\ Keyed(r, items)
  <2>1. IsFiniteSet(found)
    BY <1>1, FS_Subset
  <2>2. IsFiniteSet(items)
    BY <1>1, <2>1, FS_Subset
  <2> QED BY <1>1, <2>1, <2>2 DEF Keyed
<1>3. found = FirstOf(InWalk(r, S), S, n + 1) /\ items = FirstOf(InWalk(r, found), found, n)
  BY <1>2, WalkOrders
<1>4. FirstOf(InWalk(r, found), found, n) = FirstOf(InWalk(r, S), found, n)
  <2>1. \A x \in found : Ahd(InWalk(r, found), found, x) = Ahd(InWalk(r, S), found, x)
    BY <1>1 DEF Ahd, InWalk
  <2> QED BY <2>1 DEF FirstOf
<1>5. Orders(InWalk(r, S), S) /\ Orders(InWalk(r, found), found)
  BY <1>2, WalkOrders
<1>6. ASSUME found = items
      PROVE  items = S
  <2>1. FirstOf(InWalk(r, S), FirstOf(InWalk(r, S), S, n + 1), n)
          = FirstOf(InWalk(r, S), S, n + 1)
    BY <1>3, <1>4, <1>6
  <2>2. FirstOf(InWalk(r, S), S, n + 1) = S
    BY <1>5, <2>1, OneMoreTells
  <2> QED BY <1>3, <1>6, <2>2
<1>7. ASSUME found # items
      PROVE  /\ Hindmost(r, items) \in items
             /\ \A x \in S \ items : Ahead(r, Key(r, Hindmost(r, items)), Key(r, x))
  <2>1. found # {}
    BY <1>1, <1>7
  <2>2. items # {}
    BY <1>2, <1>3, <1>5, <2>1, SomeAreFirst
  <2>3. Hindmost(r, items) \in items
    BY <1>2, <2>2, HindmostIsLast
  <2>4. ASSUME NEW x \in S \ items
        PROVE  Ahead(r, Key(r, Hindmost(r, items)), Key(r, x))
    <3> DEFINE h == Hindmost(r, items)
    <3>1. CASE x \in found
      <4>1. <<h, x>> \in InWalk(r, found)
        <5> HIDE DEF h
        <5> QED BY <1>2, <1>3, <1>5, <2>3, <2>4, <3>1, RestIsBehind DEF h
      <4> QED BY <4>1 DEF InWalk
    <3>2. CASE x \notin found
      <4>1. n + 1 \in Nat /\ h \in found
        BY <1>1, <2>3
      <4>2. <<h, x>> \in InWalk(r, S)
        BY <1>3, <1>5, <2>4, <3>2, <4>1, RestIsBehind
      <4> QED BY <4>2 DEF InWalk
    <3> QED BY <3>1, <3>2
  <2> QED BY <2>3, <2>4
<1> QED BY <1>1, <1>6, <1>7

(***************************************************************************)
(* Gates, windows and labels.                                              *)

(***************************************************************************)
(* What passes the gate at a mount was not ruled out there.                *)
LEMMA VerdictRulesOut ==
  ASSUME NEW r, NEW mount, MountVerdict(r, mount) # "denied"
  PROVE  ~RuledOut(r.scope, mount)
<1>1. SUFFICES ASSUME RuledOut(r.scope, mount)
               PROVE  FALSE
  OBVIOUS
<1>2. CASE mount.kind = "pod" /\ r.op \notin Lists
  BY <1>1, <1>2 DEF MountVerdict, window_for_pod_own_resource
<1>3. CASE ~(mount.kind = "pod" /\ r.op \notin Lists)
  <2>1. Resolve(r.scope, mount).verdict = "denied"
    BY <1>1 DEF Resolve, RuledOut, Proven
  <2> QED BY <1>3, <2>1 DEF MountVerdict, SettleMount
<1> QED BY <1>2, <1>3

(* The same of the gate as a whole.                                        *)
LEMMA OpenGate ==
  ASSUME NEW r, NEW mount, NEW flag, Gate(r, mount, flag) # "not_found"
  PROVE  MountVerdict(r, mount) # "denied" /\ ~RuledOut(r.scope, mount)
<1>1. MountVerdict(r, mount) # "denied"
  BY DEF Gate
<1> QED BY <1>1, VerdictRulesOut

(* A place that the window of an open mount admits is within reach.        *)
LEMMA AdmittedIsInReach ==
  ASSUME NEW scope, NEW mount, NEW place, Scoped(scope), Mounted(mount),
         ~RuledOut(scope, mount), WindowAdmits(Narrowed(scope, mount), place)
  PROVE  InReach(scope, mount, place) /\ WindowAdmits(scope, place)
<1>1. mount \in {OrgMount, PodMount(mount.id), InboxMount(mount.id)}
  BY DEF Mounted
<1>2. LET window == Narrowed(scope, mount) IN
      /\ Inside(window, scope)
      /\ mount.kind = "pod" => window.pod = mount.id
      /\ mount.kind = "inbox" => window.inbox = mount.id
  <2>1. ASSUME NEW org, NEW pod, NEW inbox, scope = Place(org, pod, inbox)
        PROVE  LET window == Narrowed(scope, mount) IN
               /\ Inside(window, scope)
               /\ mount.kind = "pod" => window.pod = mount.id
               /\ mount.kind = "inbox" => window.inbox = mount.id
    BY <1>1, <2>1, MountOnlyNarrows
  <2> QED BY <2>1 DEF Scoped
<1>3. Inside(place, scope) /\ WindowAdmits(scope, place)
  BY <1>2, AdmittedIsInside
<1>4. mount.kind \in {"pod", "inbox"} => mount.id # None
  BY DEF Mounted, OrgMount
<1> QED BY <1>2, <1>3, <1>4 DEF InReach, WindowAdmits, Within1

(* What a query leaves out and what redaction hides are the same items.    *)
LEMMA QueryHidesTheSame ==
  ASSUME NEW labels, NEW access
  PROVE  Admits(labels, access) <=> labels \cap ExcludedLabels(access) = {}
<1>1. \A l : Admits({l}, access) <=>
               AllowsLabelRead(access.grants, l) /\ ({l} \cap Restricted) \ access.asked = {}
  BY DEF Admits, Admit
<1>2. Admits(labels, access) <=>
        /\ \A l \in labels : AllowsLabelRead(access.grants, l)
        /\ (labels \cap Restricted) \ access.asked = {}
  BY DEF Admits, Admit
<1>3. \A l : ~AllowsLabelRead(access.grants, l) => l \in Restricted
  BY DEF AllowsLabelRead
<1> QED BY <1>1, <1>2, <1>3 DEF ExcludedLabels

(* Labels that are each admitted are admitted together.                    *)
LEMMA StrippedIsAdmitted ==
  ASSUME NEW labels, NEW access
  PROVE  Admits({l \in labels : Admits({l}, access)}, access)
<1>1. {l \in labels : Admits({l}, access)} \cap ExcludedLabels(access) = {}
  BY DEF ExcludedLabels
<1> QED BY <1>1, QueryHidesTheSame

(***************************************************************************)
(* Letters keep the store's invariant.                                     *)
(***************************************************************************)
(* Sets of messages are finite, and a larger one counts more.              *)
LEMMA SomeMessages ==
  ASSUME NEW A \in SUBSET Messages, NEW B \in SUBSET Messages, A \subseteq B
  PROVE  /\ IsFiniteSet(A) /\ IsFiniteSet(B)
         /\ Cardinality(A) \in Nat /\ Cardinality(B) \in Nat
         /\ Cardinality(A) <= Cardinality(B)
         /\ A # B => Cardinality(A) + 1 <= Cardinality(B)
<1>1. IsFiniteSet(A) /\ IsFiniteSet(B)
  BY MailAssumption, FS_Subset
<1>2. Cardinality(A) \in Nat /\ Cardinality(B) \in Nat
  BY <1>1, FS_CardinalityType
<1>3. Cardinality(A) <= Cardinality(B) /\ (Cardinality(B) = Cardinality(A) => B = A)
  BY <1>1, FS_Subset
<1> QED BY <1>1, <1>2, <1>3

(* Deliveries only go on.                                                  *)
Onward ==
  \A m \in Messages :
    /\ arrival[m] # "waiting" => arrival'[m] # "waiting"
    /\ arrival[m] \in {"stored", "done"} => arrival'[m] \in {"stored", "done"}

(* What was once inserted stays known.                                     *)
LEMMA KnownStays ==
  ASSUME Onward, NEW row, Known(row)
  PROVE  Known(row)'
  BY MailAssumption DEF Onward, Known

(* A letter's step changes the labels of no row, and what it inserts was   *)
(* not known before.                                                       *)
Inserts ==
  /\ \A row : Exists(row) => Exists(row)' /\ LabelsOf(row)' = LabelsOf(row)
  /\ \A row : Known(row) /\ Exists(row)' => Exists(row)

(* So what the writers read under their locks, and what they wrote, stays  *)
(* as it is.                                                               *)
LEMMA LettersLeaveWrites ==
  ASSUME StoreInv, write' = write, Onward, Inserts
  PROVE  Writes' /\ Locks' /\ PatchSticks' /\ \A row : Patched(row)' <=> Patched(row)
<1>1. Writes'
  <2>1. \A row : Known(row) => Known(row)'
    BY KnownStays
  <2> QED BY <2>1 DEF StoreInv, Writes, PlaceOf, HomeOf
<1>2. Locks'
  BY DEF StoreInv, Locks, Inserts
<1>3. PatchSticks'
  <2> SUFFICES ASSUME NEW w \in DOMAIN write, write[w].at = "ok", w.op = "update",
                      Exists(w.target)'
               PROVE  LET others == {v \in DOMAIN write \ {w} :
                                       v.op = "update" /\ v.target = w.target} IN
                      /\ \A l \in w.add \ w.remove :
                           l \in LabelsOf(w.target)' \/ \E v \in others : l \in v.remove
                      /\ \A l \in w.remove :
                           l \notin LabelsOf(w.target)' \/ \E v \in others : l \in v.add
    BY DEF PatchSticks
  <2>1. Exists(w.target) /\ LabelsOf(w.target)' = LabelsOf(w.target)
    BY DEF StoreInv, Writes, Inserts
  <2> QED BY <2>1 DEF StoreInv, PatchSticks
<1>4. \A row : Patched(row)' <=> Patched(row)
  BY DEF Patched
<1> QED BY <1>1, <1>2, <1>3, <1>4

(* A thread's first insert: the row is new and its labels are those of the *)
(* message that opens it.                                                  *)
LEMMA OpenThreadInv ==
  ASSUME StoreInv, NEW m \in Messages, OpenThread(m), write' = write
  PROVE  StoreInv'
<1> DEFINE t == ThreadOf[m]
           row == [labels |-> Arrives[m], last |-> m, stamp |-> Stamp[m], count |-> 1,
                   subject |-> m, updated |-> m]
<1>1. /\ m \in Opens /\ arrival[m] = "waiting" /\ messages' = messages
      /\ arrival' = [arrival EXCEPT ![m] = "placed"]
      /\ threads' = [k \in DOMAIN threads \cup {t} |-> IF k = t THEN row ELSE threads[k]]
  BY DEF OpenThread, Put
<1>2. t \in Threads /\ t \notin DOMAIN threads
  <2>1. t \in Threads /\ t \notin Messages
    BY MailAssumption
  <2>2. ~Known(t)
    BY <1>1, <2>1 DEF Known
  <2> QED BY <2>1, <2>2 DEF StoreInv, Arrivals
<1>3. /\ DOMAIN threads' = DOMAIN threads \cup {t} /\ threads'[t] = row
      /\ \A k \in DOMAIN threads : threads'[k] = threads[k]
  BY <1>1, <1>2
<1>4. /\ arrival' \in [Messages -> {"waiting", "placed", "stored", "done", "failed"}]
      /\ arrival'[m] = "placed" /\ \A n \in Messages \ {m} : arrival'[n] = arrival[n]
  BY <1>1 DEF StoreInv, Arrivals
<1>5. Onward
  BY <1>1, <1>4 DEF Onward
<1>6. Inserts
  <2>1. ~Known(t)
    BY <1>1, <1>2, MailAssumption DEF Known
  <2> QED BY <1>1, <1>2, <1>3, <2>1, MailAssumption DEF Inserts, Exists, LabelsOf, StoreInv, Tables
<1>7. Writes' /\ Locks' /\ PatchSticks' /\ \A k : Patched(k)' <=> Patched(k)
  BY <1>5, <1>6, LettersLeaveWrites
<1>8. Tables'
  <2>1. ASSUME NEW k \in DOMAIN threads'
        PROVE  /\ ThreadRow(threads'[k])
               /\ threads'[k].last \in Messages /\ ThreadOf[threads'[k].last] = k
               /\ threads'[k].stamp \in Nat /\ threads'[k].subject \in Opens
               /\ threads'[k].count \in 1..Cardinality(Counted(k)')
    <3>1. CASE k = t
      <4>1. m \in Counted(k)' /\ Counted(k)' \in SUBSET Messages
        BY <1>1, <1>4, <3>1 DEF Counted
      <4>2. {m} \in SUBSET Messages /\ {m} \subseteq Counted(k)'
        BY <4>1
      <4>3. Cardinality(Counted(k)') \in Nat /\ 1 <= Cardinality(Counted(k)')
        BY <4>1, <4>2, SomeMessages, FS_Singleton
      <4>4. threads'[k] = row /\ row.last = m /\ row.stamp \in Nat /\ row.subject = m
               /\ row.count = 1
        BY <1>3, <3>1, OrderAssumption
      <4>5. ThreadRow(threads'[k])
        BY <4>4 DEF ThreadRow
      <4> QED BY <1>1, <3>1, <4>3, <4>4, <4>5
    <3>2. CASE k # t
      <4>1. k \in DOMAIN threads /\ threads'[k] = threads[k]
        BY <1>3, <3>2, <2>1
      <4>2. Counted(k)' = Counted(k)
        BY <1>4, <3>2 DEF Counted
      <4> QED BY <4>1, <4>2 DEF StoreInv, Tables
    <3> QED BY <3>1, <3>2
  <2> QED BY <1>1, <1>2, <1>3, <2>1 DEF StoreInv, Tables
<1>9. Arrivals'
  <2>1. Known(t)'
    BY <1>1, <1>2, <1>4, MailAssumption DEF Known
  <2>2. \A k \in DOMAIN threads' \cup DOMAIN messages' : Known(k)'
    BY <1>1, <1>3, <1>5, <2>1, KnownStays DEF StoreInv, Arrivals
  <2>3. \A n \in Opens : arrival'[n] # "stored"
    BY <1>4, MailAssumption DEF StoreInv, Arrivals
  <2> QED BY <1>4, <2>2, <2>3 DEF Arrivals
<1>10. AsArrived'
  BY <1>1, <1>3, <1>7 DEF StoreInv, AsArrived
<1> QED BY <1>7, <1>8, <1>9, <1>10 DEF StoreInv

(* A letter reads the index and joins.                                     *)
LEMMA JoinThreadInv ==
  ASSUME StoreInv, NEW m \in Messages, JoinThread(m), write' = write
  PROVE  StoreInv'
<1>1. /\ m \notin Opens /\ arrival[m] = "waiting" /\ UNCHANGED tables
      /\ arrival' = [arrival EXCEPT ![m] = "placed"]
  BY DEF JoinThread
<1>2. /\ arrival' \in [Messages -> {"waiting", "placed", "stored", "done", "failed"}]
      /\ arrival'[m] = "placed" /\ \A n \in Messages \ {m} : arrival'[n] = arrival[n]
  BY <1>1 DEF StoreInv, Arrivals
<1>3. Onward
  BY <1>1, <1>2 DEF Onward
<1>4. Inserts
  BY <1>1 DEF Inserts, Exists, LabelsOf, tables
<1>5. Writes' /\ Locks' /\ PatchSticks' /\ \A k : Patched(k)' <=> Patched(k)
  BY <1>3, <1>4, LettersLeaveWrites
<1>6. Tables'
  <2>1. \A k : Counted(k)' = Counted(k)
    BY <1>1, <1>2 DEF Counted
  <2> QED BY <1>1, <2>1 DEF StoreInv, Tables, tables
<1>7. Arrivals'
  <2>1. \A k \in DOMAIN threads' \cup DOMAIN messages' : Known(k)'
    BY <1>1, <1>3, KnownStays DEF StoreInv, Arrivals, tables
  <2> QED BY <1>1, <1>2, <2>1, MailAssumption DEF StoreInv, Arrivals
<1>8. AsArrived'
  BY <1>1, <1>5 DEF StoreInv, AsArrived, tables
<1> QED BY <1>5, <1>6, <1>7, <1>8 DEF StoreInv

(* A message's insert finds its thread's row, or fails.                    *)
LEMMA InsertMessageInv ==
  ASSUME StoreInv, NEW m \in Messages, InsertMessage(m), write' = write
  PROVE  StoreInv'
<1>1. arrival[m] = "placed" /\ threads' = threads /\ ~Known(m) /\ m \notin DOMAIN messages
  <2>1. arrival[m] = "placed" /\ threads' = threads
    BY DEF InsertMessage
  <2>2. ~Known(m)
    BY <2>1, MailAssumption DEF Known
  <2> QED BY <2>1, <2>2 DEF StoreInv, Arrivals
<1>2. PICK at \in {"stored", "done", "failed"} :
        /\ arrival' = [arrival EXCEPT ![m] = at]
        /\ m \in Opens => at # "stored"
        /\ \/ /\ at # "failed" /\ ThreadOf[m] \in DOMAIN threads
              /\ messages' = [k \in DOMAIN messages \cup {m} |->
                                IF k = m THEN Arrives[m] ELSE messages[k]]
              /\ (at = "done" <=> m \in Opens)
           \/ at = "failed" /\ messages' = messages
  <2>1. CASE ThreadOf[m] \in DOMAIN threads
    BY <2>1 DEF InsertMessage, Put
  <2>2. CASE ThreadOf[m] \notin DOMAIN threads
    BY <2>2 DEF InsertMessage
  <2> QED BY <2>1, <2>2
<1>3. /\ arrival' \in [Messages -> {"waiting", "placed", "stored", "done", "failed"}]
      /\ arrival'[m] = at /\ \A n \in Messages \ {m} : arrival'[n] = arrival[n]
  BY <1>2 DEF StoreInv, Arrivals
<1>4. Onward
  BY <1>1, <1>2, <1>3 DEF Onward
<1>5. /\ DOMAIN messages' \subseteq DOMAIN messages \cup {m}
      /\ DOMAIN messages \subseteq DOMAIN messages'
      /\ \A k \in DOMAIN messages : messages'[k] = messages[k]
      /\ m \in DOMAIN messages' =>
           messages'[m] = Arrives[m] /\ ThreadOf[m] \in DOMAIN threads /\ at \in {"stored", "done"}
  BY <1>1, <1>2
<1>6. Inserts
  BY <1>1, <1>5, MailAssumption DEF Inserts, Exists, LabelsOf, StoreInv, Tables
<1>7. Writes' /\ Locks' /\ PatchSticks' /\ \A k : Patched(k)' <=> Patched(k)
  BY <1>4, <1>6, LettersLeaveWrites
<1>8. Tables'
  <2>1. ASSUME NEW k \in DOMAIN threads
        PROVE  threads[k].count \in 1..Cardinality(Counted(k)')
    <3>1. Counted(k) \subseteq Counted(k)'
      BY <1>1, <1>2, <1>3 DEF Counted
    <3>2. Counted(k) \in SUBSET Messages /\ Counted(k)' \in SUBSET Messages
      BY DEF Counted
    <3>3. /\ Cardinality(Counted(k)) \in Nat /\ Cardinality(Counted(k)') \in Nat
          /\ Cardinality(Counted(k)) <= Cardinality(Counted(k)')
      BY <3>1, <3>2, SomeMessages
    <3>4. threads[k].count \in 1..Cardinality(Counted(k))
      BY <2>1 DEF StoreInv, Tables
    <3> QED BY <3>3, <3>4
  <2> QED BY <1>1, <1>5, <2>1 DEF StoreInv, Tables
<1>9. Arrivals'
  <2>1. m \in DOMAIN messages' => Known(m)'
    BY <1>3, <1>5 DEF Known
  <2>2. \A k \in DOMAIN threads' \cup DOMAIN messages' : Known(k)'
    BY <1>1, <1>4, <1>5, <2>1, KnownStays DEF StoreInv, Arrivals
  <2> QED BY <1>2, <1>3, <2>2, MailAssumption DEF StoreInv, Arrivals
<1>10. AsArrived'
  BY <1>1, <1>5, <1>7 DEF StoreInv, AsArrived
<1> QED BY <1>7, <1>8, <1>9, <1>10 DEF StoreInv

(* A reply is counted: nothing counted it before, and the labels stay.     *)
LEMMA RecordMemberInv ==
  ASSUME StoreInv, NEW m \in Messages, RecordMember(m), write' = write
  PROVE  StoreInv'
<1> DEFINE t == ThreadOf[m]
<1>1. /\ arrival[m] = "stored" /\ messages' = messages
      /\ arrival' = [arrival EXCEPT ![m] = "done"]
      /\ IF t \in DOMAIN threads
         THEN threads' = [threads EXCEPT ![t] = [threads[t] EXCEPT
                 !.last = m, !.stamp = Stamp[m], !.count = threads[t].count + 1, !.updated = m]]
         ELSE threads' = threads
  BY DEF RecordMember
<1>2. m \notin Opens /\ t \in Threads
  BY <1>1, MailAssumption DEF StoreInv, Arrivals
<1>3. /\ arrival' \in [Messages -> {"waiting", "placed", "stored", "done", "failed"}]
      /\ arrival'[m] = "done" /\ \A n \in Messages \ {m} : arrival'[n] = arrival[n]
  BY <1>1 DEF StoreInv, Arrivals
<1>4. Onward
  BY <1>1, <1>3 DEF Onward
<1>5. /\ DOMAIN threads' = DOMAIN threads
      /\ \A k \in DOMAIN threads \ {t} : threads'[k] = threads[k]
      /\ t \in DOMAIN threads =>
           threads'[t] = [labels |-> threads[t].labels, last |-> m, stamp |-> Stamp[m],
                          count |-> threads[t].count + 1, subject |-> threads[t].subject,
                          updated |-> m]
  <2>1. t \in DOMAIN threads => ThreadRow(threads[t])
    BY DEF StoreInv, Tables
  <2> QED BY <1>1, <2>1 DEF ThreadRow
<1>6. Inserts
  <2>1. \A k \in DOMAIN threads : threads'[k].labels = threads[k].labels
    BY <1>5
  <2>2. \A k \in DOMAIN messages : k \notin Threads
    BY MailAssumption DEF StoreInv, Tables
  <2>3. \A k : Exists(k)' <=> Exists(k)
    BY <1>1, <1>5 DEF Exists
  <2>4. ASSUME NEW k, Exists(k)
        PROVE  LabelsOf(k)' = LabelsOf(k)
    <3>1. CASE k \in Threads
      <4>1. k \in DOMAIN threads
        BY <2>2, <2>4, <3>1 DEF Exists
      <4> QED BY <2>1, <3>1, <4>1 DEF LabelsOf
    <3>2. CASE k \notin Threads
      BY <1>1, <3>2 DEF LabelsOf
    <3> QED BY <3>1, <3>2
  <2> QED BY <2>3, <2>4 DEF Inserts
<1>7. Writes' /\ Locks' /\ PatchSticks' /\ \A k : Patched(k)' <=> Patched(k)
  BY <1>4, <1>6, LettersLeaveWrites
<1>8. Tables'
  <2>1. ASSUME NEW k \in DOMAIN threads'
        PROVE  /\ ThreadRow(threads'[k])
               /\ threads'[k].last \in Messages /\ ThreadOf[threads'[k].last] = k
               /\ threads'[k].stamp \in Nat /\ threads'[k].subject \in Opens
               /\ threads'[k].count \in 1..Cardinality(Counted(k)')
    <3>1. Counted(k) \subseteq Counted(k)'
      BY <1>1, <1>3 DEF Counted
    <3>2. Counted(k) \in SUBSET Messages /\ Counted(k)' \in SUBSET Messages
      BY DEF Counted
    <3>3. /\ Cardinality(Counted(k)) \in Nat /\ Cardinality(Counted(k)') \in Nat
          /\ Cardinality(Counted(k)) <= Cardinality(Counted(k)')
          /\ Counted(k) # Counted(k)' => Cardinality(Counted(k)) + 1 <= Cardinality(Counted(k)')
      BY <3>1, <3>2, SomeMessages
    <3>4. threads[k].count \in 1..Cardinality(Counted(k))
      BY <1>5, <2>1 DEF StoreInv, Tables
    <3>5. CASE k # t
      <4>1. threads[k].count \in 1..Cardinality(Counted(k)')
        BY <3>3, <3>4
      <4> QED BY <1>5, <2>1, <3>5, <4>1 DEF StoreInv, Tables
    <3>6. CASE k = t
      <4>1. m \in Counted(k)' /\ m \notin Counted(k)
        BY <1>1, <1>2, <1>3, <3>6 DEF Counted
      <4>2. threads[k].count + 1 \in 1..Cardinality(Counted(k)')
        BY <3>3, <3>4, <4>1
      <4>3. threads[t].subject \in Opens
        BY <1>5, <2>1, <3>6 DEF StoreInv, Tables
      <4>4. ThreadRow(threads'[k])
        BY <1>5, <2>1, <3>6 DEF ThreadRow
      <4>5. Stamp[m] \in Nat
        BY OrderAssumption
      <4> QED BY <1>5, <2>1, <3>6, <4>2, <4>3, <4>4, <4>5
    <3> QED BY <3>5, <3>6
  <2> QED BY <1>1, <1>5, <2>1 DEF StoreInv, Tables
<1>9. Arrivals'
  <2>1. \A k \in DOMAIN threads' \cup DOMAIN messages' : Known(k)'
    BY <1>1, <1>4, <1>5, KnownStays DEF StoreInv, Arrivals
  <2> QED BY <1>2, <1>3, <2>1, MailAssumption DEF StoreInv, Arrivals
<1>10. AsArrived'
  BY <1>1, <1>2, <1>5, <1>7 DEF StoreInv, AsArrived
<1> QED BY <1>7, <1>8, <1>9, <1>10 DEF StoreInv

(***************************************************************************)
(* The other callers' writes keep it.                                      *)

(***************************************************************************)
(* What a write was let at lies in its credential's reach.                 *)
LEMMA AcceptedInReach ==
  ASSUME StoreInv, NEW w \in DOMAIN write, Accepted(w)
  PROVE  /\ write[w].at = "idle" /\ Exists(w.target) /\ Known(w.target)
         /\ InReach(w.scope, w.mount, PlaceOf(w.target))
<1>1. /\ write[w].at = "idle" /\ Exists(w.target)
      /\ WindowAdmits(Narrowed(w.scope, w.mount), PlaceOf(w.target))
      /\ Gate(w, w.mount, FlagFor(w)) # "not_found"
  BY DEF Accepted, Reaches
<1>2. Scoped(w.scope) /\ Mounted(w.mount)
  BY CallersAssumption DEF StoreInv, Writes
<1>3. ~RuledOut(w.scope, w.mount)
  BY <1>1, OpenGate
<1>4. InReach(w.scope, w.mount, PlaceOf(w.target))
  BY <1>1, <1>2, <1>3, AdmittedIsInReach
<1>5. Known(w.target)
  BY <1>1 DEF Exists, StoreInv, Arrivals
<1> QED BY <1>1, <1>4, <1>5

(* One write moves on; who was done stays done.                            *)
MovesOn(w, row) ==
  /\ row = [at |-> row.at, read |-> row.read]
  /\ row.at \in {"holding", "ok", "not_found", "forbidden", "refused"}
  /\ write[w].at \in {"idle", "holding"}
  /\ row.at \in {"holding", "ok"} => Known(w.target) /\ InReach(w.scope, w.mount, PlaceOf(w.target))
  /\ write' = [write EXCEPT ![w] = row] /\ arrival' = arrival

(* What every such step does to the writes themselves.                     *)
LEMMA MoveWrites ==
  ASSUME StoreInv, NEW w \in DOMAIN write, NEW row, MovesOn(w, row)
  PROVE  /\ Writes' /\ DOMAIN write' = DOMAIN write /\ write'[w] = row
         /\ \A v \in DOMAIN write \ {w} : write'[v] = write[v]
         /\ \A k : Known(k)' <=> Known(k)
         /\ \A k : Patched(k) => Patched(k)'
         /\ \A t : Counted(t)' = Counted(t)
<1>1. /\ DOMAIN write' = DOMAIN write /\ write'[w] = row
      /\ \A v \in DOMAIN write \ {w} : write'[v] = write[v]
  BY DEF MovesOn
<1>2. \A k : Known(k)' <=> Known(k)
  BY DEF MovesOn, Known
<1>3. Writes'
  <2>1. ASSUME NEW v \in DOMAIN write'
        PROVE  /\ write'[v] = [at |-> write'[v].at, read |-> write'[v].read]
               /\ write'[v].at \in {"idle", "holding", "ok", "not_found", "forbidden", "refused"}
               /\ write'[v].at \in {"holding", "ok"} =>
                    Known(v.target)' /\ InReach(v.scope, v.mount, PlaceOf(v.target))
    <3>1. CASE v = w
      BY <1>1, <1>2, <3>1 DEF MovesOn
    <3>2. CASE v # w
      BY <1>1, <1>2, <2>1, <3>2 DEF StoreInv, Writes
    <3> QED BY <3>1, <3>2
  <2> QED BY <1>1, <2>1 DEF StoreInv, Writes, PlaceOf, HomeOf
<1>4. \A k : Patched(k) => Patched(k)'
  BY <1>1 DEF Patched, MovesOn
<1>5. \A t : Counted(t)' = Counted(t)
  BY DEF Counted, MovesOn
<1> QED BY <1>1, <1>2, <1>3, <1>4, <1>5

(* A write that is refused touches nothing.                                *)
LEMMA RefuseWriteInv ==
  ASSUME StoreInv, NEW w \in DOMAIN write, RefuseWrite(w), arrival' = arrival
  PROVE  StoreInv'
<1>1. PICK at \in {"not_found", "forbidden", "refused"} :
        write' = [write EXCEPT ![w] = [at |-> at, read |-> {}]]
  <2>1. Gate(w, w.mount, FlagFor(w)) \in {"ok", "not_found", "forbidden"}
    BY DEF Gate
  <2> QED BY <2>1 DEF RefuseWrite, Settled
<1> DEFINE row == [at |-> at, read |-> {}]
<1>2. MovesOn(w, row) /\ row.at = at /\ write[w].at = "idle" /\ UNCHANGED <<threads, messages>>
  BY <1>1 DEF MovesOn, RefuseWrite, tables
<1> HIDE DEF row
<1>3. /\ Writes' /\ DOMAIN write' = DOMAIN write /\ write'[w].at = at
      /\ \A v \in DOMAIN write \ {w} : write'[v] = write[v]
      /\ \A k : Known(k)' <=> Known(k)
      /\ \A k : Patched(k) => Patched(k)'
      /\ \A t : Counted(t)' = Counted(t)
  BY <1>2, MoveWrites
<1>4. \A k : LabelsOf(k)' = LabelsOf(k) /\ (Exists(k)' <=> Exists(k))
  BY <1>2 DEF LabelsOf, Exists
<1>5. Locks'
  BY <1>1, <1>2, <1>3, <1>4 DEF StoreInv, Locks
<1>6. PatchSticks'
  <2> SUFFICES ASSUME NEW v \in DOMAIN write, write'[v].at = "ok", v.op = "update",
                      Exists(v.target)'
               PROVE  LET others == {u \in DOMAIN write \ {v} :
                                       u.op = "update" /\ u.target = v.target} IN
                      /\ \A l \in v.add \ v.remove :
                           l \in LabelsOf(v.target)' \/ \E u \in others : l \in u.remove
                      /\ \A l \in v.remove :
                           l \notin LabelsOf(v.target)' \/ \E u \in others : l \in u.add
    BY <1>3 DEF PatchSticks
  <2>1. write[v].at = "ok" /\ Exists(v.target) /\ LabelsOf(v.target)' = LabelsOf(v.target)
    BY <1>1, <1>3, <1>4
  <2> QED BY <2>1 DEF StoreInv, PatchSticks
<1>7. Tables' /\ Arrivals' /\ AsArrived'
  <2>1. Tables'
    BY <1>2, <1>3 DEF StoreInv, Tables
  <2>2. Arrivals'
    BY <1>2, <1>3 DEF StoreInv, Arrivals
  <2>3. AsArrived'
    BY <1>2, <1>3 DEF StoreInv, AsArrived
  <2> QED BY <2>1, <2>2, <2>3
<1> QED BY <1>3, <1>5, <1>6, <1>7 DEF StoreInv

(* A PATCH reads the labels under a lock that nobody else holds.           *)
LEMMA ReadLabelsInv ==
  ASSUME StoreInv, NEW w \in DOMAIN write, ReadLabels(w), arrival' = arrival
  PROVE  StoreInv'
<1> DEFINE row == [at |-> "holding", read |-> LabelsOf(w.target)]
<1>1. /\ Accepted(w) /\ w.op = "update" /\ ~Locked(w.target)
      /\ write' = [write EXCEPT ![w] = row] /\ UNCHANGED <<threads, messages>>
  BY DEF ReadLabels, tables
<1>2. /\ write[w].at = "idle" /\ Exists(w.target) /\ Known(w.target)
      /\ InReach(w.scope, w.mount, PlaceOf(w.target))
  BY <1>1, AcceptedInReach
<1>3. MovesOn(w, row) /\ row.at = "holding" /\ row.read = LabelsOf(w.target)
  BY <1>1, <1>2 DEF MovesOn
<1> HIDE DEF row
<1>4. /\ Writes' /\ DOMAIN write' = DOMAIN write
      /\ write'[w].at = "holding" /\ write'[w].read = LabelsOf(w.target)
      /\ \A v \in DOMAIN write \ {w} : write'[v] = write[v]
      /\ \A k : Known(k)' <=> Known(k)
      /\ \A k : Patched(k) => Patched(k)'
      /\ \A t : Counted(t)' = Counted(t)
  BY <1>3, MoveWrites
<1>5. \A k : LabelsOf(k)' = LabelsOf(k) /\ (Exists(k)' <=> Exists(k))
  BY <1>1 DEF LabelsOf, Exists
<1>6. Locks'
  <2>1. ASSUME NEW v \in DOMAIN write, write'[v].at = "holding"
        PROVE  /\ v.op = "update" /\ Exists(v.target)' /\ write'[v].read = LabelsOf(v.target)'
               /\ \A u \in DOMAIN write \ {v} : write'[u].at = "holding" => u.target # v.target
    <3>1. \A u \in DOMAIN write \ {w} : write'[u].at = "holding" =>
            write[u].at = "holding" /\ u.target # w.target
      BY <1>1, <1>4 DEF Locked
    <3>2. CASE v = w
      BY <1>1, <1>2, <1>4, <1>5, <3>1, <3>2
    <3>3. CASE v # w
      <4>1. write[v].at = "holding" /\ write'[v] = write[v] /\ v.target # w.target
        BY <1>4, <2>1, <3>1, <3>3
      <4> QED BY <1>4, <1>5, <3>1, <4>1 DEF StoreInv, Locks
    <3> QED BY <3>2, <3>3
  <2> QED BY <1>4, <2>1 DEF Locks
<1>7. PatchSticks'
  <2> SUFFICES ASSUME NEW v \in DOMAIN write, write'[v].at = "ok", v.op = "update",
                      Exists(v.target)'
               PROVE  LET others == {u \in DOMAIN write \ {v} :
                                       u.op = "update" /\ u.target = v.target} IN
                      /\ \A l \in v.add \ v.remove :
                           l \in LabelsOf(v.target)' \/ \E u \in others : l \in u.remove
                      /\ \A l \in v.remove :
                           l \notin LabelsOf(v.target)' \/ \E u \in others : l \in u.add
    BY <1>4 DEF PatchSticks
  <2>1. write[v].at = "ok" /\ Exists(v.target) /\ LabelsOf(v.target)' = LabelsOf(v.target)
    BY <1>4, <1>5
  <2> QED BY <2>1 DEF StoreInv, PatchSticks
<1>8. Tables' /\ Arrivals' /\ AsArrived'
  <2>1. Tables'
    BY <1>1, <1>4 DEF StoreInv, Tables
  <2>2. Arrivals'
    BY <1>1, <1>4 DEF StoreInv, Arrivals
  <2>3. AsArrived'
    BY <1>1, <1>4 DEF StoreInv, AsArrived
  <2> QED BY <2>1, <2>2, <2>3
<1> QED BY <1>4, <1>6, <1>7, <1>8 DEF StoreInv

(* A PATCH writes what it read, changed: nothing came between, since the   *)
(* lock was its own.                                                       *)
LEMMA WriteLabelsInv ==
  ASSUME StoreInv, NEW w \in DOMAIN write, WriteLabels(w), arrival' = arrival
  PROVE  StoreInv'
<1> DEFINE row == [at |-> "ok", read |-> {}]
           next == (LabelsOf(w.target) \cup w.add) \ w.remove
<1>1. /\ write[w].at = "holding" /\ write' = [write EXCEPT ![w] = row]
      /\ w.op = "update" /\ Exists(w.target) /\ write[w].read = LabelsOf(w.target)
      /\ Known(w.target) /\ InReach(w.scope, w.mount, PlaceOf(w.target))
  BY DEF WriteLabels, Settled, StoreInv, Locks, Writes
<1>2. MovesOn(w, row) /\ row.at = "ok"
  BY <1>1 DEF MovesOn
<1>3. IF w.target \in Threads
      THEN /\ threads' = [threads EXCEPT ![w.target] = [threads[w.target] EXCEPT !.labels = next,
                                                                              !.updated = None]]
           /\ messages' = messages
      ELSE messages' = [messages EXCEPT ![w.target] = next] /\ threads' = threads
  BY <1>1 DEF WriteLabels, ApplyMutation
<1>4. \A k \in DOMAIN messages : k \notin Threads
  BY MailAssumption DEF StoreInv, Tables
<1>5. /\ w.target \in Threads => w.target \in DOMAIN threads
      /\ w.target \notin Threads => w.target \in DOMAIN messages
  BY <1>1, <1>4 DEF Exists, StoreInv, Tables
<1> HIDE DEF row, next
<1>6. /\ Writes' /\ DOMAIN write' = DOMAIN write /\ write'[w].at = "ok"
      /\ \A v \in DOMAIN write \ {w} : write'[v] = write[v]
      /\ \A k : Known(k)' <=> Known(k)
      /\ \A k : Patched(k) => Patched(k)'
      /\ \A t : Counted(t)' = Counted(t)
  BY <1>2, MoveWrites
<1>7. /\ DOMAIN threads' = DOMAIN threads /\ DOMAIN messages' = DOMAIN messages
      /\ \A k \in DOMAIN threads \ {w.target} : threads'[k] = threads[k]
      /\ \A k \in DOMAIN messages \ {w.target} : messages'[k] = messages[k]
      /\ w.target \in Threads =>
           threads'[w.target] = [labels |-> next, last |-> threads[w.target].last,
                                 stamp |-> threads[w.target].stamp,
                                 count |-> threads[w.target].count,
                                 subject |-> threads[w.target].subject, updated |-> None]
      /\ w.target \notin Threads => messages'[w.target] = next
  <2>1. CASE w.target \in Threads
    <3>1. ThreadRow(threads[w.target])
      BY <1>5, <2>1 DEF StoreInv, Tables
    <3> QED BY <1>3, <1>4, <1>5, <2>1, <3>1 DEF ThreadRow
  <2>2. CASE w.target \notin Threads
    BY <1>3, <1>5, <2>2
  <2> QED BY <2>1, <2>2
<1>8. \A k : Exists(k)' <=> Exists(k)
  BY <1>7 DEF Exists
<1>9. LabelsOf(w.target)' = next
  BY <1>5, <1>7 DEF LabelsOf
<1>10. ASSUME NEW k, Exists(k), k # w.target
       PROVE  LabelsOf(k)' = LabelsOf(k)
  <2>1. k \in DOMAIN threads \/ (k \notin Threads /\ k \in DOMAIN messages)
    BY <1>4, <1>10 DEF Exists
  <2>2. k \in DOMAIN threads => k \in Threads
    BY DEF StoreInv, Tables
  <2> QED BY <1>7, <1>10, <2>1, <2>2 DEF LabelsOf
<1>11. Locks'
  <2>1. ASSUME NEW v \in DOMAIN write, write'[v].at = "holding"
        PROVE  /\ v.op = "update" /\ Exists(v.target)' /\ write'[v].read = LabelsOf(v.target)'
               /\ \A u \in DOMAIN write \ {v} : write'[u].at = "holding" => u.target # v.target
    <3>1. v # w /\ write'[v] = write[v]
      BY <1>6, <2>1
    <3>2. /\ v.op = "update" /\ Exists(v.target) /\ write[v].read = LabelsOf(v.target)
          /\ \A u \in DOMAIN write \ {v} : write[u].at = "holding" => u.target # v.target
      BY <2>1, <3>1 DEF StoreInv, Locks
    <3>3. v.target # w.target
      BY <1>1, <3>1, <3>2
    <3> QED BY <1>6, <1>8, <1>10, <3>1, <3>2, <3>3
  <2> QED BY <1>6, <2>1 DEF Locks
<1>12. PatchSticks'
  <2> SUFFICES ASSUME NEW v \in DOMAIN write, write'[v].at = "ok", v.op = "update",
                      Exists(v.target)'
               PROVE  LET others == {u \in DOMAIN write \ {v} :
                                       u.op = "update" /\ u.target = v.target} IN
                      /\ \A l \in v.add \ v.remove :
                           l \in LabelsOf(v.target)' \/ \E u \in others : l \in u.remove
                      /\ \A l \in v.remove :
                           l \notin LabelsOf(v.target)' \/ \E u \in others : l \in u.add
    BY <1>6 DEF PatchSticks
  <2> DEFINE others == {u \in DOMAIN write \ {v} : u.op = "update" /\ u.target = v.target}
  <2>1. CASE v = w
    BY <1>9, <2>1 DEF next
  <2>2. CASE v # w
    <3>1. /\ \A l \in v.add \ v.remove :
               l \in LabelsOf(v.target) \/ \E u \in others : l \in u.remove
          /\ \A l \in v.remove :
               l \notin LabelsOf(v.target) \/ \E u \in others : l \in u.add
      BY <1>6, <1>8, <2>2 DEF StoreInv, PatchSticks
    <3>2. CASE v.target # w.target
      BY <1>8, <1>10, <3>1, <3>2
    <3>3. CASE v.target = w.target
      <4>1. w \in others
        BY <1>1, <2>2, <3>3
      <4> QED BY <1>9, <3>1, <3>3, <4>1 DEF next
    <3> QED BY <3>2, <3>3
  <2> QED BY <2>1, <2>2
<1>13. Tables'
  <2>1. ASSUME NEW k \in DOMAIN threads'
        PROVE  /\ ThreadRow(threads'[k])
               /\ threads'[k].last \in Messages /\ ThreadOf[threads'[k].last] = k
               /\ threads'[k].stamp \in Nat /\ threads'[k].subject \in Opens
               /\ threads'[k].count \in 1..Cardinality(Counted(k)')
    <3>1. k \in DOMAIN threads /\ k \in Threads /\ Counted(k)' = Counted(k)
      BY <1>6, <1>7, <2>1 DEF StoreInv, Tables
    <3>2. /\ ThreadRow(threads'[k]) /\ threads'[k].last = threads[k].last
          /\ threads'[k].stamp = threads[k].stamp /\ threads'[k].count = threads[k].count
          /\ threads'[k].subject = threads[k].subject
      <4>1. CASE k = w.target
        BY <1>7, <3>1, <4>1 DEF ThreadRow
      <4>2. CASE k # w.target
        BY <1>7, <3>1, <4>2 DEF StoreInv, Tables
      <4> QED BY <4>1, <4>2
    <3> QED BY <3>1, <3>2 DEF StoreInv, Tables
  <2> QED BY <1>7, <2>1 DEF StoreInv, Tables
<1>14. Arrivals'
  BY <1>2, <1>6, <1>7 DEF StoreInv, Arrivals, MovesOn
<1>15. AsArrived'
  <2>1. Patched(w.target)'
    BY <1>1, <1>6 DEF Patched
  <2> QED BY <1>6, <1>7, <2>1 DEF StoreInv, AsArrived
<1> QED BY <1>6, <1>11, <1>12, <1>13, <1>14, <1>15 DEF StoreInv

(* A deletion waits for the locks of all it takes away; the rows stay      *)
(* known.                                                                  *)
LEMMA DeleteInv ==
  ASSUME StoreInv, NEW w \in DOMAIN write, Delete(w), arrival' = arrival
  PROVE  StoreInv'
<1> DEFINE row == [at |-> "ok", read |-> {}]
<1>1. Accepted(w) /\ w.op = "delete" /\ write' = [write EXCEPT ![w] = row]
  BY DEF Delete, Settled
<1>2. /\ write[w].at = "idle" /\ Exists(w.target) /\ Known(w.target)
      /\ InReach(w.scope, w.mount, PlaceOf(w.target))
  BY <1>1, AcceptedInReach
<1>3. MovesOn(w, row) /\ row.at = "ok"
  BY <1>1, <1>2 DEF MovesOn
<1> HIDE DEF row
<1>4. /\ Writes' /\ DOMAIN write' = DOMAIN write /\ write'[w].at = "ok"
      /\ \A v \in DOMAIN write \ {w} : write'[v] = write[v]
      /\ \A k : Known(k)' <=> Known(k)
      /\ \A k : Patched(k) => Patched(k)'
      /\ \A t : Counted(t)' = Counted(t)
  BY <1>3, MoveWrites
<1>5. PICK gone \in SUBSET DOMAIN messages, over \in SUBSET DOMAIN threads :
        /\ DOMAIN threads' = DOMAIN threads \ over
        /\ DOMAIN messages' = DOMAIN messages \ gone
        /\ \A k \in DOMAIN threads' : threads'[k] = threads[k]
        /\ \A k \in DOMAIN messages' : messages'[k] = messages[k]
        /\ \A k \in gone \cup over : ~Locked(k)
        /\ \A m \in DOMAIN messages \ gone : ThreadOf[m] \notin over
  <2>1. CASE w.target \in Threads
    <3> DEFINE gone == {m \in DOMAIN messages : ThreadOf[m] = w.target}
               over == {w.target} \cap DOMAIN threads
    <3>1. /\ threads' = [k \in DOMAIN threads \ {w.target} |-> threads[k]]
          /\ messages' = [k \in DOMAIN messages \ gone |-> messages[k]]
          /\ \A k \in gone \cup {w.target} : ~Locked(k)
      BY <2>1 DEF Delete, Keep
    <3>2. gone \in SUBSET DOMAIN messages /\ over \in SUBSET DOMAIN threads
      OBVIOUS
    <3>3. /\ DOMAIN threads' = DOMAIN threads \ over
          /\ \A k \in DOMAIN threads' : threads'[k] = threads[k]
      BY <3>1
    <3>4. /\ DOMAIN messages' = DOMAIN messages \ gone
          /\ \A k \in DOMAIN messages' : messages'[k] = messages[k]
      BY <3>1
    <3>5. \A k \in gone \cup over : ~Locked(k)
      BY <3>1
    <3>6. \A m \in DOMAIN messages \ gone : ThreadOf[m] \notin over
      OBVIOUS
    <3> HIDE DEF gone, over
    <3> QED BY <3>2, <3>3, <3>4, <3>5, <3>6
  <2>2. CASE w.target \notin Threads
    <3> DEFINE gone == {w.target} \cap DOMAIN messages
               over == {w.target} \cap {}
    <3>1. /\ messages' = [k \in DOMAIN messages \ {w.target} |-> messages[k]]
          /\ threads' = threads /\ ~Locked(w.target)
      BY <2>2 DEF Delete, Keep
    <3>2. gone \in SUBSET DOMAIN messages /\ over \in SUBSET DOMAIN threads /\ over = {}
      OBVIOUS
    <3>3. /\ DOMAIN threads' = DOMAIN threads \ over
          /\ \A k \in DOMAIN threads' : threads'[k] = threads[k]
      BY <3>1
    <3>4. /\ DOMAIN messages' = DOMAIN messages \ gone
          /\ \A k \in DOMAIN messages' : messages'[k] = messages[k]
      BY <3>1
    <3>5. \A k \in gone \cup over : ~Locked(k)
      BY <3>1
    <3> HIDE DEF gone, over
    <3> QED BY <3>2, <3>3, <3>4, <3>5
  <2> QED BY <2>1, <2>2
<1>6. \A k : Exists(k)' => Exists(k)
  BY <1>5 DEF Exists
<1>7. \A k \in DOMAIN messages : k \notin Threads
  BY MailAssumption DEF StoreInv, Tables
<1>8. ASSUME NEW k, Exists(k)'
      PROVE  LabelsOf(k)' = LabelsOf(k)
  <2>1. k \in DOMAIN threads' \/ (k \notin Threads /\ k \in DOMAIN messages')
    BY <1>5, <1>7, <1>8 DEF Exists
  <2>2. k \in DOMAIN threads' => k \in Threads
    BY <1>5 DEF StoreInv, Tables
  <2> QED BY <1>5, <2>1, <2>2 DEF LabelsOf
<1>9. Locks'
  <2>1. ASSUME NEW v \in DOMAIN write, write'[v].at = "holding"
        PROVE  /\ v.op = "update" /\ Exists(v.target)' /\ write'[v].read = LabelsOf(v.target)'
               /\ \A u \in DOMAIN write \ {v} : write'[u].at = "holding" => u.target # v.target
    <3>1. v # w /\ write'[v] = write[v]
      BY <1>4, <2>1
    <3>2. /\ v.op = "update" /\ Exists(v.target) /\ write[v].read = LabelsOf(v.target)
          /\ \A u \in DOMAIN write \ {v} : write[u].at = "holding" => u.target # v.target
      BY <2>1, <3>1 DEF StoreInv, Locks
    <3>3. Locked(v.target)
      BY <2>1, <3>1 DEF Locked
    <3>4. Exists(v.target)'
      BY <1>5, <3>2, <3>3 DEF Exists
    <3> QED BY <1>4, <1>8, <3>1, <3>2, <3>4
  <2> QED BY <1>4, <2>1 DEF Locks
<1>10. PatchSticks'
  <2> SUFFICES ASSUME NEW v \in DOMAIN write, write'[v].at = "ok", v.op = "update",
                      Exists(v.target)'
               PROVE  LET others == {u \in DOMAIN write \ {v} :
                                       u.op = "update" /\ u.target = v.target} IN
                      /\ \A l \in v.add \ v.remove :
                           l \in LabelsOf(v.target)' \/ \E u \in others : l \in u.remove
                      /\ \A l \in v.remove :
                           l \notin LabelsOf(v.target)' \/ \E u \in others : l \in u.add
    BY <1>4 DEF PatchSticks
  <2>1. write[v].at = "ok" /\ Exists(v.target) /\ LabelsOf(v.target)' = LabelsOf(v.target)
    BY <1>1, <1>4, <1>6, <1>8
  <2> QED BY <2>1 DEF StoreInv, PatchSticks
<1>11. Tables'
  <2>1. \A m \in DOMAIN messages' : ThreadOf[m] \in DOMAIN threads'
    BY <1>5 DEF StoreInv, Tables
  <2> QED BY <1>4, <1>5, <2>1 DEF StoreInv, Tables
<1>12. Arrivals'
  BY <1>3, <1>4, <1>5 DEF StoreInv, Arrivals, MovesOn
<1>13. AsArrived'
  BY <1>4, <1>5 DEF StoreInv, AsArrived
<1> QED BY <1>4, <1>9, <1>10, <1>11, <1>12, <1>13 DEF StoreInv

(***************************************************************************)
(* Whatever leaves the reader where it is keeps the reader's invariant.    *)
(***************************************************************************)
(* The moment at which bytes were last readable only grows.                *)
LEMMA ReadableGrows ==
  ASSUME Links, clock \in 0..MaxClock, clock' \in 0..MaxClock, clock <= clock', WatchBlobs
  PROVE  /\ readable' \in [Blobs -> Int]
         /\ \A blob \in Blobs : readable[blob] <= readable'[blob] /\ readable'[blob] <= clock'
<1>1. /\ readable \in [Blobs -> Int] /\ \A blob \in Blobs : readable[blob] <= clock
      /\ clock \in Int /\ clock' \in Int
  BY OrderAssumption DEF Links
<1>2. CASE readable' = readable
  BY <1>1, <1>2
<1>3. CASE readable' = [b \in DOMAIN readable |-> IF ReadableNow(b) THEN clock ELSE readable[b]]
  <2>1. readable' = [b \in Blobs |-> IF ReadableNow(b) THEN clock ELSE readable[b]]
    BY <1>1, <1>3
  <2>2. ASSUME NEW b \in Blobs
        PROVE  readable'[b] \in Int /\ readable[b] <= readable'[b] /\ readable'[b] <= clock'
    <3>1. readable'[b] = IF ReadableNow(b) THEN clock ELSE readable[b]
      BY <2>1, <2>2
    <3>2. readable[b] \in Int /\ readable[b] <= clock
      BY <1>1, <2>2
    <3> QED BY <1>1, <3>1, <3>2
  <2> QED BY <2>1, <2>2
<1> QED BY <1>2, <1>3 DEF WatchBlobs

(* A row ahead of the token stays ahead unless it is moved back.           *)
LEMMA AheadStays ==
  ASSUME NEW r, NEW c \in Nat \X Nat, NEW s \in Nat, NEW t \in Nat, NEW o \in Nat,
         Ahead(r, c, <<s, o>>),
         t # s => ~(direction_for(r.ascending) = "ascending" <=> t < s)
  PROVE  Ahead(r, c, <<t, o>>)
<1>1. c[1] \in Nat /\ c[2] \in Nat
  OBVIOUS
<1>2. CASE direction_for(r.ascending) = "ascending"
  BY <1>1, <1>2 DEF Ahead, Before
<1>3. CASE direction_for(r.ascending) # "ascending"
  BY <1>1, <1>3 DEF Ahead, Before
<1> QED BY <1>2, <1>3

(* A token made from a key is not the empty one.                           *)
LEMMA KeysAreTokens ==
  ASSUME NEW key \in Nat \X Nat, NEW inbox
  PROVE  [key |-> key, inbox |-> inbox] # NoToken /\ \A token : token.key = key => token # NoToken
<1>1. PICK a \in Nat, b \in Nat : key = <<a, b>>
  OBVIOUS
<1>2. DOMAIN key = 1..2 /\ DOMAIN <<>> = 1..0
  BY <1>1
<1>3. key # <<>>
  BY <1>2
<1> QED BY <1>3 DEF NoToken

(* A walk waits while the store moves: a row it must not lose stays ahead  *)
(* of its token.                                                           *)
LEMMA WalkGoesOn ==
  ASSUME Tables, Tables', Shape, Walked, WatchWalk, reader' = reader, request' = request
  PROVE  Walked'
<1>1. CASE reader.at \in {"start", "members", "linked", "done"}
  <2>1. steady' = steady
    BY <1>1 DEF WatchWalk
  <2> QED BY <1>1, <2>1 DEF Walked, WalkComplete, Done
<1>2. CASE reader.at = "walking"
  <2>1. steady' = {row \in steady : ~MovedBack(row)} \cap Matching(request, request.mount)'
    BY <1>2 DEF WatchWalk
  <2>2. WalkComplete'
    BY <1>2 DEF WalkComplete, Done
  <2>3. SUFFICES ASSUME request.then = request.mount, NEW row \in steady',
                        ~\E item \in reader.rows : item.row = row
                 PROVE  PastToken(request, reader.cursor, row)'
    BY <1>2, <2>1, <2>2 DEF Walked
  <2>4. /\ row \in steady /\ ~MovedBack(row) /\ row \in Matching(request, request.mount)
        /\ row \in Matching(request, request.mount)'
        /\ reader.cursor.key \in Nat \X Nat /\ PastToken(request, reader.cursor, row)
    BY <1>2, <2>1, <2>3 DEF Walked
  <2>5. reader.cursor # NoToken
    BY <2>4, KeysAreTokens
  <2>6. Ahead(request, reader.cursor.key, <<RowStamp(request, row), Order[row]>>)
    BY <2>4, <2>5 DEF PastToken, Key
  <2>7. request.op \in {"list_threads", "list_messages"}
    BY <1>2 DEF Shape, Lists
  <2>8. CASE request.op = "list_threads"
    <3>1. row \in DOMAIN threads /\ row \in DOMAIN threads'
      BY <2>4, <2>8 DEF Matching, Rows
    <3>2. /\ threads[row].stamp \in Nat /\ threads'[row].stamp \in Nat
          /\ row \in Threads /\ Order[row] \in Nat
      BY <3>1, OrderAssumption DEF Tables
    <3>3. threads'[row].stamp # threads[row].stamp =>
            ~(direction_for(request.ascending) = "ascending"
                <=> threads'[row].stamp < threads[row].stamp)
      BY <2>4, <2>8, <3>1 DEF MovedBack
    <3>4. Ahead(request, reader.cursor.key, <<threads[row].stamp, Order[row]>>)
      BY <2>6, <2>8 DEF RowStamp
    <3>5. Ahead(request, reader.cursor.key, <<threads'[row].stamp, Order[row]>>)
      BY <2>4, <3>2, <3>3, <3>4, AheadStays
    <3> QED BY <2>8, <3>5 DEF PastToken, Key, RowStamp, Ahead, direction_for
  <2>9. CASE request.op = "list_messages"
    BY <2>6, <2>9 DEF PastToken, Key, RowStamp, Ahead, direction_for
  <2> QED BY <2>7, <2>8, <2>9
<1> QED BY <1>1, <1>2 DEF Shape

(* The reader's invariant when the reader does not move.                   *)
LEMMA ReaderStays ==
  ASSUME IInv, Tables', WatchWalk, WatchBlobs, reader' = reader, request' = request,
         clock' \in 0..MaxClock, clock <= clock',
         \A row : Patched(row) => Patched(row)'
  PROVE  ReaderInv'
<1>1. Shape /\ Found /\ TurnedAway /\ Walked /\ ListHidesOpeners /\ Bodied /\ Links /\ Tables
  BY DEF IInv, StoreInv, ReaderInv
<1>2. Shape'
  BY <1>1 DEF Shape, Idle, NoToken, NoLink
<1>3. Found'
  BY <1>1 DEF Found, PlaceOf, HomeOf
<1>4. TurnedAway'
  BY <1>1 DEF TurnedAway, Done, MountVisible
<1>5. Walked'
  BY <1>1, WalkGoesOn
<1>6. ListHidesOpeners'
  <2>1. \A item \in reader.rows : item.tells # None =>
          item.tells \notin Opens \/ Patched(item.tells) \/ Patched(ThreadOf[item.tells])
    BY <1>1 DEF ListHidesOpeners, Patched
  <2>2. \A item \in reader'.rows : item.tells # None =>
          item.tells \notin Opens \/ Patched(item.tells)' \/ Patched(ThreadOf[item.tells])'
    BY <2>1
  <2> QED BY <2>2 DEF ListHidesOpeners, Patched
<1>7. Bodied'
  BY <1>1 DEF Bodied, BodyHonest, Done
<1>8. Links'
  <2>1. /\ readable' \in [Blobs -> Int]
        /\ \A blob \in Blobs : readable[blob] <= readable'[blob] /\ readable'[blob] <= clock'
    BY <1>1, ReadableGrows DEF Shape
  <2>2. /\ readable \in [Blobs -> Int] /\ TTL \in Int
    BY <1>1, OrderAssumption DEF Links
  <2>3. reader.at = "linked" =>
          /\ readable'[reader.link.blob] >= 0
          /\ reader.link.expires <= readable'[reader.link.blob] + TTL
    <3> SUFFICES ASSUME reader.at = "linked"
                 PROVE  /\ readable'[reader.link.blob] >= 0
                        /\ reader.link.expires <= readable'[reader.link.blob] + TTL
      OBVIOUS
    <3> DEFINE old == readable[reader.link.blob]
               new == readable'[reader.link.blob]
    <3>1. old \in Int /\ new \in Int /\ old <= new /\ reader.link.expires \in Int
      BY <1>1, <2>1, <2>2 DEF Links
    <3>2. old >= 0 /\ reader.link.expires <= old + TTL
      BY <1>1 DEF Links
    <3> HIDE DEF old, new
    <3>3. new >= 0 /\ reader.link.expires <= new + TTL
      BY <2>2, <3>1, <3>2
    <3> QED BY <3>3 DEF new
  <2>4. BytesWereReadable'
    <3> SUFFICES ASSUME reader.answer = "bytes"
                 PROVE  /\ readable'[reader.body] >= 0
                        /\ reader.clock < readable'[reader.body] + TTL
      BY DEF BytesWereReadable
    <3> DEFINE old == readable[reader.body]
               new == readable'[reader.body]
    <3>1. old \in Int /\ new \in Int /\ old <= new /\ reader.clock \in Int
      BY <1>1, <2>1, <2>2 DEF Links
    <3>2. old >= 0 /\ reader.clock < old + TTL
      BY <1>1 DEF Links, BytesWereReadable
    <3> HIDE DEF old, new
    <3>3. new >= 0 /\ reader.clock < new + TTL
      BY <2>2, <3>1, <3>2
    <3> QED BY <3>3 DEF new
  <2> QED BY <1>1, <2>1, <2>3, <2>4 DEF Links
<1> QED BY <1>2, <1>3, <1>4, <1>5, <1>6, <1>7, <1>8 DEF ReaderInv

(***************************************************************************)
(* Mounts that are there for a caller.                                     *)
(***************************************************************************)
LEMMA WindowShowsMount ==
  ASSUME NEW r, NEW mount, NEW at \in Inboxes, Scoped(r.scope), Mounted(mount),
         ~RuledOut(r.scope, mount), WindowAdmits(Narrowed(r.scope, mount), at)
  PROVE  MountVisible(r, mount)
<1>1. InReach(r.scope, mount, at)
  BY AdmittedIsInReach
<1>2. CASE mount.kind = "organization"
  BY <1>2 DEF MountVisible
<1>3. CASE mount.kind = "pod"
  <2> DEFINE pod == Place(at.org, at.pod, None)
  <2>1. pod \in Pods /\ pod.org = at.org /\ pod.pod = at.pod
    BY MailAssumption DEF Place
  <2>2. at.pod = mount.id /\ at.org = r.scope.org /\ r.scope.pod \in {None, at.pod}
    BY <1>1, <1>3 DEF InReach, Inside
  <2> HIDE DEF pod
  <2> QED BY <1>3, <2>1, <2>2 DEF MountVisible
<1>4. CASE mount.kind = "inbox"
  BY <1>1, <1>4 DEF MountVisible, InReach, Inside
<1> QED BY <1>2, <1>3, <1>4 DEF Mounted, OrgMount, PodMount, InboxMount

(* A mount that is settled is there; only what a pod mount fetches by id   *)
(* is not settled first.                                                   *)
LEMMA SettledIsVisible ==
  ASSUME NEW r, NEW mount, Scoped(r.scope), Mounted(mount),
         MountVerdict(r, mount) # "denied",
         mount.kind # "pod" \/ r.op \in Lists
  PROVE  MountVisible(r, mount)
<1>1. ~RuledOut(r.scope, mount) /\ SettleMount(r.scope, mount, Pods, Inboxes) # "denied"
  BY VerdictRulesOut DEF MountVerdict
<1>2. CASE mount.kind = "organization"
  BY <1>2 DEF MountVisible
<1>3. CASE Proven(r.scope, mount) /\ mount.kind = "pod"
  <2> DEFINE pod == Place(r.scope.org, r.scope.pod, None)
  <2>1. mount.id = r.scope.pod /\ mount.id # None
    BY <1>3 DEF Proven, Mounted, OrgMount
  <2>2. pod \in Pods /\ pod.org = r.scope.org /\ pod.pod = r.scope.pod
    BY <2>1 DEF Scoped, Place
  <2> HIDE DEF pod
  <2> QED BY <1>3, <2>1, <2>2 DEF MountVisible
<1>4. CASE Proven(r.scope, mount) /\ mount.kind = "inbox"
  <2>1. mount.id = r.scope.inbox /\ mount.id # None
    BY <1>4 DEF Proven, Mounted, OrgMount
  <2>2. r.scope \in Inboxes
    BY <2>1 DEF Scoped
  <2> QED BY <1>4, <2>1, <2>2 DEF MountVisible
<1>5. CASE ~Proven(r.scope, mount) /\ mount.kind = "pod"
  <2>1. PICK at \in Pods :
          mount.id = at.pod /\ WindowAdmits(Narrowed(r.scope, mount), at)
    BY <1>1, <1>5 DEF SettleMount, Settle, Resolve
  <2>2. at.org = r.scope.org /\ r.scope.pod \in {None, at.pod}
    BY <1>1, <1>5, <2>1 DEF WindowAdmits, Narrowed, RuledOut, Scoped, Place
  <2> QED BY <1>5, <2>1, <2>2 DEF MountVisible
<1>6. CASE ~Proven(r.scope, mount) /\ mount.kind = "inbox"
  <2>1. PICK at \in Inboxes :
          mount.id = at.inbox /\ WindowAdmits(Narrowed(r.scope, mount), at)
    BY <1>1, <1>6 DEF SettleMount, Settle, Resolve
  <2> QED BY <1>1, <2>1, WindowShowsMount
<1> QED BY <1>2, <1>3, <1>4, <1>5, <1>6 DEF Mounted, OrgMount, PodMount, InboxMount

(***************************************************************************)
(* The reader's own steps.                                                 *)
(***************************************************************************)
ReaderMoves ==
  /\ UNCHANGED <<threads, messages, arrival, write, clock, request>>
  /\ WatchWalk /\ WatchBlobs

(* What the invariant says, part by part, and what the assumptions add     *)
(* about the request under way.                                            *)
LEMMA ReaderFacts ==
  ASSUME IInv
  PROVE  /\ Tables /\ Arrivals /\ AsArrived /\ Shape /\ Found /\ TurnedAway /\ Walked
         /\ ListHidesOpeners /\ Bodied /\ Links
         /\ Scoped(request.scope) /\ Mounted(request.mount) /\ Mounted(request.then)
         /\ request.limit = None \/ request.limit \in Int
  BY CallersAssumption DEF IInv, StoreInv, ReaderInv, Shape

(* A step of the reader leaves the moments of readability where they are   *)
(* or moves them up.                                                       *)
LEMMA OldBlobsStay ==
  ASSUME IInv, ReaderMoves
  PROVE  /\ readable' \in [Blobs -> Int]
         /\ \A blob \in Blobs : readable[blob] <= readable'[blob] /\ readable'[blob] <= clock'
<1>1. clock \in 0..MaxClock /\ clock' = clock /\ Links /\ clock <= clock'
  BY ReaderFacts, OrderAssumption DEF Shape, ReaderMoves
<1> QED BY <1>1, ReadableGrows DEF ReaderMoves

(* An answer that ends the read, other than a page.                        *)
LEMMA AnswerInv ==
  ASSUME IInv, ReaderMoves, NEW answer, Answer(answer), reader.at \in {"start", "walking"},
         answer \in {"ok", "not_found", "forbidden", "validation_error", "bad_token"},
         answer = "ok" =>
           request.op = "get_message"
             /\ InReach(request.scope, request.mount, PlaceOf(request.target)),
         MountVisible(request, request.mount)
           \/ (reader.at = "start" /\ answer = "not_found")
           \/ /\ reader.at = "start" /\ answer = "forbidden"
              /\ request.mount.kind = "pod" /\ request.op \notin Lists
              /\ ~RuledOut(request.scope, request.mount)
  PROVE  ReaderInv'
<1>1. /\ reader' = [reader EXCEPT !.at = "done", !.answer = answer]
      /\ UNCHANGED <<threads, messages, arrival, write, clock, request>>
  BY DEF Answer, ReaderMoves
<1>2. /\ Tables /\ Shape /\ Found /\ TurnedAway /\ Walked /\ ListHidesOpeners /\ Bodied /\ Links
  BY ReaderFacts
<1>3. reader' = [at |-> "done", answer |-> answer, rows |-> reader.rows,
                 cursor |-> reader.cursor, body |-> reader.body, link |-> reader.link,
                 clock |-> reader.clock]
  BY <1>1, <1>2 DEF Shape
<1>4. Shape'
  BY <1>1, <1>2, <1>3 DEF Shape
<1>5. Found'
  BY <1>1, <1>2, <1>3 DEF Found, PlaceOf, HomeOf
<1>6. TurnedAway'
  <2>1. reader.at = "start" => reader.rows = {}
    BY <1>2 DEF Shape, Idle
  <2>2. MountVisible(request, request.mount)' <=> MountVisible(request, request.mount)
    BY <1>1 DEF MountVisible
  <2> QED BY <1>1, <1>3, <2>1, <2>2 DEF TurnedAway, Done
<1>7. Walked'
  BY <1>1, <1>3 DEF Walked, WalkComplete, Lists
<1>8. ListHidesOpeners'
  BY <1>1, <1>2, <1>3 DEF ListHidesOpeners
<1>9. Bodied'
  BY <1>1, <1>3 DEF Bodied, BodyHonest
<1>10. Links'
  BY <1>3, OldBlobsStay DEF Links, BytesWereReadable
<1> QED BY <1>4, <1>5, <1>6, <1>7, <1>8, <1>9, <1>10 DEF ReaderInv

(* What the gate answers tells no more than the mount's own verdict.       *)
LEMMA RefusedInv ==
  ASSUME IInv, ReaderMoves, NEW mount, Refused(mount, "message_read"),
         \/ reader.at = "start" /\ mount = request.mount
         \/ reader.at = "walking"
  PROVE  ReaderInv'
<1> DEFINE answer == Gate(request, mount, "message_read")
<1>1. answer \in {"not_found", "forbidden"} /\ Answer(answer)
  BY DEF Refused, Gate
<1>2. MountVisible(request, request.mount)
        \/ (reader.at = "start" /\ answer = "not_found")
        \/ /\ reader.at = "start" /\ answer = "forbidden"
           /\ request.mount.kind = "pod" /\ request.op \notin Lists
           /\ ~RuledOut(request.scope, request.mount)
  <2>1. CASE reader.at = "walking"
    BY <2>1, ReaderFacts DEF TurnedAway, Done
  <2>2. CASE reader.at = "start" /\ mount = request.mount /\ answer = "forbidden"
    <3>1. MountVerdict(request, mount) # "denied" /\ ~RuledOut(request.scope, mount)
      BY <2>2, OpenGate
    <3>2. mount.kind # "pod" \/ request.op \in Lists => MountVisible(request, mount)
      BY <2>2, <3>1, ReaderFacts, SettledIsVisible
    <3> QED BY <2>2, <3>1, <3>2
  <2> QED BY <1>1, <2>1, <2>2
<1> HIDE DEF answer
<1> QED BY <1>1, <1>2, AnswerInv

(* A resource that a query under the mount's window finds.                 *)
LEMMA FoundInWindow ==
  ASSUME IInv, Passes(request.mount), NEW at \in Inboxes,
         WindowAdmits(Narrowed(request.scope, request.mount), at)
  PROVE  /\ InReach(request.scope, request.mount, at) /\ WindowAdmits(request.scope, at)
         /\ MountVisible(request, request.mount)
<1>1. ~RuledOut(request.scope, request.mount)
  BY OpenGate DEF Passes
<1> QED BY <1>1, ReaderFacts, AdmittedIsInReach, WindowShowsMount

(* Where a row lies.                                                       *)
LEMMA ThreadPlace ==
  ASSUME IInv, NEW t \in DOMAIN threads
  PROVE  t \in Threads /\ PlaceOf(t) = Home[t] /\ Home[t] \in Inboxes
  BY ReaderFacts, MailAssumption DEF Tables, PlaceOf

(* A message lies where its thread does.                                   *)
LEMMA MessagePlace ==
  ASSUME IInv, NEW m \in DOMAIN messages
  PROVE  m \in Messages /\ PlaceOf(m) = HomeOf(m) /\ HomeOf(m) \in Inboxes
<1>1. m \in Messages /\ m \notin Threads
  BY ReaderFacts, MailAssumption DEF Tables
<1> QED BY <1>1, MailAssumption DEF PlaceOf, HomeOf

(* What passes the gate and is not found, is at a mount that is there, or  *)
(* one that was never looked up.                                           *)
LEMMA NotFoundInv ==
  ASSUME IInv, ReaderMoves, reader.at = "start", Answer("not_found")
  PROVE  ReaderInv'
  BY AnswerInv

(* GET of one message.                                                     *)
LEMMA ReadMessageInv ==
  ASSUME IInv, ReaderMoves, ReadMessage
  PROVE  ReaderInv'
<1>1. CASE Refused(request.mount, "message_read")
  BY <1>1, RefusedInv DEF ReadMessage
<1>2. CASE Passes(request.mount) /\ ~MessageInWindow(request, request.target)
            /\ Answer("not_found")
  BY <1>2, NotFoundInv DEF ReadMessage
<1>3. CASE Passes(request.mount) /\ MessageInWindow(request, request.target) /\ Answer("ok")
  <2>1. /\ request.target \in DOMAIN messages
        /\ WindowAdmits(Narrowed(request.scope, request.mount), HomeOf(request.target))
    BY <1>3 DEF MessageInWindow, Held
  <2>2. PlaceOf(request.target) = HomeOf(request.target) /\ HomeOf(request.target) \in Inboxes
    BY <2>1, MessagePlace
  <2>3. /\ InReach(request.scope, request.mount, PlaceOf(request.target))
        /\ MountVisible(request, request.mount)
    BY <1>3, <2>1, <2>2, FoundInWindow
  <2> QED BY <1>3, <2>3, AnswerInv DEF ReadMessage
<1> QED BY <1>1, <1>2, <1>3 DEF ReadMessage

(* GET of a thread, first query.                                           *)
LEMMA ReadThreadInv ==
  ASSUME IInv, ReaderMoves, ReadThread
  PROVE  ReaderInv'
<1> DEFINE t == request.target
<1>1. CASE Refused(request.mount, "message_read")
  BY <1>1, RefusedInv DEF ReadThread
<1>2. CASE Passes(request.mount) /\ ~ThreadInWindow(request, t) /\ Answer("not_found")
  BY <1>2, NotFoundInv DEF ReadThread
<1>3. CASE /\ Passes(request.mount) /\ ThreadInWindow(request, t)
           /\ reader' = [reader EXCEPT !.at = "members", !.body = threads[t]]
  <2>1. t \in DOMAIN threads /\ WindowAdmits(Narrowed(request.scope, request.mount), Home[t])
    BY <1>3 DEF ThreadInWindow
  <2>2. PlaceOf(t) = Home[t] /\ Home[t] \in Inboxes
    BY <2>1, ThreadPlace
  <2>3. InReach(request.scope, request.mount, PlaceOf(t)) /\ MountVisible(request, request.mount)
    BY <1>3, <2>1, <2>2, FoundInWindow
  <2>4. /\ request.op = "get_thread" /\ reader = Idle
        /\ UNCHANGED <<threads, messages, arrival, write, clock, request>>
    BY ReaderFacts DEF ReadThread, Shape, ReaderMoves
  <2>5. reader' = [at |-> "members", answer |-> "none", rows |-> {}, cursor |-> NoToken,
                   body |-> threads[t], link |-> NoLink, clock |-> 0]
    BY <1>3, <2>4 DEF Idle
  <2>6. Shape'
    BY <2>4, <2>5, ReaderFacts DEF Shape
  <2>7. Found' /\ TurnedAway'
    BY <2>3, <2>4, <2>5 DEF Found, TurnedAway, Done, PlaceOf, HomeOf, MountVisible
  <2>8. Walked' /\ ListHidesOpeners'
    BY <2>4, <2>5 DEF Walked, WalkComplete, Done, ListHidesOpeners
  <2>9. Bodied'
    BY <2>1, <2>4, <2>5, ReaderFacts DEF Bodied, BodyHonest, Done, Tables
  <2>10. Links'
    BY <2>5, OldBlobsStay DEF Links, BytesWereReadable
  <2> QED BY <2>6, <2>7, <2>8, <2>9, <2>10 DEF ReaderInv
<1> QED BY <1>1, <1>2, <1>3 DEF ReadThread

(* A link is minted for bytes that are readable at this moment.            *)
LEMMA MintLinkInv ==
  ASSUME IInv, ReaderMoves, MintLink
  PROVE  ReaderInv'
<1> DEFINE m == request.target
<1>1. CASE Refused(request.mount, "message_read")
  BY <1>1, RefusedInv DEF MintLink
<1>2. CASE Passes(request.mount) /\ ~LinkFound(request, m) /\ Answer("not_found")
  BY <1>2, NotFoundInv DEF MintLink
<1>3. CASE /\ Passes(request.mount) /\ LinkFound(request, m)
           /\ reader' = [reader EXCEPT !.at = "linked", !.answer = "ok", !.link = mint(m)]
  <2>1. MessageInWindow(request, m)
    BY <1>3 DEF LinkFound, RawBlob, AttachmentBlob
  <2>2. /\ m \in DOMAIN messages
        /\ WindowAdmits(Narrowed(request.scope, request.mount), HomeOf(m))
        /\ messages[m] \cap ExcludedLabels(ByIdAccess(request.grants)) = {}
    BY <2>1 DEF MessageInWindow, Held
  <2>3. m \in Messages /\ PlaceOf(m) = HomeOf(m) /\ HomeOf(m) \in Inboxes
    BY <2>2, MessagePlace
  <2>4. /\ InReach(request.scope, request.mount, PlaceOf(m))
        /\ WindowAdmits(request.scope, HomeOf(m)) /\ MountVisible(request, request.mount)
    BY <1>3, <2>2, <2>3, FoundInWindow
  <2>5. /\ request.op \in {"raw", "attachment"} /\ reader = Idle
        /\ UNCHANGED <<threads, messages, arrival, write, clock, request>>
    BY ReaderFacts DEF MintLink, Shape, ReaderMoves
  <2>6. reader' = [at |-> "linked", answer |-> "ok", rows |-> {}, cursor |-> NoToken,
                   body |-> <<>>, link |-> [blob |-> BlobOf[m], expires |-> clock + TTL],
                   clock |-> 0]
    BY <1>3, <2>5 DEF Idle, mint
  <2>7. Shape'
    BY <2>5, <2>6, ReaderFacts DEF Shape
  <2>8. Found' /\ TurnedAway'
    BY <2>4, <2>5, <2>6 DEF Found, TurnedAway, Done, PlaceOf, HomeOf, MountVisible
  <2>9. Walked' /\ ListHidesOpeners' /\ Bodied'
    BY <2>5, <2>6 DEF Walked, WalkComplete, Done, ListHidesOpeners, Bodied, BodyHonest
  <2>10. Links'
    <3>1. ReadableNow(BlobOf[m])
      BY <2>2, <2>4 DEF ReadableNow
    <3>2. BlobOf[m] \in Blobs
      BY <2>3 DEF Blobs
    <3>3. readable' = [b \in DOMAIN readable |-> IF ReadableNow(b) THEN clock ELSE readable[b]]
      BY <2>5 DEF ReaderMoves, WatchBlobs
    <3>4. DOMAIN readable = Blobs
      BY ReaderFacts DEF Links
    <3>5. readable'[BlobOf[m]] = clock
      BY <3>1, <3>2, <3>3, <3>4
    <3>6. clock \in Nat /\ clock' = clock /\ TTL \in Nat
      BY <2>5, ReaderFacts, OrderAssumption DEF Shape
    <3> QED BY <2>6, <3>2, <3>5, <3>6, OldBlobsStay DEF Links, BytesWereReadable
  <2> QED BY <2>7, <2>8, <2>9, <2>10 DEF ReaderInv
<1> QED BY <1>1, <1>2, <1>3 DEF MintLink

(* A link is presented: its bytes, if it is young enough.                  *)
LEMMA FetchBlobInv ==
  ASSUME IInv, ReaderMoves, FetchBlob
  PROVE  ReaderInv'
<1>1. PICK blob \in Blobs :
        reader' = [reader EXCEPT
          !.at = "done", !.clock = clock, !.body = blob,
          !.answer = IF verify(reader.link, blob) THEN "bytes" ELSE "denied"]
  BY DEF FetchBlob, Blobs
<1>2. /\ reader.at = "linked" /\ request.op \in {"raw", "attachment"} /\ reader.answer = "ok"
      /\ UNCHANGED <<threads, messages, arrival, write, clock, request>>
  BY ReaderFacts DEF FetchBlob, Shape, ReaderMoves
<1>3. PICK answer \in {"bytes", "denied"} :
        /\ reader' = [at |-> "done", answer |-> answer, rows |-> reader.rows,
                      cursor |-> reader.cursor, body |-> blob, link |-> reader.link,
                      clock |-> clock]
        /\ answer = "bytes" => verify(reader.link, blob)
  BY <1>1, ReaderFacts DEF Shape
<1>4. Shape'
  BY <1>2, <1>3, ReaderFacts DEF Shape
<1>5. Found'
  BY <1>2, <1>3, ReaderFacts DEF Found, PlaceOf, HomeOf
<1>6. TurnedAway'
  BY <1>2, <1>3, ReaderFacts DEF TurnedAway, Done, MountVisible
<1>7. Walked' /\ ListHidesOpeners' /\ Bodied'
  BY <1>2, <1>3, ReaderFacts
     DEF Walked, WalkComplete, Done, ListHidesOpeners, Bodied, BodyHonest, Lists
<1>8. Links'
  <2> SUFFICES ASSUME answer = "bytes"
               PROVE  /\ readable'[blob] >= 0 /\ clock < readable'[blob] + TTL
                      /\ clock \in Int
    BY <1>3, OldBlobsStay DEF Links, BytesWereReadable
  <2>1. /\ reader.link.blob = blob /\ clock < reader.link.expires
        /\ reader.link.expires \in Int
        /\ readable[blob] >= 0 /\ reader.link.expires <= readable[blob] + TTL
    BY <1>2, <1>3, ReaderFacts DEF verify, Links
  <2>2. /\ readable[blob] \in Int /\ readable'[blob] \in Int /\ readable[blob] <= readable'[blob]
        /\ clock \in Int /\ TTL \in Int
    BY OldBlobsStay, ReaderFacts, OrderAssumption DEF Links, Shape
  <2> QED BY <2>1, <2>2
<1> QED BY <1>4, <1>5, <1>6, <1>7, <1>8 DEF ReaderInv

(***************************************************************************)
(* A thread's body.                                                        *)

(***************************************************************************)
(* What redaction shows is admitted; where it hides a member the last one  *)
(* named and the count are of what is shown; the subject is as it was.     *)
LEMMA RedactionIsHonest ==
  ASSUME NEW item, ThreadRow(item), NEW members, IsFiniteSet(members),
         \A m \in members : m.key \in Nat \X Nat,
         \A m, n \in members : m.key = n.key => m = n,
         NEW access, NEW body, body = RedactThread(item, members, access),
         body.verdict # "withheld"
  PROVE  /\ body.members \subseteq members
         /\ \A m \in body.members : Admits(m.labels, access)
         /\ Admits(body.item.labels, access)
         /\ body.item.subject = item.subject
         /\ body.members = members => body.item.last = item.last
         /\ body.members # members =>
              /\ \E m \in body.members : body.item.last = m.id
              /\ body.item.count = Cardinality(body.members)
<1> DEFINE shown == Shown(members, access)
           labels == {l \in item.labels : Admits({l}, access)}
           stripped == [item EXCEPT !.labels = labels]
<1>1. stripped = [labels |-> labels, last |-> item.last, stamp |-> item.stamp,
                  count |-> item.count, subject |-> item.subject, updated |-> item.updated]
  <2>1. ASSUME NEW ls
        PROVE  [item EXCEPT !.labels = ls] = [labels |-> ls, last |-> item.last,
                                              stamp |-> item.stamp, count |-> item.count,
                                              subject |-> item.subject,
                                              updated |-> item.updated]
    BY DEF ThreadRow
  <2> QED BY <2>1
<1>2. Admits(labels, access)
  BY StrippedIsAdmitted
<1>3. shown \in SUBSET members /\ \A m \in shown : Admits(m.labels, access)
  BY DEF Shown
<1>4. body = IF shown = members
             THEN [verdict |-> "shown", item |-> stripped, members |-> members]
             ELSE IF shown = {}
             THEN [verdict |-> "withheld", item |-> stripped, members |-> {}]
             ELSE [verdict |-> "shown", item |-> Recomputed(stripped, shown), members |-> shown]
  BY DEF RedactThread
<1> HIDE DEF shown, labels, stripped
<1>5. CASE shown = members
  BY <1>1, <1>2, <1>3, <1>4, <1>5
<1>6. CASE shown # members
  <2>1. shown # {} /\ body.item = Recomputed(stripped, shown) /\ body.members = shown
    BY <1>4, <1>6
  <2>2. LastOf(shown) \in shown
    <3> DEFINE R == {p \in shown \X shown : Before(p[1].key, p[2].key)}
    <3>1. \A x, y \in shown : <<x, y>> \in R <=> Before(x.key, y.key)
      OBVIOUS
    <3>2. /\ \A x \in shown : x.key \in Nat \X Nat
          /\ \A x, y \in shown : x.key = y.key => x = y
      BY <1>3
    <3> HIDE DEF R
    <3>3. Orders(R, shown)
      BY <3>1, <3>2, BeforeIsStrict DEF Orders
    <3>4. IsFiniteSet(shown)
      BY <1>3, FS_Subset
    <3>5. PICK x \in shown : \A y \in shown \ {x} : <<y, x>> \in R
      BY <2>1, <3>3, <3>4, HasLast
    <3>6. \A y \in shown \ {x} : Before(y.key, x.key)
      BY <3>1, <3>5
    <3> QED BY <3>6 DEF LastOf
  <2>3. Recomputed(stripped, shown) =
          [labels |-> labels, last |-> LastOf(shown).id, stamp |-> LastOf(shown).key[1],
           count |-> Cardinality(shown), subject |-> item.subject, updated |-> item.updated]
    <3>1. /\ ThreadRow(stripped) /\ stripped.labels = labels
          /\ stripped.subject = item.subject /\ stripped.updated = item.updated
      BY <1>1 DEF ThreadRow
    <3> DEFINE new == Recomputed(stripped, shown)
               last == LastOf(shown).id
               stamp == LastOf(shown).key[1]
               count == Cardinality(shown)
    <3>2. new = [stripped EXCEPT !.last = last, !.stamp = stamp, !.count = count]
      BY DEF Recomputed
    <3> HIDE DEF new, last, stamp, count
    <3>3. new = [labels |-> stripped.labels, last |-> last, stamp |-> stamp, count |-> count,
                 subject |-> stripped.subject, updated |-> stripped.updated]
      BY <3>1, <3>2 DEF ThreadRow
    <3> QED BY <3>1, <3>3 DEF new, last, stamp, count
  <2> QED BY <1>2, <1>3, <1>6, <2>1, <2>2, <2>3
<1> QED BY <1>5, <1>6

(* The members of a thread are finitely many and have keys of their own.   *)
LEMMA MembersAreKeyed ==
  ASSUME IInv, NEW t
  PROVE  /\ IsFiniteSet(MemberRecords(t))
         /\ \A x \in MemberRecords(t) : x.key \in Nat \X Nat
         /\ \A x, y \in MemberRecords(t) : x.key = y.key => x = y
<1>1. Members(t) \in SUBSET Messages
  BY ReaderFacts DEF Members, Tables
<1>2. \A m \in Members(t) : Member(m).key = <<Stamp[m], Order[m]>>
  BY DEF Member
<1>3. IsFiniteSet(MemberRecords(t))
  <2> DEFINE f == [m \in Members(t) |-> Member(m)]
  <2>1. IsFiniteSet(Members(t))
    BY <1>1, MailAssumption, FS_Subset
  <2>2. f \in Surjection(Members(t), MemberRecords(t))
    BY DEF Surjection, MemberRecords
  <2> HIDE DEF f
  <2> QED BY <2>1, <2>2, FS_Surjection
<1>4. \A x \in MemberRecords(t) : x.key \in Nat \X Nat
  <2>1. ASSUME NEW m \in Members(t)
        PROVE  Member(m).key \in Nat \X Nat
    <3>1. Stamp[m] \in Nat /\ Order[m] \in Nat
      BY <1>1, OrderAssumption
    <3> QED BY <1>2, <3>1
  <2> QED BY <2>1 DEF MemberRecords
<1>5. ASSUME NEW m \in Members(t), NEW n \in Members(t), Member(m).key = Member(n).key
      PROVE  Member(m) = Member(n)
  <2>1. Order[m] = Order[n]
    BY <1>2, <1>5
  <2>2. m = n
    BY <1>1, <2>1, OrderAssumption
  <2> QED BY <2>2
<1> QED BY <1>3, <1>4, <1>5 DEF MemberRecords

(* GET of a thread, second query: the body is redacted against the members *)
(* of now, the item of then.                                               *)
LEMMA ReadMembersInv ==
  ASSUME IInv, ReaderMoves, ReadMembers
  PROVE  ReaderInv'
<1> DEFINE t == request.target
           access == ByIdAccess(request.grants)
           records == MemberRecords(t)
           body == RedactThread(reader.body, records, access)
<1>1. /\ reader.at = "members" /\ request.op = "get_thread" /\ reader.answer = "none"
      /\ ThreadRow(reader.body) /\ reader.body.last \in Messages
      /\ ThreadOf[reader.body.last] = t /\ reader.body.subject \in Opens
      /\ UNCHANGED <<threads, messages, arrival, write, clock, request>>
  BY ReaderFacts DEF ReadMembers, Shape, Bodied, ReaderMoves
<1>2. PICK answer, told :
        /\ answer \in {"ok", "not_found"}
        /\ reader' = [at |-> "done", answer |-> answer, rows |-> reader.rows,
                      cursor |-> reader.cursor, body |-> told, link |-> reader.link,
                      clock |-> reader.clock]
        /\ answer = "ok" => body.verdict # "withheld"
        /\ told = [item |-> body.item, members |-> body.members,
                   missing |-> ~Held(reader.body.last), hid |-> body.members # records]
  <2> DEFINE told == [item |-> body.item, members |-> body.members,
                      missing |-> ~Held(reader.body.last), hid |-> body.members # records]
             answer == IF body.verdict = "withheld" THEN "not_found" ELSE "ok"
  <2>1. reader' = [reader EXCEPT !.at = "done", !.answer = answer, !.body = told]
    BY DEF ReadMembers
  <2> HIDE DEF told
  <2>2. reader' = [at |-> "done", answer |-> answer, rows |-> reader.rows,
                   cursor |-> reader.cursor, body |-> told, link |-> reader.link,
                   clock |-> reader.clock]
    BY <2>1, ReaderFacts DEF Shape
  <2>3. answer \in {"ok", "not_found"} /\ (answer = "ok" => body.verdict # "withheld")
    OBVIOUS
  <2>4. told = [item |-> body.item, members |-> body.members,
                missing |-> ~Held(reader.body.last), hid |-> body.members # records]
    BY DEF told
  <2> HIDE DEF answer, body
  <2> WITNESS answer, told
  <2> QED BY <2>2, <2>3, <2>4
<1>3. Shape'
  BY <1>1, <1>2, ReaderFacts DEF Shape
<1>4. Found' /\ TurnedAway'
  BY <1>1, <1>2, ReaderFacts DEF Found, TurnedAway, Done, MountVisible, PlaceOf, HomeOf
<1>5. Walked' /\ ListHidesOpeners'
  BY <1>1, <1>2, ReaderFacts DEF Walked, WalkComplete, Done, ListHidesOpeners, Lists
<1>6. Bodied'
  <2> SUFFICES ASSUME answer = "ok"
               PROVE  /\ \A m \in told.members : Admits(m.labels, access)
                      /\ Admits(told.item.labels, access)
                      /\ told.hid => told.item.count = Cardinality(told.members)
                      /\ "last_message_id" \in Residue(told) => told.missing /\ ~told.hid
                      /\ told.item.subject \in Opens
    <3>1. request' = request /\ reader'.at = "done" /\ reader'.answer = answer
            /\ reader'.body = told
      BY <1>1, <1>2
    <3> QED BY <1>2, <3>1 DEF Bodied, BodyHonest, Done, ByIdAccess, Admits, Admit
  <2>1. body.verdict # "withheld"
    BY <1>2
  <2>2. /\ body.members \subseteq records
        /\ \A m \in body.members : Admits(m.labels, access)
        /\ Admits(body.item.labels, access)
        /\ body.item.subject = reader.body.subject
        /\ body.members = records => body.item.last = reader.body.last
        /\ body.members # records =>
             /\ \E m \in body.members : body.item.last = m.id
             /\ body.item.count = Cardinality(body.members)
    <3> HIDE DEF body
    <3>1. /\ IsFiniteSet(records) /\ \A x \in records : x.key \in Nat \X Nat
          /\ \A x, y \in records : x.key = y.key => x = y
      BY MembersAreKeyed
    <3>2. body = RedactThread(reader.body, records, access)
      BY DEF body
    <3> HIDE DEF records, access
    <3> QED BY <1>1, <2>1, <3>1, <3>2, RedactionIsHonest
  <2>3. Held(reader.body.last) => \E m \in records : m.id = reader.body.last
    <3> SUFFICES ASSUME Held(reader.body.last)
                 PROVE  \E m \in records : m.id = reader.body.last
      OBVIOUS
    <3>1. reader.body.last \in Members(t)
      BY <1>1 DEF Held, Members
    <3>2. Member(reader.body.last) \in records /\ Member(reader.body.last).id = reader.body.last
      BY <3>1 DEF MemberRecords, Member
    <3> HIDE DEF records
    <3> QED BY <3>2
  <2>4. /\ told.item = body.item /\ told.members = body.members
        /\ told.missing = ~Held(reader.body.last) /\ told.hid = (body.members # records)
    BY <1>2
  <2> HIDE DEF body, records, access
  <2>5. told.hid => \E m \in told.members : told.item.last = m.id
    BY <2>2, <2>4
  <2>6. ~told.hid /\ ~told.missing => \E m \in told.members : told.item.last = m.id
    BY <2>2, <2>3, <2>4
  <2>7. told.item.last \in {m.id : m \in told.members} \/ (told.missing /\ ~told.hid)
    BY <2>5, <2>6
  <2>8. "last_message_id" \in Residue(told) => told.missing /\ ~told.hid
    BY <2>7 DEF Residue, Sources
  <2> QED BY <1>1, <2>2, <2>4, <2>8
<1>7. Links'
  BY <1>2, OldBlobsStay DEF Links, BytesWereReadable
<1> QED BY <1>3, <1>4, <1>5, <1>6, <1>7 DEF ReaderInv

(***************************************************************************)
(* A page of a walk.                                                       *)
(***************************************************************************)
LEMMA RowsAreKeyed ==
  ASSUME IInv, request.op \in Lists, NEW S \in SUBSET Rows(request)
  PROVE  /\ IsFiniteSet(S) /\ Keyed(request, S)
         /\ \A row \in S : PlaceOf(row) = RowPlace(request, row) /\ PlaceOf(row) \in Inboxes
<1>1. CASE request.op = "list_threads"
  <2>1. S \in SUBSET Threads /\ \A row \in S : row \in DOMAIN threads
    BY <1>1, ReaderFacts DEF Rows, Tables
  <2>2. IsFiniteSet(S)
    BY <2>1, MailAssumption, FS_Subset
  <2>3. \A row \in S : Key(request, row) = <<threads[row].stamp, Order[row]>>
    BY <1>1 DEF Key, RowStamp
  <2>4. \A row \in S : threads[row].stamp \in Nat /\ Order[row] \in Nat
    BY <2>1, ReaderFacts, OrderAssumption DEF Tables
  <2>5. \A a, b \in S : Order[a] = Order[b] => a = b
    BY <2>1, OrderAssumption
  <2>6. Keyed(request, S)
    BY <2>3, <2>4, <2>5 DEF Keyed
  <2>7. \A row \in S : PlaceOf(row) = RowPlace(request, row) /\ PlaceOf(row) \in Inboxes
    BY <1>1, <2>1, ThreadPlace DEF RowPlace
  <2> QED BY <2>2, <2>6, <2>7
<1>2. CASE request.op = "list_messages"
  <2>1. S \in SUBSET Messages /\ \A row \in S : row \in DOMAIN messages
    BY <1>2, ReaderFacts DEF Rows, Tables
  <2>2. IsFiniteSet(S)
    BY <2>1, MailAssumption, FS_Subset
  <2>3. \A row \in S : Key(request, row) = <<Stamp[row], Order[row]>>
    BY <1>2 DEF Key, RowStamp
  <2>4. \A row \in S : Stamp[row] \in Nat /\ Order[row] \in Nat
    BY <2>1, OrderAssumption
  <2>5. \A a, b \in S : Order[a] = Order[b] => a = b
    BY <2>1, OrderAssumption
  <2>6. Keyed(request, S)
    BY <2>3, <2>4, <2>5 DEF Keyed
  <2>7. \A row \in S : PlaceOf(row) = RowPlace(request, row) /\ PlaceOf(row) \in Inboxes
    BY <1>2, <2>1, MessagePlace DEF RowPlace
  <2> QED BY <2>2, <2>6, <2>7
<1> QED BY <1>1, <1>2 DEF Lists

(* A limit that is not refused asks for some rows.                         *)
LEMMA LimitIsPositive ==
  ASSUME IInv, parse_limit(request.limit) = "ok"
  PROVE  resolve(request.limit) \in Nat /\ resolve(request.limit) # 0
<1>1. request.limit = None \/ (request.limit \in Int /\ request.limit > 0)
  BY ReaderFacts DEF parse_limit
<1>2. DEFAULT_LIMIT \in Nat /\ DEFAULT_LIMIT # 0 /\ MAX_LIMIT \in Nat /\ MAX_LIMIT # 0
  BY OrderAssumption
<1> QED BY <1>1, <1>2 DEF resolve

(* A listed thread that names what this list would hide.                   *)
LEMMA ToldIsExcused ==
  ASSUME IInv, request.op \in Lists, NEW mount, NEW row \in Matching(request, mount),
         Listed(request, mount, row).tells # None,
         Listed(request, mount, row).tells \in Opens
  PROVE  LET told == Listed(request, mount, row).tells IN
         Patched(told) \/ Patched(ThreadOf[told])
<1> DEFINE m == threads[row].last
           access == ListAccess(request.grants, request.include)
<1>1. /\ request.op = "list_threads" /\ HiddenFromList(request, m)
      /\ Listed(request, mount, row).tells = m
  BY DEF Listed
<1>2. /\ row \in DOMAIN threads /\ threads[row].labels \cap ExcludedLabels(access) = {}
      /\ ThreadOf[m] = row /\ m \in Opens
  BY <1>1, ReaderFacts DEF Matching, Rows, RowLabels, Tables
<1>3. SUFFICES ASSUME ~Patched(m), ~Patched(row)
               PROVE  FALSE
  BY <1>1, <1>2
<1>4. threads[row].labels = Arrives[m]
  BY <1>2, <1>3, ReaderFacts DEF AsArrived
<1>5. Held(m) => messages[m] = Arrives[m]
  BY <1>3, ReaderFacts DEF AsArrived, Held
<1>6. Admits(Arrives[m], access)
  BY <1>2, <1>4, QueryHidesTheSame
<1> QED BY <1>1, <1>5, <1>6 DEF HiddenFromList

(* A page: its rows are in reach, the token names the last of them, and    *)
(* what it did not return lies past the token.                             *)
LEMMA PageInv ==
  ASSUME IInv, ReaderMoves, Page
  PROVE  ReaderInv'
<1> DEFINE mount == IF reader.at = "start" THEN request.mount ELSE request.then
           n     == resolve(request.limit)
           S     == {row \in Matching(request, mount) : PastToken(request, reader.cursor, row)}
           found == Foremost(request, S, n + 1)
           items == Foremost(request, found, n)
           last  == Hindmost(request, items)
<1>1. /\ request.op \in Lists /\ reader.at \in {"start", "walking"}
      /\ UNCHANGED <<threads, messages, arrival, write, clock, request>>
  BY DEF Page, ReaderMoves
<1>2. CASE Refused(mount, "message_read")
  BY <1>1, <1>2, RefusedInv
<1>3. SUFFICES ASSUME Passes(mount)
               PROVE  ReaderInv'
  BY <1>2 DEF Page
<1>4. /\ ~RuledOut(request.scope, mount) /\ Mounted(mount) /\ Scoped(request.scope)
      /\ MountVisible(request, request.mount)
  <2>1. MountVerdict(request, mount) # "denied" /\ ~RuledOut(request.scope, mount)
    BY <1>3, OpenGate DEF Passes
  <2>2. CASE reader.at = "start"
    BY <1>1, <2>1, <2>2, ReaderFacts, SettledIsVisible
  <2>3. CASE reader.at = "walking"
    BY <2>1, <2>3, ReaderFacts DEF TurnedAway, Done
  <2> QED BY <1>1, <2>1, <2>2, <2>3
<1>5. CASE Answer(parse_limit(request.limit)) /\ parse_limit(request.limit) # "ok"
  <2>1. parse_limit(request.limit) = "validation_error"
    BY <1>5 DEF parse_limit
  <2> QED BY <1>1, <1>4, <1>5, <2>1, AnswerInv
<1>6. CASE Answer("bad_token")
  BY <1>1, <1>4, <1>6, AnswerInv
<1>7. CASE /\ parse_limit(request.limit) = "ok"
           /\ reader' = [reader EXCEPT
                !.at = IF found # items THEN "walking" ELSE "done",
                !.answer = "ok",
                !.rows = @ \cup {Listed(request, mount, row) : row \in items},
                !.cursor = IF found # items
                           THEN [key |-> Key(request, last),
                                 inbox |-> RowPlace(request, last).inbox]
                           ELSE NoToken]
  <2> DEFINE new == {Listed(request, mount, row) : row \in items}
             token == IF found # items
                      THEN [key |-> Key(request, last), inbox |-> RowPlace(request, last).inbox]
                      ELSE NoToken
             at == IF found # items THEN "walking" ELSE "done"
  <2>1. reader' = [at |-> at, answer |-> "ok", rows |-> reader.rows \cup new,
                   cursor |-> token, body |-> reader.body, link |-> reader.link,
                   clock |-> reader.clock]
    <3> DEFINE rows == reader.rows \cup new
    <3>1. reader' = [reader EXCEPT !.at = at, !.answer = "ok", !.rows = rows, !.cursor = token]
      BY <1>7
    <3> HIDE DEF at, rows, token
    <3>2. reader' = [at |-> at, answer |-> "ok", rows |-> rows, cursor |-> token,
                     body |-> reader.body, link |-> reader.link, clock |-> reader.clock]
      BY <3>1, ReaderFacts DEF Shape
    <3> QED BY <3>2 DEF rows
  <2>2. S \subseteq Matching(request, mount) /\ S \in SUBSET Rows(request)
    BY DEF Matching
  <2>3. /\ IsFiniteSet(S) /\ Keyed(request, S)
        /\ \A row \in S : PlaceOf(row) = RowPlace(request, row) /\ PlaceOf(row) \in Inboxes
    <3> HIDE DEF S
    <3> QED BY <1>1, <2>2, RowsAreKeyed
  <2>4. /\ items \subseteq S
        /\ found = items => items = S
        /\ found # items =>
             /\ last \in items
             /\ \A row \in S \ items : Ahead(request, Key(request, last), Key(request, row))
    <3>1. n \in Nat /\ n # 0
      BY <1>7, LimitIsPositive
    <3> HIDE DEF n, S
    <3>2. found = Foremost(request, S, n + 1) /\ items = Foremost(request, found, n)
      OBVIOUS
    <3> HIDE DEF found, items
    <3> QED BY <2>3, <3>1, <3>2, PageIsPrefix
  <2>5. \A row \in items :
          /\ row \in Matching(request, mount)
          /\ WindowAdmits(Narrowed(request.scope, mount), PlaceOf(row))
    BY <2>2, <2>3, <2>4 DEF Matching
  <2>6. \A item \in new : \E row \in items : item = Listed(request, mount, row)
    OBVIOUS
  <2>7. ASSUME NEW row \in items
        PROVE  \E item \in new : item.row = row
    <3>1. Listed(request, mount, row) \in new
      OBVIOUS
    <3>2. Listed(request, mount, row).row = row
      BY DEF Listed
    <3> HIDE DEF new
    <3> QED BY <3>1, <3>2
  <2> HIDE DEF found, items, last, new
  <2>8. Shape'
    BY <1>1, <2>1, ReaderFacts DEF Shape
  <2>9. Found'
    <3>1. ASSUME NEW row \in items
          PROVE  LET item == Listed(request, mount, row) IN
                 InReach(request.scope, item.mount, PlaceOf(item.row))
      <4>1. InReach(request.scope, mount, PlaceOf(row))
        BY <1>4, <2>5, AdmittedIsInReach
      <4> QED BY <4>1 DEF Listed
    <3>2. \A item \in reader'.rows : InReach(request.scope, item.mount, PlaceOf(item.row))
      BY <2>1, <2>6, <3>1, ReaderFacts DEF Found
    <3> QED BY <1>1, <3>2 DEF Found, PlaceOf, HomeOf
  <2>10. TurnedAway'
    BY <1>1, <1>4 DEF TurnedAway, MountVisible
  <2>11. ListHidesOpeners'
    <3>1. ASSUME NEW row \in items, Listed(request, mount, row).tells # None
          PROVE  LET told == Listed(request, mount, row).tells IN
                 told \notin Opens \/ Patched(told) \/ Patched(ThreadOf[told])
      BY <1>1, <2>5, <3>1, ToldIsExcused
    <3>2. \A item \in reader.rows : item.tells # None =>
            item.tells \notin Opens \/ Patched(item.tells) \/ Patched(ThreadOf[item.tells])
      BY ReaderFacts DEF ListHidesOpeners, Patched
    <3>3. \A item \in reader'.rows : item.tells # None =>
            item.tells \notin Opens \/ Patched(item.tells) \/ Patched(ThreadOf[item.tells])
      BY <2>1, <2>6, <3>1, <3>2
    <3> QED BY <1>1, <3>3 DEF ListHidesOpeners, Patched
  <2>12. Bodied'
    BY <1>1, <2>1 DEF Bodied, BodyHonest, Lists
  <2>13. Links'
    BY <2>1, OldBlobsStay DEF Links, BytesWereReadable
  <2>14. Walked'
    <3>1. CASE reader.at = "start" /\ found = items
      <4>1. steady' = steady /\ steady = {} /\ at = "done"
        BY <2>1, <3>1, ReaderFacts DEF ReaderMoves, WatchWalk, Walked
      <4> QED BY <2>1, <4>1 DEF Walked, WalkComplete
    <3>2. SUFFICES ASSUME reader.at = "walking" \/ found # items,
                          request.then = request.mount
                   PROVE  /\ found # items => token.key \in Nat \X Nat
                          /\ steady' \subseteq Matching(request, request.mount)
                          /\ \A row \in steady' :
                               \/ \E item \in reader'.rows : item.row = row
                               \/ found # items
                                    /\ (token # NoToken => Ahead(request, token.key, Key(request, row)))
      <4>1. request' = request /\ reader'.at = at /\ reader'.cursor = token
        BY <1>1, <2>1
      <4>2. Matching(request, request.mount)' = Matching(request, request.mount)
        BY <1>1 DEF Matching, Rows, RowPlace, RowLabels, HomeOf
      <4>3. \A row : Key(request, row)' = Key(request, row)
        BY <1>1 DEF Key, RowStamp
      <4>4. at # "start" /\ (at = "walking" <=> found # items) /\ at \in {"walking", "done"}
        OBVIOUS
      <4> HIDE DEF at, token
      <4>5. ASSUME at = "walking", request.then = request.mount
            PROVE  /\ steady' \subseteq Matching(request, request.mount)'
                   /\ reader'.cursor.key \in Nat \X Nat
                   /\ \A row \in steady' :
                        \/ \E item \in reader'.rows : item.row = row
                        \/ PastToken(request, reader.cursor, row)'
        BY <3>2, <4>1, <4>2, <4>3, <4>4, <4>5 DEF PastToken, Ahead, direction_for
      <4>6. WalkComplete'
        <5> SUFFICES ASSUME at = "done", request.then = request.mount
                     PROVE  \A row \in steady' : \E item \in reader'.rows : item.row = row
          BY <4>1 DEF WalkComplete, Done
        <5>1. CASE reader.at = "start" /\ found = items
          BY <2>1, <5>1, ReaderFacts DEF ReaderMoves, WatchWalk, Walked
        <5>2. CASE ~(reader.at = "start" /\ found = items)
          <6>1. reader.at = "walking" \/ found # items
            BY <1>1, <5>2
          <6>2. ~(found # items)
            BY <4>4
          <6> QED BY <3>2, <6>1, <6>2
        <5> QED BY <5>1, <5>2
      <4> QED BY <1>1, <4>1, <4>4, <4>5, <4>6 DEF Walked
    <3>3. mount = request.mount
      BY <3>2
    <3>4. found # items => token.key \in Nat \X Nat /\ token.key = Key(request, last)
      BY <2>3, <2>4 DEF Keyed
    <3>5. steady' \subseteq Matching(request, request.mount)
      <4>1. Matching(request, request.mount)' = Matching(request, request.mount)
        BY <1>1 DEF Matching, Rows, RowPlace, RowLabels, HomeOf
      <4>2. CASE reader.at = "start"
        BY <2>1, <3>2, <4>2 DEF ReaderMoves, WatchWalk
      <4>3. CASE reader.at = "walking"
        BY <4>1, <4>3 DEF ReaderMoves, WatchWalk
      <4> QED BY <1>1, <4>2, <4>3
    <3>6. ASSUME NEW row \in steady', ~\E item \in reader'.rows : item.row = row
          PROVE  found # items /\ Ahead(request, Key(request, last), Key(request, row))
      <4>1. row \notin items
        BY <2>1, <2>7, <3>6
      <4>2. PastToken(request, reader.cursor, row)
        <5>1. CASE reader.at = "start"
          <6>1. reader.cursor = NoToken
            BY <5>1, ReaderFacts DEF Shape, Idle
          <6> QED BY <6>1 DEF PastToken
        <5>2. CASE reader.at = "walking"
          <6>1. row \in steady
            BY <5>2, <3>6 DEF ReaderMoves, WatchWalk
          <6>2. ~\E item \in reader.rows : item.row = row
            BY <2>1, <3>6
          <6> QED BY <3>2, <5>2, <6>1, <6>2, ReaderFacts DEF Walked
        <5> QED BY <1>1, <5>1, <5>2
      <4>3. row \in S
        BY <3>3, <3>5, <3>6, <4>2
      <4> HIDE DEF S
      <4> QED BY <2>4, <4>1, <4>3
    <3> QED BY <3>4, <3>5, <3>6
  <2> QED BY <2>8, <2>9, <2>10, <2>11, <2>12, <2>13, <2>14 DEF ReaderInv
<1> QED BY <1>3, <1>2, <1>5, <1>6, <1>7 DEF Page, Fetched

(***************************************************************************)
(* The whole.                                                              *)
(***************************************************************************)
LEMMA InitInv ==
  ASSUME Init
  PROVE  IInv
<1>1. PICK crowd \in Crowds : write = [w \in crowd |-> [at |-> "idle", read |-> {}]]
  BY DEF Init
<1>2. DOMAIN threads = {} /\ DOMAIN messages = {}
  BY DEF Init
<1>3. Tables
  BY <1>2 DEF Tables
<1>4. Arrivals
  BY <1>2, MailAssumption DEF Arrivals, Init
<1>5. DOMAIN write = crowd /\ \A w \in DOMAIN write : write[w] = [at |-> "idle", read |-> {}]
  BY <1>1
<1>6. Writes
  BY <1>5 DEF Writes
<1>7. Locks /\ PatchSticks
  BY <1>5 DEF Locks, PatchSticks
<1>8. AsArrived
  BY <1>2 DEF AsArrived
<1>9. /\ request \in Requests /\ reader = Idle /\ steady = {} /\ clock = 0
      /\ readable = [b \in Blobs |-> -1]
  BY DEF Init, Blobs
<1>10. Shape /\ Found /\ TurnedAway /\ Walked /\ ListHidesOpeners /\ Bodied
  BY <1>9, OrderAssumption
     DEF Shape, Found, TurnedAway, Walked, WalkComplete, ListHidesOpeners, Bodied, BodyHonest,
         Done, Idle
<1>11. Links
  BY <1>9 DEF Links, BytesWereReadable, Idle
<1> QED
  BY <1>3, <1>4, <1>6, <1>7, <1>8, <1>10, <1>11 DEF IInv, StoreInv, ReaderInv

(* A letter changes the store, and the reader only in what it must not     *)
(* lose.                                                                   *)
LEMMA ArriveInv ==
  ASSUME IInv, NEW m \in Messages, Arrive(m), UNCHANGED <<write, reader, clock, request>>,
         WatchWalk, WatchBlobs
  PROVE  IInv'
<1>1. StoreInv /\ Shape
  BY DEF IInv, ReaderInv
<1>2. StoreInv'
  BY <1>1, OpenThreadInv, JoinThreadInv, InsertMessageInv, RecordMemberInv DEF Arrive
<1>3. Tables'
  BY <1>2 DEF StoreInv
<1>4. \A row : Patched(row) => Patched(row)'
  BY DEF Patched
<1>5. clock \in 0..MaxClock /\ clock \in Nat
  BY <1>1, OrderAssumption DEF Shape
<1>6. ReaderInv'
  BY <1>3, <1>4, <1>5, ReaderStays
<1> QED BY <1>2, <1>6 DEF IInv

(* A step of another caller's write: the same, for the store of which it   *)
(* moves one write.                                                        *)
LEMMA WriteInv ==
  ASSUME IInv, NEW w \in DOMAIN write, Write(w), UNCHANGED <<arrival, reader, clock, request>>,
         WatchWalk, WatchBlobs
  PROVE  IInv'
<1>1. StoreInv /\ Shape
  BY DEF IInv, ReaderInv
<1>2. StoreInv'
  BY <1>1, RefuseWriteInv, ReadLabelsInv, WriteLabelsInv, DeleteInv DEF Write
<1>3. Tables'
  BY <1>2 DEF StoreInv
<1>4. write[w].at \in {"idle", "holding"}
  BY DEF Write, RefuseWrite, ReadLabels, WriteLabels, Delete, Accepted
<1>5. \E row : write' = [write EXCEPT ![w] = row]
  <2>1. CASE RefuseWrite(w)
    BY <2>1 DEF RefuseWrite, Settled
  <2>2. CASE ReadLabels(w)
    BY <2>2 DEF ReadLabels
  <2>3. CASE WriteLabels(w)
    BY <2>3 DEF WriteLabels, Settled
  <2>4. CASE Delete(w)
    BY <2>4 DEF Delete, Settled
  <2> QED BY <2>1, <2>2, <2>3, <2>4 DEF Write
<1>6. \A row : Patched(row) => Patched(row)'
  BY <1>4, <1>5 DEF Patched
<1>7. clock \in 0..MaxClock /\ clock \in Nat
  BY <1>1, OrderAssumption DEF Shape
<1>8. ReaderInv'
  BY <1>3, <1>6, <1>7, ReaderStays
<1> QED BY <1>2, <1>8 DEF IInv

(* What leaves the store alone keeps its invariant.                        *)
LEMMA StoreStays ==
  ASSUME StoreInv, UNCHANGED <<threads, messages, arrival, write>>
  PROVE  StoreInv'
  BY DEF StoreInv, Tables, Arrivals, Writes, Locks, PatchSticks, AsArrived, Counted, Known,
         Patched, ThreadRow, Exists, PlaceOf, HomeOf, LabelsOf, InReach

(* A step of the reader: the store stays, one of the lemmas above holds.   *)
LEMMA ReadInv ==
  ASSUME IInv, Read, UNCHANGED <<tables, arrival, write, clock, request>>, WatchWalk, WatchBlobs
  PROVE  IInv'
<1>1. ReaderMoves
  BY DEF ReaderMoves, tables
<1>2. StoreInv'
  BY StoreStays DEF IInv, tables
<1>3. ReaderInv'
  BY <1>1, PageInv, ReadThreadInv, ReadMembersInv, ReadMessageInv, MintLinkInv, FetchBlobInv
     DEF Read
<1> QED BY <1>2, <1>3 DEF IInv

(* Time passes.                                                            *)
LEMMA TickInv ==
  ASSUME IInv, Tick, UNCHANGED <<tables, arrival, write, reader, request>>, WatchWalk, WatchBlobs
  PROVE  IInv'
<1>1. StoreInv' /\ Tables'
  BY StoreStays DEF IInv, tables, StoreInv
<1>2. clock' \in 0..MaxClock /\ clock <= clock'
  BY OrderAssumption DEF IInv, ReaderInv, Shape, Tick
<1>3. \A row : Patched(row) => Patched(row)'
  BY DEF Patched
<1>4. ReaderInv'
  BY <1>1, <1>2, <1>3, ReaderStays
<1> QED BY <1>1, <1>4 DEF IInv

(* A step that changes nothing.                                            *)
LEMMA StutterInv ==
  ASSUME IInv, UNCHANGED vars
  PROVE  IInv'
<1>1. StoreInv'
  BY StoreStays DEF IInv, vars, tables
<1>2. /\ UNCHANGED <<threads, messages, write, request, reader, steady, clock, readable>>
      /\ ReaderInv
  BY DEF IInv, vars
<1>3. /\ Matching(request, request.mount)' = Matching(request, request.mount)
      /\ \A row : PastToken(request, reader.cursor, row)' = PastToken(request, reader.cursor, row)
  BY <1>2 DEF Matching, Rows, RowPlace, RowLabels, HomeOf, PastToken, Ahead, Key, RowStamp
<1>4. Shape' /\ Found' /\ TurnedAway'
  BY <1>2 DEF ReaderInv, Shape, Found, TurnedAway, Done, MountVisible, PlaceOf, HomeOf
<1>5. Walked' /\ ListHidesOpeners'
  BY <1>2, <1>3 DEF ReaderInv, Walked, WalkComplete, Done, ListHidesOpeners
<1>6. Bodied' /\ Links'
  BY <1>2 DEF ReaderInv, Bodied, BodyHonest, Done, Links, BytesWereReadable
<1> QED BY <1>1, <1>4, <1>5, <1>6 DEF IInv, ReaderInv

(* The invariant holds in every reachable state, whatever the mail, the    *)
(* requests and the writes around them.                                    *)
THEOREM Inductive == Spec => []IInv
<1>1. Init => IInv
  BY InitInv
<1>2. IInv /\ [Next]_vars => IInv'
  <2> SUFFICES ASSUME IInv, [Next]_vars
               PROVE  IInv'
    OBVIOUS
  <2>1. CASE Read /\ UNCHANGED <<tables, arrival, write, clock, request>>
             /\ WatchWalk /\ WatchBlobs
    BY <2>1, ReadInv
  <2>2. ASSUME NEW m \in Messages, Arrive(m), UNCHANGED <<write, reader, clock, request>>,
               WatchWalk, WatchBlobs
        PROVE  IInv'
    BY <2>2, ArriveInv
  <2>3. ASSUME NEW w \in DOMAIN write, Write(w),
               UNCHANGED <<arrival, reader, clock, request>>, WatchWalk, WatchBlobs
        PROVE  IInv'
    BY <2>3, WriteInv
  <2>4. CASE Tick /\ UNCHANGED <<tables, arrival, write, reader, request>>
             /\ WatchWalk /\ WatchBlobs
    BY <2>4, TickInv
  <2>5. CASE UNCHANGED vars
    BY <2>5, StutterInv
  <2> QED BY <2>1, <2>2, <2>3, <2>4, <2>5 DEF Next
<1> QED BY <1>1, <1>2, PTL DEF Spec

(* Types, counts that never exceed the messages there are, and a thread's  *)
(* row for every stored message: the foreign key, as every interleaving of *)
(* letters and deletions keeps it.                                         *)
THEOREM TypeCorrect == Spec => []TypeOK
<1>1. IInv => TypeOK
  <2> SUFFICES ASSUME IInv
               PROVE  TypeOK
    OBVIOUS
  <2>1. Tables /\ Arrivals /\ Writes /\ Shape
    BY DEF IInv, StoreInv, ReaderInv
  <2>2. \A t \in DOMAIN threads : threads[t].count \in 1..Cardinality(Messages)
    <3> SUFFICES ASSUME NEW t \in DOMAIN threads
                 PROVE  threads[t].count \in 1..Cardinality(Messages)
      OBVIOUS
    <3>1. Counted(t) \in SUBSET Messages
      BY DEF Counted
    <3>2. /\ Cardinality(Counted(t)) \in Nat /\ Cardinality(Messages) \in Nat
          /\ Cardinality(Counted(t)) <= Cardinality(Messages)
      BY <3>1, SomeMessages
    <3>3. threads[t].count \in 1..Cardinality(Counted(t))
      BY <2>1 DEF Tables
    <3> QED BY <3>2, <3>3
  <2> QED BY <2>1, <2>2 DEF TypeOK, Tables, Arrivals, Writes, Shape
<1> QED BY <1>1, Inductive, PTL

(* A mount outside the caller's reach answers as one that does not exist.  *)
THEOREM AbsentAndHiddenAgree == Spec => []OutOfScopeIsNotFound
<1>1. IInv => OutOfScopeIsNotFound
  BY DEF IInv, ReaderInv, TurnedAway, OutOfScopeIsNotFound, Done
<1> QED BY <1>1, Inductive, PTL

(* Nothing is answered or written outside the credential's scope and the   *)
(* mount.                                                                  *)
THEOREM NothingOutsideTheWindow == Spec => []WindowHeld
<1>1. IInv => WindowHeld
  BY DEF IInv, StoreInv, ReaderInv, Writes, Found, WindowHeld
<1> QED BY <1>1, Inductive, PTL

(* A walk to the end loses no row that stayed where it was.                *)
THEOREM WalksLoseNothing == Spec => []WalkComplete
<1>1. IInv => WalkComplete
  BY DEF IInv, ReaderInv, Walked
<1> QED BY <1>1, Inductive, PTL

(* A thread's body shows and counts only what its reader may see, and      *)
(* tells of a message it hides by subject and updated_at alone.            *)
THEOREM BodiesAreHonest == Spec => []BodyHonest
<1>1. IInv => BodyHonest
  BY DEF IInv, ReaderInv, Bodied
<1> QED BY <1>1, Inductive, PTL

(* A list names a hidden message only if it joined a thread that shows, or *)
(* a PATCH came between.                                                   *)
THEOREM ListsKeepOpenersHidden == Spec => []ListHidesOpeners
<1>1. IInv => ListHidesOpeners
  BY DEF IInv, ReaderInv
<1> QED BY <1>1, Inductive, PTL

(* No label change is lost to a concurrent one.                            *)
THEOREM PatchesStick == Spec => []PatchSticks
<1>1. IInv => PatchSticks
  BY DEF IInv, StoreInv
<1> QED BY <1>1, Inductive, PTL

(* Bytes without a credential only within TTL of a moment at which the     *)
(* credential could read them.                                             *)
THEOREM BytesComeFromReaders == Spec => []BytesWereReadable
<1>1. IInv => BytesWereReadable
  BY DEF IInv, ReaderInv, Links
<1> QED BY <1>1, Inductive, PTL
=============================================================================
