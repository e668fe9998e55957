------------------------- MODULE ControlPlaneProofs -------------------------
(***************************************************************************)
(* No chain of calls widens a key or answers outside one, whatever the     *)
(* deployment, however many calls run at once, and however their           *)
(* statements fall between each other's.                                   *)
(*                                                                         *)
(* The invariant has two halves.  TablesInv is about rows: references lead *)
(* to rows, client ids are unique, and each key is within all it descends  *)
(* from.  CallInv is about one call: what it has read by the statement it  *)
(* stands at, how much of that is still so (OwnKey always, Undisturbed     *)
(* while no deletion overtakes it), and what its answer rests on.          *)
(*                                                                         *)
(* Rows are never rewritten, so a step changes what another call knows     *)
(* only by adding a row or removing one; Frame says so, and OtherKeeps     *)
(* carries every other call over any step.  What is left of each handler   *)
(* is its statement (PodComes ... KeyGoes) and its own call.               *)
(*                                                                         *)
(* A mint is right by four facts: the window lies in the minter's scope,   *)
(* derive_child lets through only what the minter has, the minter was      *)
(* within its ancestors when it was read, and places do not move.  The     *)
(* last is why a key that dies with its inbox matters: an address taken    *)
(* again may lie in another pod.                                           *)
(***************************************************************************)
EXTENDS ControlPlane, AccessProofs, FiniteSetTheorems, WellFoundedInduction, TLAPS

(***************************************************************************)
(* The tables.                                                             *)
(***************************************************************************)

(* Tables hold ids of their kind, and every secret in use is accounted     *)
(* for.                                                                    *)
Rows ==
  /\ orgs \subseteq Ids
  /\ DOMAIN pods \subseteq Ids /\ IsFiniteSet(DOMAIN pods)
  /\ DOMAIN inboxes \subseteq Addresses /\ IsFiniteSet(DOMAIN inboxes)
  /\ DOMAIN keys \subseteq Secrets /\ IsFiniteSet(DOMAIN keys)
  /\ DOMAIN keys \subseteq DOMAIN ancestry

(* Foreign keys lead to rows; a key of an inbox was minted for that inbox. *)
References ==
  /\ \A p \in DOMAIN pods : pods[p].org \in orgs
  /\ \A i \in DOMAIN inboxes : inboxes[i].org \in orgs /\ inboxes[i].pod \in DOMAIN pods
  /\ \A s \in DOMAIN keys :
       /\ keys[s].org \in orgs /\ Anchored(keys[s]) /\ OneScope(keys[s])
       /\ keys[s].grants \in Grants
       /\ keys[s].inbox # None => inboxes[keys[s].inbox].by = ancestry[s].born

TablesInv ==
  Rows /\ References /\ UniqueClients(pods) /\ UniqueClients(inboxes) /\ DescendantsWithin

(***************************************************************************)
(* Ids and secrets that are yet to come.                                   *)
(***************************************************************************)

(* Calls that have yet to use the id they made up, or a secret.            *)
Making(c) ==
  \/ c.op = "create_pod" /\ job[c].at # "done"
  \/ c.op = "init" /\ job[c].at \in {"start", "organization", "default_pod"}

Drawing(c) == c.op \in {"create_key", "init"} /\ job[c].at # "done"

(* No row and no credential knows such an id, and no key has such a        *)
(* secret.                                                                 *)
Unused ==
  /\ \A c \in Calls : Making(c) =>
       /\ c.id \notin DOMAIN pods
       /\ \A s \in DOMAIN keys : keys[s].org # c.id
       /\ \A d \in Calls : job[d].key.org # c.id
  /\ \A c \in Calls : Drawing(c) => Drawn(c) \cap DOMAIN ancestry = {}

(* An inbox with a maker lies in the pod its maker was let into.           *)
Makers ==
  \A i \in DOMAIN inboxes : \A c \in Calls : inboxes[i].by = c =>
    /\ job[c].at = "done" /\ c.op = "create_inbox"
    /\ inboxes[i].pod = PodFor(c) /\ ~RuledOut(job[c].scope, c.mount)

(***************************************************************************)
(* One call.                                                               *)
(***************************************************************************)

(* Past authentication; past the resolution of its scope.                  *)
Known(c)  == job[c].key.org # None
Placed(c) == job[c].scope.org # None

(* Where a call stands, and what it must have by then.                     *)
Shape(c) ==
  /\ job[c] = [at |-> job[c].at, key |-> job[c].key, scope |-> job[c].scope,
               saw |-> job[c].saw, answer |-> job[c].answer, row |-> job[c].row,
               rows |-> job[c].rows, cursor |-> job[c].cursor, tries |-> job[c].tries]
  /\ job[c].at \in {"start", "known", "granted", "inside", "insert", "replay", "done",
                    "organization", "default_pod", "root_key"}
  /\ job[c].tries \in 0..MINT_ATTEMPTS - 1
  /\ job[c].at \in {"organization", "default_pod", "root_key"} => c.op = "init"
  /\ job[c].at \in {"known", "granted", "inside", "insert", "replay"} => Known(c)
  /\ job[c].at \in {"granted", "inside", "insert", "replay"} => Placed(c)
  /\ job[c].at = "insert" => c.op = "create_inbox"
  /\ job[c].at = "replay" => c.op \in {"create_pod", "create_inbox"}
  /\ c.op \notin Lists => job[c].cursor = NoToken
  /\ job[c].cursor # NoToken => Placed(c)
  /\ job[c].cursor = NoToken /\ job[c].at # "done" => job[c].rows = {}

(* A call's key is its row while there is one, and within all the row      *)
(* descends from, deleted ancestors too.                                   *)
OwnKey(c) ==
  /\ ~Known(c) => job[c].key = NoKey
  /\ Known(c) =>
       /\ c.op # "init" /\ c.secret \in DOMAIN ancestry
       /\ c.secret \in DOMAIN keys => keys[c.secret] = job[c].key
       /\ job[c].key.org \in orgs /\ OneScope(job[c].key) /\ job[c].key.grants \in Grants
       /\ \A a \in ancestry[c.secret].of :
            /\ Within(job[c].key.grants, a.grants)
            /\ job[c].key.inbox = None =>
                 Inside(Place(job[c].key.org, job[c].key.pod, None), a.scope)

(* Its scope is its key's, with the pod its inbox was found in.            *)
OwnScope(c) ==
  /\ ~Placed(c) => job[c].scope = Place(None, None, None)
  /\ Placed(c) =>
       /\ Known(c)
       /\ job[c].scope = Place(job[c].key.org, job[c].scope.pod, job[c].key.inbox)
       /\ job[c].key.inbox = None => job[c].scope.pod = job[c].key.pod
       /\ job[c].key.inbox # None => job[c].scope.pod # None

(* Past the gate, the mount was not ruled out and what is minted was       *)
(* derived.                                                                *)
Admitted(c) ==
  job[c].at \in {"inside", "insert", "replay"} =>
    /\ ~RuledOut(job[c].scope, MountOf(c)) /\ Own(c)
    /\ c.op = "create_key" => Within(c.grants, job[c].key.grants)

(* The ids a window is pinned to are of rows that lie in it.               *)
Stands(w) ==
  /\ w.pod \in DOMAIN pods \cup {None}
  /\ w.inbox # None => w.inbox \in DOMAIN inboxes /\ WindowAdmits(w, InboxPlace(w.inbox))

ReplayedBy(c) ==
  Replayed(IF c.op = "create_pod" THEN pods ELSE inboxes, job[c].key.org, c.client)

(* While no deletion overtakes a call, all it has read is still so.        *)
Undisturbed(c) ==
  c \notin overtaken /\ Known(c) /\ job[c].at # "done" =>
    /\ c.secret \in DOMAIN keys
    /\ Placed(c) /\ job[c].key.inbox # None =>
         InboxPlace(job[c].key.inbox) = job[c].scope
    /\ job[c].at \in {"inside", "insert"} /\ c.op \notin OwnInbox => Stands(Window(c))
    /\ job[c].at = "replay" => ReplayedBy(c) # {}

(* The inbox it was served on is the one its key was minted for.           *)
Born(c) ==
  c \notin overtaken /\ c.op # "init" /\ job[c].saw # {} =>
    Known(c) /\ job[c].saw = {ancestry[c.secret].born}

(* All it has shown was in reach, and under the mount it was asked at.     *)
InReach(c) ==
  /\ c \notin overtaken =>
       \A seen \in job[c].rows : Inside(seen.place, Reach(c)) /\ Under(seen.mount, seen.place)

(* The row it was answered with is the client id's, or gone.               *)
Created(c) ==
  Ok(c) =>
    /\ c.op = "create_pod" =>
         \/ job[c].row \in gone
         \/ \E p \in DOMAIN pods : /\ job[c].row = <<p, None>> /\ pods[p].client = c.client
                                   /\ pods[p].org = job[c].key.org
    /\ c.op = "create_inbox" =>
         \/ job[c].row \in gone
         \/ \E i \in DOMAIN inboxes :
              /\ job[c].row = <<i, inboxes[i].by>> /\ inboxes[i].client = c.client
              /\ inboxes[i].org = job[c].key.org

(* An internal error has one of the reasons ErrorHasCause lists.           *)
Explained(c) ==
  Done(c) /\ job[c].answer = "internal" =>
    \/ c \in overtaken
    \/ c.op \in {"create_key", "init"} /\ job[c].tries = MINT_ATTEMPTS - 1
    \/ c.op = "create_inbox" /\ (job[c].key.org \notin DOMAIN pods \/ Unnamed(c))
    \/ c.op = "create_key" /\ ~OneScope(Window(c))

(* The walk's window on every page.                                        *)
WalkWindow(c) == Narrowed(job[c].scope, c.mount)

(* A walk that keeps to its mount holds a token of its own window, and a   *)
(* row it must not lose has been shown or lies past the token.             *)
Walking(c) ==
  c.op \in Lists /\ c.mount = c.then =>
    /\ job[c].answer # "bad_token"
    /\ job[c].cursor = NoToken => steady[c] = {}
    /\ job[c].cursor # NoToken =>
         /\ job[c].cursor.after \in Ids \cup Addresses \cup Secrets
         /\ c.op = "list_keys" =>
              /\ [pod |-> job[c].cursor.pod, inbox |-> job[c].cursor.inbox]
                   = Coordinates(KeyScopeFor(WalkWindow(c)))
              /\ job[c].key.inbox # None => WalkWindow(c).inbox = job[c].key.inbox
         /\ c.op # "list_keys" => job[c].key.inbox = None
         /\ c.op = "list_pods" => WalkWindow(c).pod = None
         /\ c.op = "list_inboxes" => /\ WalkWindow(c).inbox = None
                                     /\ Within1(WalkWindow(c).pod, job[c].cursor.pod)
         /\ job[c].at # "done" =>
              \A row \in steady[c] :
                \/ \E seen \in job[c].rows : seen.id = row
                \/ row \in Matching(c) /\ Order[job[c].cursor.after] < Order[row]
    /\ Done(c) /\ job[c].answer = "ok" =>
         \A row \in steady[c] : \E seen \in job[c].rows : seen.id = row

CallInv(c) ==
  /\ Shape(c) /\ OwnKey(c) /\ OwnScope(c) /\ Admitted(c) /\ Undisturbed(c) /\ Born(c)
  /\ InReach(c) /\ Created(c) /\ Explained(c) /\ Walking(c)

(***************************************************************************)
(* amk init.                                                               *)
(***************************************************************************)

(* Runs of amk init that found no organization and may have made one.      *)
Checked(c) == c.op = "init" /\ (job[c].at = "organization" \/ c.id \in orgs)

(* A run that has checked is seen by, or has seen, every other that has.   *)
InitsInv ==
  /\ \A c \in Calls : c.op = "init" /\ c.id \in orgs =>
       job[c].at \in {"default_pod", "root_key", "done"}
  /\ \A c \in Calls : job[c].at \in {"default_pod", "root_key"} => c.id \in orgs
  /\ \A c, d \in Calls : c # d /\ Checked(c) /\ Checked(d) =>
       c \in job[d].saw \/ d \in job[c].saw

(* The calls are those of a deployment to start from.                      *)
Fits == \E start \in Starts : Calls = start.calls

IInv ==
  /\ Fits /\ TablesInv /\ Unused /\ Makers /\ InitsInv
  /\ \A c \in Calls : CallInv(c)

(***************************************************************************)
(* The calls there are.                                                    *)
(***************************************************************************)

(* What StartsAssumption says of the calls, in terms of the state.         *)
LEMMA CallsFit ==
  ASSUME Fits
  PROVE  /\ \A c \in Calls : Routed(c) /\ Made(c) \subseteq Ids /\ Drawn(c) \subseteq Secrets
         /\ \A c, d \in Calls :
              c # d => Made(c) \cap Made(d) = {} /\ Drawn(c) \cap Drawn(d) = {}
BY StartsAssumption DEF Fits, Called

(* None is an id of nothing.                                               *)
LEMMA NoneApart == None \notin Ids /\ None \notin Addresses /\ None \notin Secrets
BY OrderAssumption

(***************************************************************************)
(* What any step leaves alone: rows that stay keep what they say, those    *)
(* that leave are remembered, and whoever is under way hears of it.        *)
(***************************************************************************)

(* Rows are never rewritten, and no pod comes under an id that a key names *)
(* as its organization.                                                    *)
Persist ==
  /\ orgs \subseteq orgs'
  /\ \A p \in DOMAIN pods : p \in DOMAIN pods' => pods'[p] = pods[p]
  /\ \A i \in DOMAIN inboxes : i \in DOMAIN inboxes' => inboxes'[i] = inboxes[i]
  /\ \A s \in DOMAIN keys : s \in DOMAIN keys' => keys'[s] = keys[s]
  /\ \A s \in DOMAIN keys' \ DOMAIN keys : s \notin DOMAIN ancestry
  /\ \A c \in Calls : job[c].key.org \notin DOMAIN pods' \ DOMAIN pods
  /\ Calls' = Calls

(* Persist, and what the history makes of it.                              *)
Frame ==
  /\ Persist
  /\ \A p \in DOMAIN pods \ DOMAIN pods' : <<p, None>> \in gone'
  /\ \A i \in DOMAIN inboxes \ DOMAIN inboxes' : <<i, inboxes[i].by>> \in gone'
  /\ gone \subseteq gone' /\ overtaken \subseteq overtaken'
  /\ \A s \in DOMAIN ancestry : s \in DOMAIN ancestry' /\ ancestry'[s] = ancestry[s]
  /\ \/ /\ DOMAIN pods \subseteq DOMAIN pods' /\ DOMAIN inboxes \subseteq DOMAIN inboxes'
        /\ DOMAIN keys \subseteq DOMAIN keys'
     \/ \A c \in Calls : UnderWay(c) => c \in overtaken'
  /\ \A c \in Calls : job'[c].cursor = job[c].cursor =>
       /\ steady'[c] \subseteq steady[c]
       /\ \A row \in steady'[c] :
            /\ row \in DOMAIN pods => row \in DOMAIN pods'
            /\ row \in DOMAIN inboxes => row \in DOMAIN inboxes'
            /\ row \in DOMAIN keys => row \in DOMAIN keys'

(* Whatever rows a step adds and removes, the history keeps up with it.    *)
LEMMA ObservedFrame ==
  ASSUME Observe, Persist
  PROVE  Frame
<1>1. /\ \A p \in DOMAIN pods \ DOMAIN pods' : <<p, None>> \in Left
      /\ \A i \in DOMAIN inboxes \ DOMAIN inboxes' : <<i, inboxes[i].by>> \in Left
      /\ \A s \in DOMAIN keys \ DOMAIN keys' : <<s, None>> \in Left
  BY DEF Left
<1>2. /\ gone' = gone \cup Left
      /\ overtaken' = overtaken \cup IF Left = {} THEN {} ELSE {c \in Calls : UnderWay(c)}
  BY DEF Observe
<1>3. \A s \in DOMAIN ancestry : s \in DOMAIN ancestry' /\ ancestry'[s] = ancestry[s]
  BY DEF Observe, Persist
<1>4. \/ /\ DOMAIN pods \subseteq DOMAIN pods' /\ DOMAIN inboxes \subseteq DOMAIN inboxes'
         /\ DOMAIN keys \subseteq DOMAIN keys'
      \/ \A c \in Calls : UnderWay(c) => c \in overtaken'
  BY <1>1, <1>2
<1>5. ASSUME NEW c \in Calls, job'[c].cursor = job[c].cursor
      PROVE  steady'[c] = steady[c] \ {row[1] : row \in Left}
  BY <1>5 DEF Observe
<1>6. /\ \A p \in DOMAIN pods \ DOMAIN pods' : p \in {row[1] : row \in Left}
      /\ \A i \in DOMAIN inboxes \ DOMAIN inboxes' : i \in {row[1] : row \in Left}
      /\ \A s \in DOMAIN keys \ DOMAIN keys' : s \in {row[1] : row \in Left}
  <2>1. ASSUME NEW id, NEW by, <<id, by>> \in Left
        PROVE  id \in {row[1] : row \in Left}
    <3>1. <<id, by>>[1] = id
      OBVIOUS
      <3> QED BY <2>1, <3>1
  <2> QED BY <1>1, <2>1
<1>7. QED
  BY <1>1, <1>2, <1>3, <1>4, <1>5, <1>6 DEF Frame

(***************************************************************************)
(* A call that does not move.                                              *)
(***************************************************************************)

(* The key a call was let in with is its key still, or a row no more.      *)
LEMMA OwnKeyKept ==
  ASSUME Frame, NEW c \in Calls, OwnKey(c), job'[c].key = job[c].key
  PROVE  OwnKey(c)'
<1>1. Known(c)' = Known(c)
  BY DEF Known
<1>2. CASE ~Known(c)
  BY <1>1, <1>2 DEF OwnKey
<1>3. CASE Known(c)
  <2>1. c.secret \in DOMAIN ancestry' /\ ancestry'[c.secret] = ancestry[c.secret]
    BY <1>3 DEF OwnKey, Frame
  <2>2. c.secret \in DOMAIN keys' => keys'[c.secret] = job'[c].key
    BY <1>3 DEF OwnKey, Frame, Persist
  <2>3. job'[c].key.org \in orgs'
    BY <1>3 DEF OwnKey, Frame, Persist
  <2> QED BY <1>1, <1>3, <2>1, <2>2, <2>3 DEF OwnKey, OneScope
<1> QED BY <1>2, <1>3

(* A scope is a fact about the call alone.                                 *)
LEMMA OwnScopeKept ==
  ASSUME NEW c, OwnScope(c), job'[c].key = job[c].key, job'[c].scope = job[c].scope
  PROVE  OwnScope(c)'
BY DEF OwnScope, Placed, Known

(* What a call saw of its inbox is what its key was minted for.            *)
LEMMA BornKept ==
  ASSUME Frame, NEW c \in Calls, Born(c), OwnKey(c),
         job'[c].key = job[c].key, job'[c].saw = job[c].saw
  PROVE  Born(c)'
<1> SUFFICES ASSUME c \notin overtaken', c.op # "init", job'[c].saw # {}
             PROVE  Known(c)' /\ job'[c].saw = {ancestry'[c.secret].born}
  BY DEF Born
<1>1. c \notin overtaken
  BY DEF Frame
<1>2. Known(c) /\ job[c].saw = {ancestry[c.secret].born}
  BY <1>1 DEF Born
<1>3. ancestry'[c.secret] = ancestry[c.secret]
  BY <1>2 DEF OwnKey, Frame
<1> QED BY <1>2, <1>3 DEF Known

(* What was shown was in reach, whatever becomes of it.                    *)
LEMMA InReachKept ==
  ASSUME Frame, NEW c \in Calls, InReach(c),
         job'[c].scope = job[c].scope, job'[c].rows = job[c].rows
  PROVE  InReach(c)'
<1>1. overtaken \subseteq overtaken'
  BY DEF Frame
<1> QED BY <1>1 DEF InReach, Reach

(* The row a create was answered with is there, or is remembered.          *)
LEMMA CreatedKept ==
  ASSUME Frame, NEW c \in Calls, Created(c), job'[c] = job[c]
  PROVE  Created(c)'
<1> SUFFICES ASSUME Ok(c)'
             PROVE  Created(c)'
  BY DEF Created
<1>1. Ok(c)
  BY DEF Ok, Done
<1>2. gone \subseteq gone'
  BY DEF Frame
<1>3. ASSUME NEW p \in DOMAIN pods, job[c].row = <<p, None>>,
             pods[p].client = c.client, pods[p].org = job[c].key.org
      PROVE  \/ job'[c].row \in gone'
             \/ \E q \in DOMAIN pods' : /\ job'[c].row = <<q, None>> /\ pods'[q].client = c.client
                                        /\ pods'[q].org = job'[c].key.org
  BY <1>3 DEF Frame, Persist
<1>4. ASSUME NEW i \in DOMAIN inboxes, job[c].row = <<i, inboxes[i].by>>,
             inboxes[i].client = c.client, inboxes[i].org = job[c].key.org
      PROVE  \/ job'[c].row \in gone'
             \/ \E j \in DOMAIN inboxes' :
                  /\ job'[c].row = <<j, inboxes'[j].by>> /\ inboxes'[j].client = c.client
                  /\ inboxes'[j].org = job'[c].key.org
  BY <1>4 DEF Frame, Persist
<1> QED BY <1>1, <1>2, <1>3, <1>4 DEF Created

(* The reason of an internal error stays one.                              *)
LEMMA ExplainedKept ==
  ASSUME Frame, NEW c \in Calls, Explained(c), job'[c] = job[c]
  PROVE  Explained(c)'
<1>1. overtaken \subseteq overtaken' /\ job[c].key.org \notin DOMAIN pods' \ DOMAIN pods
  BY DEF Frame, Persist
<1>2. Window(c)' = Window(c)
  BY DEF Window, MountOf
<1> QED BY <1>1, <1>2 DEF Explained, Done, OneScope

(* Whoever is under way and not overtaken has seen no row leave.           *)
LEMMA NothingLeft ==
  ASSUME Frame, NEW c \in Calls, c \notin overtaken', Known(c), job[c].at # "done"
  PROVE  /\ c \notin overtaken
         /\ DOMAIN pods \subseteq DOMAIN pods' /\ DOMAIN inboxes \subseteq DOMAIN inboxes'
         /\ DOMAIN keys \subseteq DOMAIN keys'
<1>1. job[c] # Idle
  BY DEF Known, Idle, NoKey
<1>2. UnderWay(c)
  BY <1>1 DEF UnderWay
<1> QED BY <1>2 DEF Frame

(* A call not overtaken finds its key, its mount and the row it replays as *)
(* it left them.                                                           *)
LEMMA UndisturbedKept ==
  ASSUME Frame, References, NEW c \in Calls, Undisturbed(c), OwnKey(c), job'[c] = job[c]
  PROVE  Undisturbed(c)'
<1> SUFFICES ASSUME c \notin overtaken', Known(c), job[c].at # "done"
             PROVE  Undisturbed(c)'
  BY DEF Undisturbed, Known
<1>1. /\ c \notin overtaken
      /\ DOMAIN pods \subseteq DOMAIN pods' /\ DOMAIN inboxes \subseteq DOMAIN inboxes'
      /\ DOMAIN keys \subseteq DOMAIN keys'
  BY NothingLeft
<1>2. c.secret \in DOMAIN keys /\ keys[c.secret] = job[c].key
  BY <1>1 DEF Undisturbed, OwnKey
<1>3. Window(c)' = Window(c) /\ Placed(c)' = Placed(c) /\ Known(c)' = Known(c)
  BY DEF Window, MountOf, Placed, Known
<1>4. ASSUME Placed(c), job[c].key.inbox # None
      PROVE  InboxPlace(job[c].key.inbox)' = job'[c].scope
  <2>1. job[c].key.inbox \in DOMAIN inboxes
    BY <1>2, <1>4 DEF References, Anchored
  <2>2. inboxes'[job[c].key.inbox] = inboxes[job[c].key.inbox]
    BY <2>1, <1>1 DEF Frame, Persist
  <2>3. InboxPlace(job[c].key.inbox) = job[c].scope
    BY <1>1, <1>4 DEF Undisturbed
  <2> QED BY <2>2, <2>3 DEF InboxPlace
<1>5. ASSUME job[c].at \in {"inside", "insert"}, c.op \notin OwnInbox
      PROVE  Stands(Window(c))'
  <2>1. Stands(Window(c))
    BY <1>1, <1>5 DEF Undisturbed
  <2>3. Stands(Window(c))' = /\ Window(c).pod \in DOMAIN pods' \cup {None}
                             /\ Window(c).inbox # None =>
                                  /\ Window(c).inbox \in DOMAIN inboxes'
                                  /\ WindowAdmits(Window(c), InboxPlace(Window(c).inbox)')
    BY <1>3 DEF Stands, WindowAdmits
  <2>4. /\ Window(c).pod \in DOMAIN pods \cup {None}
        /\ Window(c).inbox # None =>
             /\ Window(c).inbox \in DOMAIN inboxes
             /\ WindowAdmits(Window(c), InboxPlace(Window(c).inbox))
    BY <2>1 DEF Stands
  <2>5. Window(c).inbox # None =>
             /\ Window(c).inbox \in DOMAIN inboxes'
             /\ WindowAdmits(Window(c), InboxPlace(Window(c).inbox)')
    <3> SUFFICES ASSUME Window(c).inbox # None
                 PROVE  /\ Window(c).inbox \in DOMAIN inboxes'
                        /\ WindowAdmits(Window(c), InboxPlace(Window(c).inbox)')
      OBVIOUS
    <3>1. Window(c).inbox \in DOMAIN inboxes
      BY <2>4
    <3>2. Window(c).inbox \in DOMAIN inboxes'
      BY <3>1, <1>1
    <3>3. InboxPlace(Window(c).inbox)' = InboxPlace(Window(c).inbox)
      BY <1>3, <3>1, <3>2 DEF InboxPlace, Frame, Persist
    <3> QED BY <2>4, <3>2, <3>3
  <2> QED BY <1>1, <2>3, <2>4, <2>5
<1>6. ASSUME job[c].at = "replay"
      PROVE  ReplayedBy(c)' # {}
  <2>1. ReplayedBy(c) # {}
    BY <1>1, <1>6 DEF Undisturbed
  <2>2. CASE c.op = "create_pod"
    BY <1>1, <2>1, <2>2 DEF ReplayedBy, Replayed, Frame, Persist
  <2>3. CASE c.op # "create_pod"
    BY <1>1, <2>1, <2>3 DEF ReplayedBy, Replayed, Frame, Persist
  <2> QED BY <2>2, <2>3
<1> QED BY <1>1, <1>2, <1>3, <1>4, <1>5, <1>6 DEF Undisturbed

(* A row of a list that stays in the table stays in the list.              *)
LEMMA MatchingKept ==
  ASSUME Frame, NEW c \in Calls, c.op \in Lists, Window(c)' = Window(c),
         NEW row, row \in Matching(c),
         row \in DOMAIN pods => row \in DOMAIN pods',
         row \in DOMAIN inboxes => row \in DOMAIN inboxes',
         row \in DOMAIN keys => row \in DOMAIN keys'
  PROVE  row \in Matching(c)'
<1>1. CASE c.op = "list_keys"
  <2>1. row \in keys_list(Window(c))
    BY <1>1 DEF Matching
  <2>2. row \in DOMAIN keys' /\ keys'[row] = keys[row]
    BY <2>1 DEF keys_list, Frame, Persist
  <2>3. row \in keys_list(Window(c))'
    BY <2>1, <2>2 DEF keys_list, InKeyScope
  <2> QED BY <1>1, <2>3 DEF Matching
<1>2. CASE c.op = "list_pods"
  <2>1. row \in pods_list(Window(c))
    BY <1>2 DEF Matching
  <2>2. row \in DOMAIN pods' /\ pods'[row] = pods[row]
    BY <2>1 DEF pods_list, Frame, Persist
  <2>3. row \in pods_list(Window(c))'
    BY <2>1, <2>2 DEF pods_list
  <2> QED BY <1>2, <2>3 DEF Matching
<1>3. CASE c.op = "list_inboxes"
  <2>1. row \in inboxes_list(Window(c))
    BY <1>3 DEF Matching
  <2>2. row \in DOMAIN inboxes' /\ inboxes'[row] = inboxes[row]
    BY <2>1 DEF inboxes_list, Frame, Persist
  <2>3. row \in inboxes_list(Window(c))'
    BY <2>1, <2>2 DEF inboxes_list, InboxPlace, WindowAdmits
  <2> QED BY <1>3, <2>3 DEF Matching
<1> QED BY <1>1, <1>2, <1>3 DEF Lists

(* A walk between two pages loses sight of no row that stays.              *)
LEMMA WalkingKept ==
  ASSUME Frame, NEW c \in Calls, Walking(c),
         job'[c].cursor = job[c].cursor, job'[c].scope = job[c].scope,
         job'[c].rows = job[c].rows, job'[c].answer = job[c].answer,
         job'[c].at = "done" <=> job[c].at = "done",
         job[c].cursor # NoToken => job'[c].key = job[c].key
  PROVE  Walking(c)'
<1> SUFFICES ASSUME c.op \in Lists, c.mount = c.then
             PROVE  Walking(c)'
  BY DEF Walking
<1>1. /\ steady'[c] \subseteq steady[c]
      /\ \A row \in steady'[c] :
            /\ row \in DOMAIN pods => row \in DOMAIN pods'
            /\ row \in DOMAIN inboxes => row \in DOMAIN inboxes'
            /\ row \in DOMAIN keys => row \in DOMAIN keys'
  BY DEF Frame
<1>2. Window(c)' = Window(c) /\ WalkWindow(c)' = WalkWindow(c) /\ Done(c)' = Done(c)
  BY DEF Window, MountOf, WalkWindow, Done
<1>3. ASSUME job[c].cursor # NoToken, job[c].at # "done", NEW row \in steady'[c]
      PROVE  \/ \E seen \in job[c].rows : seen.id = row
             \/ row \in Matching(c)' /\ Order[job[c].cursor.after] < Order[row]
  <2>1. \/ \E seen \in job[c].rows : seen.id = row
        \/ row \in Matching(c) /\ Order[job[c].cursor.after] < Order[row]
    BY <1>1, <1>3 DEF Walking
  <2>2. row \in Matching(c) => row \in Matching(c)'
    BY <1>1, <1>2, <1>3, MatchingKept
  <2> QED BY <2>1, <2>2
<1>4. ASSUME Done(c), job[c].answer = "ok", NEW row \in steady'[c]
      PROVE  \E seen \in job[c].rows : seen.id = row
  BY <1>1, <1>4 DEF Walking
<1>5. job[c].cursor = NoToken => steady'[c] = {}
  BY <1>1 DEF Walking
<1> QED BY <1>2, <1>3, <1>4, <1>5 DEF Walking, Coordinates, KeyScopeFor

(* All that is known of a call survives the steps of the others.           *)
LEMMA OtherKeeps ==
  ASSUME Frame, References, NEW c \in Calls, CallInv(c), job'[c] = job[c]
  PROVE  CallInv(c)'
<1>1. Shape(c)'
  BY DEF CallInv, Shape, Known, Placed
<1>2. Admitted(c)'
  BY DEF CallInv, Admitted, Own, bound_inbox_matches, bound_pod_matches, Window, MountOf
<1> QED
  BY <1>1, <1>2, OwnKeyKept, OwnScopeKept, BornKept, InReachKept, CreatedKept, ExplainedKept,
     UndisturbedKept, WalkingKept DEF CallInv

(***************************************************************************)
(* The tables, statement by statement.                                     *)
(***************************************************************************)

(* An INSERT adds one row and changes none.                                *)
LEMMA PutRow ==
  ASSUME NEW table, NEW key, NEW row, key \notin DOMAIN table
  PROVE  /\ DOMAIN Put(table, key, row) = DOMAIN table \cup {key}
         /\ Put(table, key, row)[key] = row
         /\ \A k \in DOMAIN table : Put(table, key, row)[k] = table[k]
BY DEF Put

(* A DELETE changes no row that it keeps.                                  *)
LEMMA KeepRows ==
  ASSUME NEW table, NEW names
  PROVE  /\ DOMAIN Keep(table, names) = names
         /\ \A k \in names : Keep(table, names)[k] = table[k]
BY DEF Keep

(* Nobody descends from anybody unless a key is minted.                    *)
LEMMA NothingMinted ==
  ASSUME Observe, DOMAIN keys' \subseteq DOMAIN keys
  PROVE  /\ DOMAIN ancestry' = DOMAIN ancestry
         /\ \A s \in DOMAIN ancestry : ancestry'[s] = ancestry[s]
<1>1. DOMAIN keys' \ DOMAIN keys = {}
  OBVIOUS
<1> QED BY <1>1 DEF Observe

(* What a key minted by c descends from, and the scopes minted in.         *)
Lineage(c) ==
  IF c.op = "init" THEN {}
  ELSE ancestry[c.secret].of \cup {[grants |-> job[c].key.grants, scope |-> job[c].scope]}

(* A key that is minted descends from its minter and all the minter does.  *)
LEMMA OneMinted ==
  ASSUME Observe, NEW c \in Calls, NEW s, s \notin DOMAIN ancestry,
         DOMAIN keys' = DOMAIN keys \cup {s}, s \notin DOMAIN keys,
         job'[c] # job[c], \A d \in Calls : d # c => job'[d] = job[d]
  PROVE  /\ DOMAIN ancestry' = DOMAIN ancestry \cup {s}
         /\ \A t \in DOMAIN ancestry : ancestry'[t] = ancestry[t]
         /\ ancestry'[s].of = Lineage(c)
         /\ ancestry'[s].born = IF keys'[s].inbox = None THEN None ELSE inboxes[keys'[s].inbox].by
<1>1. (CHOOSE d \in Calls : job'[d] # job[d]) = c
  OBVIOUS
<1>2. DOMAIN keys' \ DOMAIN keys = {s}
  OBVIOUS
<1> QED BY <1>1, <1>2 DEF Observe, Lineage

(* While a key stays, so does its place: its inbox moves to no other pod.  *)
LEMMA KeyPlaceKept ==
  ASSUME Frame, Rows, References, Rows', References',
         NEW s \in DOMAIN keys, s \in DOMAIN keys'
  PROVE  KeyPlace(s)' = KeyPlace(s)
<1>1. keys'[s] = keys[s] /\ OneScope(keys[s])
  BY DEF Frame, Persist, References
<1>2. CASE keys[s].inbox = None
  <2>1. None \notin DOMAIN inboxes /\ None \notin DOMAIN inboxes'
    BY NoneApart DEF Rows
  <2> QED BY <1>1, <1>2, <2>1 DEF KeyPlace
<1>3. CASE keys[s].inbox # None
  <2>1. keys[s].inbox \in DOMAIN inboxes /\ keys'[s].inbox \in DOMAIN inboxes'
    BY <1>1, <1>3 DEF References, Anchored
  <2>2. inboxes'[keys[s].inbox] = inboxes[keys[s].inbox]
    BY <1>1, <2>1 DEF Frame, Persist
  <2> QED BY <1>1, <2>1, <2>2 DEF KeyPlace
<1> QED BY <1>2, <1>3

(* While a key stays, it keeps within the keys it descends from.           *)
LEMMA DescendantsKept ==
  ASSUME Frame, TablesInv, Rows', References', NEW s \in DOMAIN keys, s \in DOMAIN keys'
  PROVE  \A a \in ancestry'[s].of : Within(keys'[s].grants, a.grants) /\ Inside(KeyPlace(s)', a.scope)
<1>1. keys'[s] = keys[s] /\ KeyPlace(s)' = KeyPlace(s)
  BY KeyPlaceKept DEF Frame, Persist, TablesInv
<1>2. s \in DOMAIN ancestry /\ ancestry'[s] = ancestry[s]
  BY DEF TablesInv, Rows, Frame
<1> QED BY <1>1, <1>2 DEF TablesInv, DescendantsWithin

(* Where no key comes, none comes to exceed another.                       *)
LEMMA NoKeyComes ==
  ASSUME Frame, TablesInv, Rows', References', DOMAIN keys' \subseteq DOMAIN keys
  PROVE  DescendantsWithin'
BY DescendantsKept DEF DescendantsWithin

(* Rows that go leave client ids as unique as they were.                   *)
LEMMA UniqueKept ==
  ASSUME NEW old, NEW new, UniqueClients(old), DOMAIN new \subseteq DOMAIN old,
         \A k \in DOMAIN new : new[k] = old[k]
  PROVE  UniqueClients(new)
<1> SUFFICES ASSUME NEW k \in DOMAIN new, NEW l \in DOMAIN new, new[k].client # None,
                    new[k].client = new[l].client, new[k].org = new[l].org
             PROVE  k = l
  BY DEF UniqueClients
<1>1. k \in DOMAIN old /\ l \in DOMAIN old /\ new[k] = old[k] /\ new[l] = old[l]
  OBVIOUS
<1> QED BY <1>1 DEF UniqueClients

(* A step that writes nothing leaves the tables as right as they were.     *)
LEMMA TablesUntouched ==
  ASSUME TablesInv, Observe, UNCHANGED tables, Calls' = Calls
  PROVE  Frame /\ TablesInv'
<1>1. Persist
  BY DEF Persist, tables
<1>2. Frame
  BY <1>1, ObservedFrame
<1>3. /\ DOMAIN ancestry' = DOMAIN ancestry
      /\ \A s \in DOMAIN ancestry : ancestry'[s] = ancestry[s]
  BY NothingMinted DEF tables
<1>4. Rows'
  BY <1>3 DEF TablesInv, Rows, tables
<1>5. References'
  BY <1>3 DEF TablesInv, Rows, References, Anchored, tables
<1>6. UniqueClients(pods)' /\ UniqueClients(inboxes)'
  BY DEF TablesInv, UniqueClients, tables
<1>7. DescendantsWithin'
  BY <1>2, <1>4, <1>5, NoKeyComes DEF tables
<1> QED BY <1>2, <1>4, <1>5, <1>6, <1>7 DEF TablesInv

(* organizations::create.                                                  *)
LEMMA OrgComes ==
  ASSUME TablesInv, Observe, NEW id \in Ids, orgs' = orgs \cup {id},
         UNCHANGED <<pods, inboxes, keys>>, Calls' = Calls
  PROVE  Frame /\ TablesInv'
<1>1. Persist
  BY DEF Persist
<1>2. Frame
  BY <1>1, ObservedFrame
<1>3. /\ DOMAIN ancestry' = DOMAIN ancestry
      /\ \A s \in DOMAIN ancestry : ancestry'[s] = ancestry[s]
  BY NothingMinted
<1>4. Rows'
  BY <1>3 DEF TablesInv, Rows
<1>5. References'
  BY <1>3 DEF TablesInv, Rows, References, Anchored
<1>6. UniqueClients(pods)' /\ UniqueClients(inboxes)'
  BY DEF TablesInv, UniqueClients
<1>7. DescendantsWithin'
  BY <1>2, <1>4, <1>5, NoKeyComes
<1> QED BY <1>2, <1>4, <1>5, <1>6, <1>7 DEF TablesInv

(* pods::create, where the client id is new.                               *)
LEMMA PodComes ==
  ASSUME TablesInv, Observe, NEW p \in Ids, NEW row,
         pods' = Put(pods, p, row), p \notin DOMAIN pods,
         row.org \in orgs, Replayed(pods, row.org, row.client) = {},
         \A c \in Calls : job[c].key.org # p,
         UNCHANGED <<orgs, inboxes, keys>>, Calls' = Calls
  PROVE  Frame /\ TablesInv'
<1>1. /\ DOMAIN pods' = DOMAIN pods \cup {p} /\ pods'[p] = row
      /\ \A k \in DOMAIN pods : pods'[k] = pods[k]
  BY PutRow DEF Put
<1>2. Persist
  BY <1>1 DEF Persist
<1>3. Frame
  BY <1>2, ObservedFrame
<1>4. /\ DOMAIN ancestry' = DOMAIN ancestry
      /\ \A s \in DOMAIN ancestry : ancestry'[s] = ancestry[s]
  BY NothingMinted
<1>5. Rows'
  <2>1. IsFiniteSet(DOMAIN pods')
    BY <1>1, FS_AddElement DEF TablesInv, Rows
  <2> QED BY <1>1, <1>4, <2>1 DEF TablesInv, Rows
<1>6. References'
  BY <1>1, <1>4 DEF TablesInv, Rows, References, Anchored
<1>7. UniqueClients(pods)'
  BY <1>1 DEF TablesInv, UniqueClients, Replayed
<1>8. UniqueClients(inboxes)'
  BY DEF TablesInv, UniqueClients
<1>9. DescendantsWithin'
  BY <1>3, <1>5, <1>6, NoKeyComes
<1> QED BY <1>3, <1>5, <1>6, <1>7, <1>8, <1>9 DEF TablesInv

(* pods::delete, where nothing refers to the pod.                          *)
LEMMA PodGoes ==
  ASSUME TablesInv, Observe, NEW p, pods' = Keep(pods, DOMAIN pods \ {p}),
         PodReferences(p) = {}, UNCHANGED <<orgs, inboxes, keys>>, Calls' = Calls
  PROVE  Frame /\ TablesInv'
<1>1. /\ DOMAIN pods' = DOMAIN pods \ {p}
      /\ \A k \in DOMAIN pods' : pods'[k] = pods[k]
  BY KeepRows
<1>2. Persist
  BY <1>1 DEF Persist
<1>3. Frame
  BY <1>2, ObservedFrame
<1>4. /\ DOMAIN ancestry' = DOMAIN ancestry
      /\ \A s \in DOMAIN ancestry : ancestry'[s] = ancestry[s]
  BY NothingMinted
<1>5. Rows'
  <2>1. IsFiniteSet(DOMAIN pods')
    BY <1>1, FS_Subset DEF TablesInv, Rows
  <2> QED BY <1>1, <1>4, <2>1 DEF TablesInv, Rows
<1>6. References'
  BY <1>1, <1>4 DEF TablesInv, Rows, References, Anchored, PodReferences, InboxesOf, KeysOf
<1>7. UniqueClients(pods)' /\ UniqueClients(inboxes)'
  <2>1. UniqueClients(pods')
    BY <1>1, UniqueKept DEF TablesInv
  <2> QED BY <2>1 DEF TablesInv
<1>8. DescendantsWithin'
  BY <1>3, <1>5, <1>6, NoKeyComes
<1> QED BY <1>3, <1>5, <1>6, <1>7, <1>8 DEF TablesInv

(* inboxes::create, where the address is free and the client id new.       *)
LEMMA InboxComes ==
  ASSUME TablesInv, Observe, NEW i \in Addresses, NEW row,
         inboxes' = Put(inboxes, i, row), i \notin DOMAIN inboxes,
         row.org \in orgs, row.pod \in DOMAIN pods, Replayed(inboxes, row.org, row.client) = {},
         UNCHANGED <<orgs, pods, keys>>, Calls' = Calls
  PROVE  Frame /\ TablesInv'
<1>1. /\ DOMAIN inboxes' = DOMAIN inboxes \cup {i} /\ inboxes'[i] = row
      /\ \A k \in DOMAIN inboxes : inboxes'[k] = inboxes[k]
  BY PutRow DEF Put
<1>2. Persist
  BY <1>1 DEF Persist
<1>3. Frame
  BY <1>2, ObservedFrame
<1>4. /\ DOMAIN ancestry' = DOMAIN ancestry
      /\ \A s \in DOMAIN ancestry : ancestry'[s] = ancestry[s]
  BY NothingMinted
<1>5. Rows'
  <2>1. IsFiniteSet(DOMAIN inboxes')
    BY <1>1, FS_AddElement DEF TablesInv, Rows
  <2> QED BY <1>1, <1>4, <2>1 DEF TablesInv, Rows
<1>6. References'
  BY <1>1, <1>4 DEF TablesInv, Rows, References, Anchored
<1>7. UniqueClients(inboxes)'
  BY <1>1 DEF TablesInv, UniqueClients, Replayed
<1>8. UniqueClients(pods)'
  BY DEF TablesInv, UniqueClients
<1>9. DescendantsWithin'
  BY <1>3, <1>5, <1>6, NoKeyComes
<1> QED BY <1>3, <1>5, <1>6, <1>7, <1>8, <1>9 DEF TablesInv

(* inboxes::delete, and the keys that go with the inbox.                   *)
LEMMA InboxGoes ==
  ASSUME TablesInv, Observe, NEW i, inboxes' = Keep(inboxes, DOMAIN inboxes \ {i}),
         keys' = Keep(keys, DOMAIN keys \ Cascade(i)), i # None,
         UNCHANGED <<orgs, pods>>, Calls' = Calls
  PROVE  Frame /\ TablesInv'
<1>1. /\ DOMAIN inboxes' = DOMAIN inboxes \ {i}
      /\ \A k \in DOMAIN inboxes' : inboxes'[k] = inboxes[k]
  BY KeepRows
<1>2. /\ DOMAIN keys' = DOMAIN keys \ Cascade(i)
      /\ \A k \in DOMAIN keys' : keys'[k] = keys[k]
  BY KeepRows
<1>3. Persist
  BY <1>1, <1>2 DEF Persist
<1>4. Frame
  BY <1>3, ObservedFrame
<1>5. /\ DOMAIN ancestry' = DOMAIN ancestry
      /\ \A s \in DOMAIN ancestry : ancestry'[s] = ancestry[s]
  BY <1>2, NothingMinted
<1>6. Rows'
  <2>1. IsFiniteSet(DOMAIN inboxes') /\ IsFiniteSet(DOMAIN keys')
    BY <1>1, <1>2, FS_Subset DEF TablesInv, Rows
  <2> QED BY <1>1, <1>2, <1>5, <2>1 DEF TablesInv, Rows
<1>7. References'
  <2>1. ASSUME NEW s \in DOMAIN keys' PROVE keys[s].inbox # i
    BY <1>2, <2>1 DEF Cascade
  <2>2. ASSUME NEW s \in DOMAIN keys'
        PROVE  /\ keys'[s].org \in orgs' /\ OneScope(keys'[s])
               /\ keys'[s].pod \in DOMAIN pods' \cup {None}
               /\ keys'[s].inbox \in DOMAIN inboxes' \cup {None}
               /\ keys'[s].grants \in Grants
               /\ keys'[s].inbox # None => inboxes'[keys'[s].inbox].by = ancestry'[s].born
    <3>1. s \in DOMAIN keys /\ keys'[s] = keys[s] /\ ancestry'[s] = ancestry[s]
      BY <1>2, <1>5, <2>2 DEF TablesInv, Rows
    <3>2. /\ keys[s].org \in orgs /\ OneScope(keys[s]) /\ keys[s].grants \in Grants
          /\ keys[s].pod \in DOMAIN pods \cup {None} /\ keys[s].inbox \in DOMAIN inboxes \cup {None}
          /\ keys[s].inbox # None => inboxes[keys[s].inbox].by = ancestry[s].born
      BY <3>1 DEF TablesInv, References, Anchored
    <3>3. keys[s].inbox # None =>
            keys[s].inbox \in DOMAIN inboxes' /\ inboxes'[keys[s].inbox] = inboxes[keys[s].inbox]
      BY <1>1, <2>1, <2>2, <3>2
    <3> QED BY <3>1, <3>2, <3>3
  <2>3. \A p \in DOMAIN pods' : pods'[p].org \in orgs'
    BY DEF TablesInv, References
  <2>4. \A k \in DOMAIN inboxes' : inboxes'[k].org \in orgs' /\ inboxes'[k].pod \in DOMAIN pods'
    BY <1>1 DEF TablesInv, References
  <2> QED BY <2>2, <2>3, <2>4 DEF References, Anchored
<1>8. UniqueClients(pods)' /\ UniqueClients(inboxes)'
  <2>1. UniqueClients(inboxes')
    BY <1>1, UniqueKept DEF TablesInv
  <2> QED BY <2>1 DEF TablesInv
<1>9. DescendantsWithin'
  BY <1>2, <1>4, <1>6, <1>7, NoKeyComes
<1> QED BY <1>4, <1>6, <1>7, <1>8, <1>9 DEF TablesInv

(* api_keys::delete.                                                       *)
LEMMA KeyGoes ==
  ASSUME TablesInv, Observe, NEW s, keys' = Keep(keys, DOMAIN keys \ {s}),
         UNCHANGED <<orgs, pods, inboxes>>, Calls' = Calls
  PROVE  Frame /\ TablesInv'
<1>1. /\ DOMAIN keys' = DOMAIN keys \ {s}
      /\ \A k \in DOMAIN keys' : keys'[k] = keys[k]
  BY KeepRows
<1>2. Persist
  BY <1>1 DEF Persist
<1>3. Frame
  BY <1>2, ObservedFrame
<1>4. /\ DOMAIN ancestry' = DOMAIN ancestry
      /\ \A t \in DOMAIN ancestry : ancestry'[t] = ancestry[t]
  BY <1>1, NothingMinted
<1>5. Rows'
  <2>1. IsFiniteSet(DOMAIN keys')
    BY <1>1, FS_Subset DEF TablesInv, Rows
  <2> QED BY <1>1, <1>4, <2>1 DEF TablesInv, Rows
<1>6. References'
  <2>1. ASSUME NEW t \in DOMAIN keys'
        PROVE  t \in DOMAIN keys /\ keys'[t] = keys[t] /\ ancestry'[t] = ancestry[t]
    BY <1>1, <1>4, <2>1 DEF TablesInv, Rows
  <2> QED BY <2>1 DEF TablesInv, References, Anchored
<1>7. UniqueClients(pods)' /\ UniqueClients(inboxes)'
  BY DEF TablesInv, UniqueClients
<1>8. DescendantsWithin'
  BY <1>1, <1>3, <1>5, <1>6, NoKeyComes
<1> QED BY <1>3, <1>5, <1>6, <1>7, <1>8 DEF TablesInv

(* api_keys::create: right if the key is within all it descends from.      *)
LEMMA KeyComes ==
  ASSUME TablesInv, Observe, NEW c \in Calls, NEW s \in Secrets, NEW key,
         keys' = Put(keys, s, key), s \notin DOMAIN ancestry,
         key.org \in orgs, Anchored(key), OneScope(key), key.grants \in Grants,
         \A a \in Lineage(c) : Within(key.grants, a.grants),
         \A a \in Lineage(c) :
           Inside(Place(key.org, IF key.inbox = None THEN key.pod ELSE inboxes[key.inbox].pod,
                        key.inbox), a.scope),
         UNCHANGED <<orgs, pods, inboxes>>, Calls' = Calls,
         job'[c] # job[c], \A d \in Calls : d # c => job'[d] = job[d]
  PROVE  Frame /\ TablesInv'
<1>0. s \notin DOMAIN keys
  BY DEF TablesInv, Rows
<1>1. /\ DOMAIN keys' = DOMAIN keys \cup {s} /\ keys'[s] = key
      /\ \A k \in DOMAIN keys : keys'[k] = keys[k]
  BY <1>0, PutRow DEF Put
<1>2. Persist
  BY <1>1 DEF Persist
<1>3. Frame
  BY <1>2, ObservedFrame
<1>4. /\ DOMAIN ancestry' = DOMAIN ancestry \cup {s}
      /\ \A t \in DOMAIN ancestry : ancestry'[t] = ancestry[t]
      /\ ancestry'[s].of = Lineage(c)
      /\ ancestry'[s].born = IF key.inbox = None THEN None ELSE inboxes[key.inbox].by
  <2> HIDE DEF Lineage
  <2> QED BY <1>0, <1>1, OneMinted
<1>5. Rows'
  <2>1. IsFiniteSet(DOMAIN keys')
    BY <1>1, FS_AddElement DEF TablesInv, Rows
  <2> QED BY <1>1, <1>4, <2>1 DEF TablesInv, Rows
<1>6. References'
  BY <1>1, <1>4 DEF TablesInv, Rows, References, Anchored
<1>7. UniqueClients(pods)' /\ UniqueClients(inboxes)'
  BY DEF TablesInv, UniqueClients
<1>8. KeyPlace(s)' = Place(key.org, IF key.inbox = None THEN key.pod ELSE inboxes[key.inbox].pod,
                           key.inbox)
  <2>1. None \notin DOMAIN inboxes
    BY NoneApart DEF TablesInv, Rows
  <2> QED BY <1>1, <2>1 DEF KeyPlace, Anchored
<1>9. DescendantsWithin'
  <2>1. ASSUME NEW t \in DOMAIN keys', NEW a \in ancestry'[t].of
        PROVE  Within(keys'[t].grants, a.grants) /\ Inside(KeyPlace(t)', a.scope)
    <3>1. CASE t \in DOMAIN keys
      BY <1>3, <1>5, <1>6, <2>1, <3>1, DescendantsKept
    <3>2. CASE t \notin DOMAIN keys
      <4>1. t = s
        BY <1>1, <2>1, <3>2
      <4> QED BY <1>1, <1>4, <1>8, <2>1, <4>1
    <3> QED BY <3>1, <3>2
  <2> QED BY <2>1 DEF DescendantsWithin
<1> QED BY <1>3, <1>5, <1>6, <1>7, <1>9 DEF TablesInv

(***************************************************************************)
(* A step is one call's.                                                   *)
(***************************************************************************)

(* The step is c's: no other call moves.                                   *)
Moves(c) ==
  /\ Calls' = Calls /\ job[c].at # "done"
  /\ \A d \in Calls : d # c => job'[d] = job[d]

(* Ids and secrets to come are still to come, but for those used now.      *)
LEMMA UnusedKept ==
  ASSUME Fits, Unused, NEW c \in Calls, Moves(c),
         Making(c)' => Making(c),
         \A p \in DOMAIN pods' \ DOMAIN pods : p \in Made(c) /\ ~Making(c)',
         \A s \in DOMAIN keys' :
           \/ s \in DOMAIN keys /\ keys'[s] = keys[s]
           \/ keys'[s].org \in Made(c) /\ ~Making(c)'
           \/ keys'[s].org = job[c].key.org,
         \/ job'[c].key.org = job[c].key.org
         \/ \E s \in DOMAIN keys : job'[c].key.org = keys[s].org,
         \A s \in DOMAIN ancestry' : s \in DOMAIN ancestry \/ (s \in Drawn(c) /\ ~Drawing(c)')
  PROVE  Unused'
<1>1. \A d \in Calls : /\ Making(d)' => Making(d) /\ d.id \in Made(d)
                       /\ Drawing(d)' => Drawing(d)
  BY DEF Making, Drawing, Moves, Made
<1>2. \A d \in Calls : Making(d)' /\ d # c => d.id \notin Made(c)
  BY <1>1, CallsFit
<1>3. \A d \in Calls : Drawing(d)' /\ d # c => Drawn(d) \cap Drawn(c) = {}
  BY CallsFit
<1>4. ASSUME NEW d \in Calls, Making(d)'
      PROVE  /\ d.id \notin DOMAIN pods'
             /\ \A s \in DOMAIN keys' : keys'[s].org # d.id
             /\ \A e \in Calls : job'[e].key.org # d.id
  <2>1. /\ d.id \notin DOMAIN pods
        /\ \A s \in DOMAIN keys : keys[s].org # d.id
        /\ \A e \in Calls : job[e].key.org # d.id
    BY <1>1, <1>4 DEF Unused
  <2>2. d.id \notin DOMAIN pods'
    BY <1>2, <1>4, <2>1
  <2>3. ASSUME NEW s \in DOMAIN keys'
        PROVE  keys'[s].org # d.id
    BY <1>2, <1>4, <2>1
  <2>4. ASSUME NEW e \in Calls
        PROVE  job'[e].key.org # d.id
    BY <2>1 DEF Moves
  <2> QED BY <2>2, <2>3, <2>4
<1>5. ASSUME NEW d \in Calls, Drawing(d)'
      PROVE  Drawn(d) \cap DOMAIN ancestry' = {}
  <2>1. Drawn(d) \cap DOMAIN ancestry = {}
    BY <1>1, <1>5 DEF Unused
  <2> QED BY <1>3, <1>5, <2>1
<1> QED BY <1>4, <1>5 DEF Unused, Moves

(* An inbox was made by a call that is done and was let into its pod.      *)
LEMMA MakersKept ==
  ASSUME Makers, Frame, NEW c \in Calls, Moves(c),
         \A i \in DOMAIN inboxes' \ DOMAIN inboxes :
           /\ inboxes'[i].by = c /\ job'[c].at = "done" /\ c.op = "create_inbox"
           /\ inboxes'[i].pod = PodFor(c)' /\ ~RuledOut(job'[c].scope, c.mount)
  PROVE  Makers'
<1>1. ASSUME NEW d \in Calls, job[d].at = "done"
      PROVE  job'[d] = job[d] /\ PodFor(d)' = PodFor(d)
  BY <1>1 DEF Moves, PodFor, Window, MountOf
<1>2. ASSUME NEW i \in DOMAIN inboxes', NEW d \in Calls, inboxes'[i].by = d
      PROVE  /\ job'[d].at = "done" /\ d.op = "create_inbox"
             /\ inboxes'[i].pod = PodFor(d)' /\ ~RuledOut(job'[d].scope, d.mount)
  <2>1. CASE i \in DOMAIN inboxes
    <3>1. inboxes'[i] = inboxes[i]
      BY <2>1 DEF Frame, Persist
    <3> QED BY <1>1, <1>2, <2>1, <3>1 DEF Makers
  <2>2. CASE i \notin DOMAIN inboxes
    BY <1>2, <2>2
  <2> QED BY <2>1, <2>2
<1> QED BY <1>2 DEF Makers, Moves

(* Only amk init moves amk init on.                                        *)
LEMMA InitsKept ==
  ASSUME InitsInv, NEW c \in Calls, Moves(c), orgs' = orgs,
         c.op = "init" =>
           /\ job'[c].saw = job[c].saw /\ job'[c].at # "organization"
           /\ c.id \in orgs => job'[c].at \in {"default_pod", "root_key", "done"},
         job'[c].at \in {"default_pod", "root_key"} => c.id \in orgs
  PROVE  InitsInv'
<1>1. \A d \in Calls : Checked(d)' => Checked(d)
  BY DEF Checked, Moves
<1>2. \A d \in Calls : d.op = "init" => job'[d].saw = job[d].saw
  BY DEF Moves
<1>3. \A d \in Calls : Checked(d) => d.op = "init"
  BY DEF Checked
<1>4. ASSUME NEW d \in Calls, NEW e \in Calls, d # e, Checked(d)', Checked(e)'
      PROVE  d \in job'[e].saw \/ e \in job'[d].saw
  BY <1>1, <1>2, <1>3, <1>4 DEF InitsInv
<1>5. ASSUME NEW d \in Calls, d.op = "init", d.id \in orgs
      PROVE  job'[d].at \in {"default_pod", "root_key", "done"}
  BY <1>5 DEF InitsInv, Moves
<1>6. ASSUME NEW d \in Calls, job'[d].at \in {"default_pod", "root_key"}
      PROVE  d.id \in orgs
  BY <1>6 DEF InitsInv, Moves
<1> QED BY <1>4, <1>5, <1>6 DEF InitsInv, Moves

(* A step is right if it is for the tables, the ids and its own call.      *)
LEMMA StepInv ==
  ASSUME IInv, NEW c \in Calls, Moves(c), Frame, TablesInv', Unused', Makers', InitsInv',
         CallInv(c)'
  PROVE  IInv'
<1>1. References
  BY DEF IInv, TablesInv
<1>2. \A d \in Calls : CallInv(d)'
  BY <1>1, OtherKeeps DEF IInv, Moves
<1>3. Fits'
  BY DEF IInv, Fits, Moves
<1> QED BY <1>2, <1>3 DEF IInv, Moves

(* A call that only looks.                                                 *)
LEMMA QuietStep ==
  ASSUME IInv, NEW c \in Calls, Moves(c), Observe, UNCHANGED tables,
         job'[c].at \in {"default_pod", "root_key"} => job[c].at = job'[c].at,
         c.op = "init" => job'[c].saw = job[c].saw /\ job'[c].at \in {"root_key", "done"},
         \/ job'[c].key.org = job[c].key.org
         \/ \E s \in DOMAIN keys : job'[c].key.org = keys[s].org
  PROVE  /\ Frame
         /\ CallInv(c)' => IInv'
<1>1. Frame /\ TablesInv'
  BY TablesUntouched DEF IInv, Moves
<1>2. DOMAIN ancestry' = DOMAIN ancestry
  BY NothingMinted DEF tables
<1>3. Unused'
  <2>1. Making(c)' => Making(c)
    BY DEF Making, Moves
  <2>2. \A p \in DOMAIN pods' \ DOMAIN pods : p \in Made(c) /\ ~Making(c)'
    BY DEF tables
  <2>3. \A s \in DOMAIN keys' :
           \/ s \in DOMAIN keys /\ keys'[s] = keys[s]
           \/ keys'[s].org \in Made(c) /\ ~Making(c)'
           \/ keys'[s].org = job[c].key.org
    BY DEF tables
  <2>4. \A s \in DOMAIN ancestry' : s \in DOMAIN ancestry \/ (s \in Drawn(c) /\ ~Drawing(c)')
    BY <1>2
  <2>5. Fits /\ Unused
    BY DEF IInv
  <2> QED BY <2>1, <2>2, <2>3, <2>4, <2>5, UnusedKept
<1>4. Makers'
  BY <1>1, MakersKept DEF IInv, tables
<1>5. InitsInv'
  <2>1. job'[c].at \in {"default_pod", "root_key"} => c.id \in orgs
    BY DEF IInv, InitsInv
  <2> QED BY <2>1, InitsKept DEF IInv, tables
<1> QED BY <1>1, <1>3, <1>4, <1>5, StepInv

(***************************************************************************)
(* A call comes to its end.                                                *)
(***************************************************************************)

(* Whoever calls is who it was.                                            *)
SameWho(c) ==
  /\ job'[c].key = job[c].key /\ job'[c].scope = job[c].scope /\ job'[c].saw = job[c].saw

(* Of a call that ends, only its answer is left to be right.               *)
LEMMA Ended ==
  ASSUME Frame, NEW c \in Calls, CallInv(c), SameWho(c), job'[c].at = "done",
         Shape(c)', InReach(c)', Created(c)', Explained(c)', Walking(c)'
  PROVE  CallInv(c)'
<1>1. OwnKey(c)' /\ OwnScope(c)' /\ Born(c)'
  BY OwnKeyKept, OwnScopeKept, BornKept DEF CallInv, SameWho
<1>2. Admitted(c)' /\ Undisturbed(c)'
  BY DEF Admitted, Undisturbed
<1> QED BY <1>1, <1>2 DEF CallInv

(* What an answer sets, and what it leaves.                                *)
LEMMA Answered ==
  ASSUME NEW c \in Calls, Shape(c), job[c].at # "done", NEW a, Answer(c, a)
  PROVE  /\ Moves(c) /\ SameWho(c) /\ Shape(c)'
         /\ job'[c].at = "done" /\ job'[c].answer = a
         /\ job'[c].row = job[c].row /\ job'[c].rows = job[c].rows
         /\ job'[c].cursor = job[c].cursor /\ job'[c].tries = job[c].tries
<1>1. DOMAIN job' = DOMAIN job /\ \A d \in Calls : d # c => job'[d] = job[d]
  BY DEF Answer, Calls
<1>2. job'[c] = [job[c] EXCEPT !.at = "done", !.answer = a]
  BY DEF Answer, Calls
<1>3. job'[c] = [at |-> "done", key |-> job[c].key, scope |-> job[c].scope,
                 saw |-> job[c].saw, answer |-> a, row |-> job[c].row,
                 rows |-> job[c].rows, cursor |-> job[c].cursor, tries |-> job[c].tries]
  BY <1>2 DEF Shape
<1>4. Shape(c)'
  BY <1>3 DEF Shape, Known, Placed
<1> QED BY <1>1, <1>3, <1>4 DEF Moves, SameWho, Calls

(* An answer without a write is right if it is explained.                  *)
LEMMA AnswerStep ==
  ASSUME IInv, NEW c \in Calls, job[c].at # "done", NEW a, Answer(c, a), Observe,
         UNCHANGED tables, Created(c)', Explained(c)', Frame => Walking(c)'
  PROVE  IInv'
<1>1. CallInv(c) /\ Shape(c)
  BY DEF IInv, CallInv
<1>2. /\ Moves(c) /\ SameWho(c) /\ Shape(c)'
      /\ job'[c].at = "done" /\ job'[c].rows = job[c].rows
  BY <1>1, Answered
<1>3. /\ Frame
      /\ CallInv(c)' => IInv'
  BY <1>2, QuietStep DEF SameWho
<1>4. InReach(c)'
  BY <1>1, <1>2, <1>3, InReachKept DEF CallInv, SameWho
<1> QED BY <1>1, <1>2, <1>3, <1>4, Ended

(* A refusal changes nothing else.                                         *)
LEMMA Refused ==
  ASSUME IInv, NEW c \in Calls, job[c].at # "done", NEW a, Answer(c, a), Observe,
         UNCHANGED tables, a \notin {"ok", "bad_token"}, a = "internal" => Explained(c)'
  PROVE  IInv'
<1>1. CallInv(c) /\ Shape(c)
  BY DEF IInv, CallInv
<1>2. /\ Moves(c) /\ SameWho(c) /\ job'[c].at = "done" /\ job'[c].answer = a
      /\ job'[c].cursor = job[c].cursor
  BY <1>1, Answered
<1>3. Created(c)'
  BY <1>2 DEF Created, Ok
<1>4. Explained(c)'
  BY <1>2 DEF Explained
<1>5. ASSUME Frame
      PROVE  Walking(c)'
  <2>1. steady'[c] \subseteq steady[c]
    BY <1>2, <1>5 DEF Frame
  <2>2. WalkWindow(c)' = WalkWindow(c)
    BY <1>2 DEF WalkWindow, SameWho
  <2> QED BY <1>1, <1>2, <2>1, <2>2 DEF CallInv, Walking, Done, SameWho, Coordinates, KeyScopeFor
<1> QED BY <1>3, <1>4, <1>5, AnswerStep

(***************************************************************************)
(* The credential.                                                         *)
(***************************************************************************)
LEMMA KeyPlaceOrg ==
  ASSUME TablesInv, NEW s \in DOMAIN keys, keys[s].inbox = None
  PROVE  KeyPlace(s) = Place(keys[s].org, keys[s].pod, None)
BY NoneApart DEF KeyPlace, TablesInv, Rows

(* The key row is read: the call knows its key from here on.               *)
LEMMA Authenticated ==
  ASSUME IInv, NEW c \in Calls, authenticate(c), Observe
  PROVE  IInv'
<1>1. CallInv(c) /\ Shape(c) /\ TablesInv
  BY DEF IInv, CallInv
<1>2. job[c].at = "start" /\ c.op # "init" /\ UNCHANGED tables
  BY DEF authenticate
<1>3. CASE Answer(c, "forbidden")
  BY <1>2, <1>3, Refused
<1>4. CASE ~Answer(c, "forbidden")
  <2>1. c.secret \in DOMAIN keys /\ job' = [job EXCEPT ![c].at = "known", ![c].key = keys[c.secret]]
    BY <1>4 DEF authenticate
  <2>2. job'[c] = [at |-> "known", key |-> keys[c.secret], scope |-> job[c].scope,
                   saw |-> job[c].saw, answer |-> job[c].answer, row |-> job[c].row,
                   rows |-> job[c].rows, cursor |-> job[c].cursor, tries |-> job[c].tries]
    BY <1>1, <2>1 DEF Shape, Calls
  <2>3. Moves(c)
    BY <1>2, <2>1 DEF Moves, Calls
  <2>4. /\ Frame
        /\ CallInv(c)' => IInv'
    <3>1. \E s \in DOMAIN keys : job'[c].key.org = keys[s].org
      BY <2>1, <2>2
    <3>2. job'[c].at = "known"
      BY <2>2
    <3> QED BY <1>2, <2>3, <3>1, <3>2, QuietStep
  <2>5. /\ keys[c.secret].org \in orgs /\ OneScope(keys[c.secret])
        /\ keys[c.secret].grants \in Grants /\ c.secret \in DOMAIN ancestry
        /\ keys[c.secret].org # None
    BY <1>1, <2>1, NoneApart DEF TablesInv, Rows, References
  <2>6. Known(c)'
    BY <2>2, <2>5 DEF Known
  <2>7. Placed(c) => Known(c) /\ job[c].key = keys[c.secret]
    BY <1>1, <2>1 DEF CallInv, OwnScope, OwnKey
  <2>8. Shape(c)'
    <3>1. /\ job'[c].at = "known" /\ job'[c].scope = job[c].scope /\ job'[c].rows = job[c].rows
          /\ job'[c].cursor = job[c].cursor /\ job'[c].tries = job[c].tries
      BY <2>2
    <3>2. /\ job[c].tries \in 0..MINT_ATTEMPTS - 1
          /\ c.op \notin Lists => job[c].cursor = NoToken
          /\ job[c].cursor # NoToken => Placed(c)
          /\ job[c].cursor = NoToken => job[c].rows = {}
      BY <1>1, <1>2 DEF Shape
    <3>3. job'[c] = [at |-> job'[c].at, key |-> job'[c].key, scope |-> job'[c].scope,
               saw |-> job'[c].saw, answer |-> job'[c].answer, row |-> job'[c].row,
               rows |-> job'[c].rows, cursor |-> job'[c].cursor, tries |-> job'[c].tries]
      BY <2>2
    <3> QED BY <2>6, <3>1, <3>2, <3>3 DEF Shape, Placed
  <2>9. OwnKey(c)'
    <3>1. \A a \in ancestry[c.secret].of :
            /\ Within(keys[c.secret].grants, a.grants)
            /\ keys[c.secret].inbox = None =>
                 Inside(Place(keys[c.secret].org, keys[c.secret].pod, None), a.scope)
      BY <1>1, <2>1, KeyPlaceOrg DEF TablesInv, DescendantsWithin
    <3>2. ancestry'[c.secret] = ancestry[c.secret] /\ c.secret \in DOMAIN ancestry'
      BY <2>4, <2>5 DEF Frame
    <3> QED BY <1>2, <2>2, <2>5, <2>6, <3>1, <3>2 DEF OwnKey, tables, OneScope
  <2>10. OwnScope(c)'
    BY <1>1, <2>2, <2>6, <2>7 DEF CallInv, OwnScope, Placed
  <2>11. Undisturbed(c)'
    <3> SUFFICES ASSUME c \notin overtaken', Placed(c), keys[c.secret].inbox # None
                 PROVE  InboxPlace(keys[c.secret].inbox)' = job[c].scope
      BY <1>2, <2>1, <2>2 DEF Undisturbed, Placed, tables
    <3>1. c \notin overtaken
      BY <2>4 DEF Frame
    <3>2. InboxPlace(keys[c.secret].inbox) = job[c].scope
      BY <1>1, <1>2, <2>7, <3>1 DEF CallInv, Undisturbed
    <3> QED BY <1>2, <3>2 DEF InboxPlace, tables
  <2>12. Born(c)'
    <3> SUFFICES ASSUME c \notin overtaken', job[c].saw # {}
                 PROVE  job[c].saw = {ancestry'[c.secret].born}
      BY <2>2, <2>6 DEF Born
    <3>1. c \notin overtaken
      BY <2>4 DEF Frame
    <3> QED BY <1>1, <1>2, <2>4, <2>5, <3>1 DEF CallInv, Born, Frame
  <2>13. InReach(c)'
    BY <1>1, <2>2, <2>4, InReachKept DEF CallInv
  <2>14. Walking(c)'
    <3>1. job[c].cursor # NoToken => job'[c].key = job[c].key
      BY <1>1, <2>2, <2>7 DEF Shape
    <3> QED BY <1>1, <1>2, <2>2, <2>4, <3>1, WalkingKept DEF CallInv
  <2>15. Admitted(c)' /\ Created(c)' /\ Explained(c)'
    BY <2>2 DEF Admitted, Created, Explained, Ok, Done
  <2> QED BY <2>4, <2>8, <2>9, <2>10, <2>11, <2>12, <2>13, <2>14, <2>15 DEF CallInv
<1> QED BY <1>3, <1>4

(* What the identity resolves to, usable or not.                           *)
LEMMA ScopeOfIdentity ==
  ASSUME NEW key, NEW pod, key.inbox = None => pod = key.pod,
         FromIdentity(IdentityOf(key, pod)).usable
  PROVE  /\ FromIdentity(IdentityOf(key, pod)).scope = Place(key.org, pod, key.inbox)
         /\ key.inbox # None => pod # None
<1>1. Consistent(IdentityOf(key, pod))
  BY DEF FromIdentity
<1>2. /\ IdentityOf(key, pod).type = scope_type_of(key) /\ IdentityOf(key, pod).org = key.org
      /\ IdentityOf(key, pod).pod = pod /\ IdentityOf(key, pod).inbox = key.inbox
  BY DEF IdentityOf
<1>3. key.inbox # None => scope_type_of(key) = "inbox"
  BY DEF scope_type_of
<1> QED BY <1>1, <1>2, <1>3 DEF FromIdentity, Consistent

(* The window of a walk, by its inbox.                                     *)
LEMMA NarrowedFields ==
  ASSUME NEW org, NEW pod, NEW inbox, NEW mount, Mounted(mount)
  PROVE  LET w == Narrowed(Place(org, pod, inbox), mount) IN
         /\ w = Place(org, w.pod, w.inbox)
         /\ w.pod = IF mount.kind = "pod" THEN mount.id ELSE pod
         /\ w.inbox = IF mount.kind = "inbox" THEN mount.id ELSE inbox
<1>1. PICK id : mount \in {OrgMount, PodMount(id), InboxMount(id)}
  BY DEF Mounted
<1>2. CASE mount = OrgMount
  BY <1>2 DEF Narrowed, Place, OrgMount
<1>3. CASE mount = PodMount(id)
  BY <1>3 DEF Narrowed, Place, PodMount
<1>4. CASE mount = InboxMount(id)
  BY <1>4 DEF Narrowed, Place, InboxMount
<1> QED BY <1>1, <1>2, <1>3, <1>4

(* An inbox key's walk is of that inbox, whatever pod the inbox is in now. *)
LEMMA KeysOfOneInbox ==
  ASSUME NEW org, NEW inbox, NEW mount, Mounted(mount), NEW pod, NEW other,
         Narrowed(Place(org, pod, inbox), mount).inbox # None
  PROVE  LET w == Narrowed(Place(org, pod, inbox), mount)
             v == Narrowed(Place(org, other, inbox), mount) IN
         /\ v.org = w.org /\ v.inbox = w.inbox /\ KeyScopeFor(v) = KeyScopeFor(w)
<1> DEFINE w == Narrowed(Place(org, pod, inbox), mount)
           v == Narrowed(Place(org, other, inbox), mount)
<1>1. /\ w = Place(org, w.pod, w.inbox) /\ w.inbox = IF mount.kind = "inbox" THEN mount.id ELSE inbox
      /\ v = Place(org, v.pod, v.inbox) /\ v.inbox = IF mount.kind = "inbox" THEN mount.id ELSE inbox
  BY NarrowedFields
<1>2. w.inbox # None
  OBVIOUS
<1> HIDE DEF w, v
<1>3. v.org = w.org /\ v.inbox = w.inbox
  BY <1>1 DEF Place
<1>4. KeyScopeFor(v) = KeyScopeFor(w)
  BY <1>2, <1>3 DEF KeyScopeFor
<1> QED BY <1>3, <1>4 DEF w, v

(* The identity becomes a scope; an inbox key looks its pod up again.      *)
LEMMA Resolved ==
  ASSUME IInv, NEW c \in Calls, from_request_parts(c), Observe
  PROVE  IInv'
<1> DEFINE key == job[c].key
           found == key.inbox \in DOMAIN inboxes /\ inboxes[key.inbox].org = key.org
           pod == IF key.inbox = None THEN key.pod ELSE inboxes[key.inbox].pod
           resolved == FromIdentity(IdentityOf(key, pod))
           saw == IF key.inbox = None THEN {} ELSE {inboxes[key.inbox].by}
<1>1. CallInv(c) /\ Shape(c) /\ TablesInv
  BY DEF IInv, CallInv
<1>2. job[c].at = "known" /\ UNCHANGED tables
  BY DEF from_request_parts
<1>3. CASE Answer(c, "forbidden")
  BY <1>2, <1>3, Refused
<1>4. CASE ~Answer(c, "forbidden")
  <2>1. /\ key.inbox # None => found
        /\ resolved.usable
        /\ job' = [job EXCEPT ![c].at = "granted", ![c].scope = resolved.scope, ![c].saw = saw]
    BY <1>4 DEF from_request_parts
  <2>2. /\ resolved.scope = Place(key.org, pod, key.inbox)
        /\ key.inbox # None => pod # None
    <3>1. key.inbox = None => pod = key.pod
      OBVIOUS
    <3> HIDE DEF key, pod
    <3> QED BY <2>1, <3>1, ScopeOfIdentity
  <2> HIDE DEF resolved, saw
  <2>3. job'[c] = [at |-> "granted", key |-> key, scope |-> Place(key.org, pod, key.inbox),
                   saw |-> saw, answer |-> job[c].answer, row |-> job[c].row,
                   rows |-> job[c].rows, cursor |-> job[c].cursor, tries |-> job[c].tries]
    <3> HIDE DEF pod
    <3> QED BY <1>1, <2>1, <2>2 DEF Shape, Calls
  <2>4. /\ job'[c].at = "granted" /\ job'[c].key = key /\ job'[c].saw = saw
        /\ job'[c].scope = Place(key.org, pod, key.inbox)
        /\ job'[c].answer = job[c].answer /\ job'[c].rows = job[c].rows
        /\ job'[c].cursor = job[c].cursor /\ job'[c].tries = job[c].tries
    <3> HIDE DEF pod
    <3> QED BY <2>3
  <2>5. Moves(c)
    BY <1>2, <2>1 DEF Moves, Calls
  <2>6. Known(c) /\ c.op # "init" /\ Known(c)' /\ Placed(c)'
    BY <1>1, <1>2, <2>4 DEF Shape, CallInv, OwnKey, Known, Placed, Place
  <2>7. /\ Frame
        /\ CallInv(c)' => IInv'
    BY <1>2, <2>4, <2>5, <2>6, QuietStep
  <2>8. Shape(c)'
    <3>1. /\ job[c].tries \in 0..MINT_ATTEMPTS - 1
          /\ c.op \notin Lists => job[c].cursor = NoToken
          /\ job[c].cursor = NoToken => job[c].rows = {}
      BY <1>1, <1>2 DEF Shape
    <3>2. job'[c] = [at |-> job'[c].at, key |-> job'[c].key, scope |-> job'[c].scope,
               saw |-> job'[c].saw, answer |-> job'[c].answer, row |-> job'[c].row,
               rows |-> job'[c].rows, cursor |-> job'[c].cursor, tries |-> job'[c].tries]
      <4> HIDE DEF pod
      <4> QED BY <2>3
    <3> QED BY <2>4, <2>6, <3>1, <3>2 DEF Shape
  <2>9. OwnKey(c)'
    BY <1>1, <2>4, <2>7, OwnKeyKept DEF CallInv
  <2>10. OwnScope(c)'
    BY <2>2, <2>4, <2>6 DEF OwnScope, Place
  <2>11. c \notin overtaken' => /\ c \notin overtaken /\ c.secret \in DOMAIN keys
                                /\ keys[c.secret] = key
                                /\ Placed(c) => job[c].scope = Place(key.org, pod, key.inbox)
    <3> SUFFICES ASSUME c \notin overtaken'
                 PROVE  /\ c \notin overtaken /\ c.secret \in DOMAIN keys
                        /\ keys[c.secret] = key
                        /\ Placed(c) => job[c].scope = Place(key.org, pod, key.inbox)
      OBVIOUS
    <3>1. c \notin overtaken
      BY <2>7 DEF Frame
    <3>2. c.secret \in DOMAIN keys /\ keys[c.secret] = key
      BY <1>1, <1>2, <2>6, <3>1 DEF CallInv, Undisturbed, OwnKey
    <3>3. ASSUME Placed(c)
          PROVE  job[c].scope = Place(key.org, pod, key.inbox)
      <4>1. /\ job[c].scope = Place(key.org, job[c].scope.pod, key.inbox)
            /\ key.inbox = None => job[c].scope.pod = key.pod
        BY <1>1, <3>3 DEF CallInv, OwnScope
      <4>2. CASE key.inbox = None
        BY <4>1, <4>2
      <4>3. CASE key.inbox # None
        BY <1>1, <1>2, <2>6, <3>1, <3>3, <4>1, <4>3 DEF CallInv, Undisturbed, InboxPlace, Place
      <4> QED BY <4>2, <4>3
    <3> QED BY <3>1, <3>2, <3>3
  <2>12. Undisturbed(c)'
    <3> SUFFICES ASSUME c \notin overtaken'
                 PROVE  /\ c.secret \in DOMAIN keys'
                        /\ key.inbox # None => InboxPlace(key.inbox)' = Place(key.org, pod, key.inbox)
      <4> HIDE DEF pod
      <4> QED BY <2>4 DEF Undisturbed
    <3>1. key.inbox # None => InboxPlace(key.inbox) = Place(key.org, pod, key.inbox)
      BY <2>1 DEF InboxPlace
    <3>2. inboxes' = inboxes /\ keys' = keys
      BY <1>2 DEF tables
    <3>3. InboxPlace(key.inbox)' = InboxPlace(key.inbox)
      BY <2>4, <3>2 DEF InboxPlace
    <3> HIDE DEF pod
    <3> QED BY <2>11, <3>1, <3>2, <3>3
  <2>13. Born(c)'
    <3> SUFFICES ASSUME c \notin overtaken', saw # {}
                 PROVE  saw = {ancestry'[c.secret].born}
      BY <2>4, <2>6 DEF Born
    <3>1. key.inbox # None /\ saw = {inboxes[key.inbox].by}
      BY DEF saw
    <3>2. inboxes[key.inbox].by = ancestry[c.secret].born
      BY <1>1, <2>11, <3>1 DEF TablesInv, References
    <3>3. ancestry'[c.secret] = ancestry[c.secret]
      BY <1>1, <2>11, <2>7 DEF TablesInv, Rows, Frame
    <3> QED BY <3>1, <3>2, <3>3
  <2>14. InReach(c)'
    <3>1. CASE Placed(c)
      <4>1. c \notin overtaken' => job'[c].scope = job[c].scope /\ job'[c].rows = job[c].rows
        BY <2>4, <2>11, <3>1
      <4> QED BY <1>1, <2>7, <4>1 DEF CallInv, InReach, Reach, Frame
    <3>2. CASE ~Placed(c)
      <4>1. job'[c].rows = {}
        BY <1>1, <1>2, <2>4, <3>2 DEF Shape
      <4> QED BY <4>1 DEF InReach
    <3> QED BY <3>1, <3>2
  <2>15. Walking(c)'
    <3>1. CASE job'[c].scope = job[c].scope
      BY <1>1, <1>2, <2>4, <2>7, <3>1, WalkingKept DEF CallInv
    <3>2. CASE job'[c].scope # job[c].scope
      <4> SUFFICES ASSUME c.op \in Lists, c.mount = c.then
                   PROVE  Walking(c)'
        BY DEF Walking
      <4>1. /\ steady'[c] \subseteq steady[c]
            /\ \A row \in steady'[c] :
                 /\ row \in DOMAIN pods => row \in DOMAIN pods'
                 /\ row \in DOMAIN inboxes => row \in DOMAIN inboxes'
                 /\ row \in DOMAIN keys => row \in DOMAIN keys'
        BY <2>4, <2>7 DEF Frame
      <4>2. CASE job[c].cursor = NoToken
        BY <1>1, <2>4, <4>1, <4>2 DEF CallInv, Walking, Done
      <4>3. CASE job[c].cursor # NoToken
        <5>1. /\ Placed(c) /\ job[c].scope = Place(key.org, job[c].scope.pod, key.inbox)
              /\ key.inbox = None => job[c].scope.pod = key.pod
          BY <1>1, <4>3 DEF Shape, CallInv, OwnScope
        <5>2. key.inbox # None
          BY <2>4, <3>2, <5>1
        <5>3. c.op = "list_keys" /\ WalkWindow(c).inbox = key.inbox
          BY <1>1, <4>3, <5>2 DEF CallInv, Walking, Lists
        <5>4. Mounted(c.mount)
          BY CallsFit DEF IInv, Routed
        <5>5. /\ WalkWindow(c)'.org = WalkWindow(c).org /\ WalkWindow(c)'.inbox = WalkWindow(c).inbox
              /\ KeyScopeFor(WalkWindow(c)') = KeyScopeFor(WalkWindow(c))
          <6> HIDE DEF key, pod
          <6> QED BY <2>4, <5>1, <5>2, <5>3, <5>4, KeysOfOneInbox DEF WalkWindow
        <5>6. Window(c) = WalkWindow(c) /\ Window(c)' = WalkWindow(c)'
          BY <2>4, <4>3 DEF Window, WalkWindow, MountOf
        <5>7. Matching(c)' = Matching(c)
          BY <1>2, <5>3, <5>5, <5>6 DEF Matching, keys_list, InKeyScope, tables
        <5> QED BY <1>1, <1>2, <2>4, <4>1, <4>3, <5>3, <5>5, <5>7
               DEF CallInv, Walking, Done, Coordinates
      <4> QED BY <4>2, <4>3
    <3> QED BY <3>1, <3>2
  <2>16. Admitted(c)' /\ Created(c)' /\ Explained(c)'
    BY <2>4 DEF Admitted, Created, Explained, Ok, Done
  <2> QED BY <2>7, <2>8, <2>9, <2>10, <2>12, <2>13, <2>14, <2>15, <2>16 DEF CallInv
<1> QED BY <1>3, <1>4

(***************************************************************************)
(* The window.                                                             *)
(***************************************************************************)
LEMMA WindowInside ==
  ASSUME Fits, NEW c \in Calls, OwnScope(c), Placed(c), ~RuledOut(job[c].scope, MountOf(c))
  PROVE  /\ Mounted(MountOf(c))
         /\ Window(c) = Place(job[c].key.org, Window(c).pod, Window(c).inbox)
         /\ Window(c).org = job[c].key.org
         /\ Inside(Window(c), job[c].scope)
         /\ MountOf(c).kind = "pod" => Window(c).pod = MountOf(c).id /\ MountOf(c).id # None
         /\ MountOf(c).kind = "inbox" => Window(c).inbox = MountOf(c).id /\ MountOf(c).id # None
         /\ MountOf(c).kind # "pod" => Window(c).pod = job[c].scope.pod
         /\ MountOf(c).kind # "inbox" => Window(c).inbox = job[c].scope.inbox
<1>1. Mounted(MountOf(c))
  BY CallsFit DEF Routed, MountOf
<1>2. job[c].scope = Place(job[c].key.org, job[c].scope.pod, job[c].key.inbox)
  BY DEF OwnScope
<1> DEFINE org == job[c].key.org
           pod == job[c].scope.pod
           inbox == job[c].key.inbox
           mount == MountOf(c)
<1>3. PICK id : mount \in {OrgMount, PodMount(id), InboxMount(id)}
  BY <1>1 DEF Mounted
<1>4. job[c].scope = Place(org, pod, inbox) /\ Window(c) = Narrowed(Place(org, pod, inbox), mount)
  BY <1>2 DEF Window
<1>5. Mounted(mount) /\ ~RuledOut(Place(org, pod, inbox), mount)
  BY <1>1, <1>4
<1>6. job[c].scope.inbox = inbox /\ job[c].scope.pod = pod
  BY <1>2 DEF Place
<1> HIDE DEF org, pod, inbox, mount
<1>7. Inside(Window(c), job[c].scope)
  BY <1>3, <1>4, <1>5, MountOnlyNarrows
<1>8. /\ Window(c) = Place(org, Window(c).pod, Window(c).inbox)
      /\ Window(c).pod = IF mount.kind = "pod" THEN mount.id ELSE pod
      /\ Window(c).inbox = IF mount.kind = "inbox" THEN mount.id ELSE inbox
  BY <1>4, <1>5, NarrowedFields
<1>9. mount.kind \in {"pod", "inbox"} => mount.id # None
  BY <1>5 DEF Mounted, OrgMount
<1>10. Window(c).org = org
  BY <1>8 DEF Place
<1> QED BY <1>1, <1>6, <1>7, <1>8, <1>9, <1>10 DEF org, pod, inbox, mount

(* What the window admits is in the credential's reach and under the mount.*)
LEMMA ShownInReach ==
  ASSUME Fits, NEW c \in Calls, OwnScope(c), Placed(c), ~RuledOut(job[c].scope, MountOf(c)),
         NEW place, WindowAdmits(Window(c), place)
  PROVE  Inside(place, job[c].scope) /\ Under(MountOf(c), place)
<1>1. /\ Inside(Window(c), job[c].scope)
      /\ MountOf(c).kind = "pod" => Window(c).pod = MountOf(c).id /\ MountOf(c).id # None
      /\ MountOf(c).kind = "inbox" => Window(c).inbox = MountOf(c).id /\ MountOf(c).id # None
  BY WindowInside
<1>2. Inside(place, job[c].scope)
  BY <1>1, AdmittedIsInside
<1> QED BY <1>1, <1>2 DEF WindowAdmits, Within1, Under

(* A key the list query finds lies in the window it was asked for.         *)
LEMMA KeyShown ==
  ASSUME TablesInv, NEW w, Stands(w), NEW s \in DOMAIN keys, InKeyScope(s, w.org, KeyScopeFor(w))
  PROVE  WindowAdmits(w, KeyPlace(s))
<1>1. /\ keys[s].org = w.org /\ OneScope(keys[s]) /\ Anchored(keys[s])
  BY DEF InKeyScope, TablesInv, References
<1>2. CASE w.inbox # None
  <2>1. keys[s].inbox = w.inbox
    BY <1>2 DEF InKeyScope, KeyScopeFor, InboxMount
  <2>2. w.inbox \in DOMAIN inboxes /\ WindowAdmits(w, InboxPlace(w.inbox))
    BY <1>2 DEF Stands
  <2>3. Within1(w.pod, inboxes[w.inbox].pod)
    BY <2>2 DEF WindowAdmits, InboxPlace, Place
  <2>4. KeyPlace(s) = Place(keys[s].org, inboxes[w.inbox].pod, w.inbox)
    BY <2>1, <2>2 DEF KeyPlace
  <2> QED BY <1>1, <2>3, <2>4 DEF WindowAdmits, Within1, Place
<1>3. CASE w.inbox = None /\ w.pod # None
  <2>1. keys[s].pod = w.pod /\ keys[s].inbox = None
    BY <1>1, <1>3 DEF InKeyScope, KeyScopeFor, PodMount, OneScope
  <2>2. KeyPlace(s) = Place(keys[s].org, keys[s].pod, None)
    BY <2>1, KeyPlaceOrg
  <2> QED BY <1>1, <1>3, <2>1, <2>2 DEF WindowAdmits, Within1, Place
<1>4. CASE w.inbox = None /\ w.pod = None
  BY <1>1, <1>4 DEF WindowAdmits, Within1, KeyPlace, Place
<1> QED BY <1>2, <1>3, <1>4

(* A mount that was found leads to rows.                                   *)
LEMMA SettledStands ==
  ASSUME IInv, NEW c \in Calls, c \notin overtaken, Placed(c), job[c].at # "done",
         SettleMount(job[c].scope, MountOf(c), PodPlaces, InboxPlaces) = "ready"
  PROVE  Stands(Window(c))
<1> DEFINE scope == job[c].scope
           mount == MountOf(c)
           w == Window(c)
           key == job[c].key
<1>1. /\ ~RuledOut(scope, mount)
      /\ \/ Proven(scope, mount)
         \/ \E place \in PodPlaces \cup InboxPlaces : WindowAdmits(Narrowed(scope, mount), place)
  BY SettledIsProven
<1>2. Fits /\ CallInv(c) /\ TablesInv /\ OwnScope(c)
  BY DEF IInv, CallInv
<1>3. /\ Mounted(mount) /\ w = Place(key.org, w.pod, w.inbox) /\ Inside(w, scope)
      /\ mount.kind = "pod" => w.pod = mount.id /\ mount.id # None
      /\ mount.kind = "inbox" => w.inbox = mount.id /\ mount.id # None
      /\ mount.kind # "pod" => w.pod = scope.pod
      /\ mount.kind # "inbox" => w.inbox = scope.inbox
  BY <1>1, <1>2, WindowInside
<1>4. scope = Place(key.org, scope.pod, key.inbox) /\ Known(c)
  BY <1>2 DEF OwnScope
<1>5. keys[c.secret] = key /\ c.secret \in DOMAIN keys
  BY <1>2, <1>4 DEF CallInv, Undisturbed, OwnKey
<1>6. /\ scope.pod \in DOMAIN pods \cup {None}
      /\ key.inbox # None => /\ key.inbox \in DOMAIN inboxes
                             /\ InboxPlace(key.inbox) = scope
  <2>1. CASE key.inbox = None
    BY <1>2, <1>5, <2>1 DEF OwnScope, TablesInv, References, Anchored
  <2>2. CASE key.inbox # None
    <3>1. key.inbox \in DOMAIN inboxes
      BY <1>2, <1>5, <2>2 DEF TablesInv, References, Anchored
    <3>2. InboxPlace(key.inbox) = scope
      BY <1>2, <1>4, <2>2 DEF CallInv, Undisturbed
    <3>3. scope.pod = inboxes[key.inbox].pod
      BY <3>2 DEF InboxPlace, Place
    <3> QED BY <1>2, <3>1, <3>2, <3>3 DEF TablesInv, References
  <2> QED BY <2>1, <2>2
<1>7. scope.inbox = key.inbox
  BY <1>4 DEF Place
<1>8. CASE Proven(scope, mount)
  <2>1. w.pod = scope.pod /\ w.inbox = scope.inbox
    BY <1>3, <1>8 DEF Proven
  <2>2. w = scope
    BY <1>3, <1>4, <1>7, <2>1
  <2>3. WindowAdmits(w, w)
    BY DEF WindowAdmits, Within1
  <2> QED BY <1>6, <1>7, <2>2, <2>3 DEF Stands
<1>9. CASE ~Proven(scope, mount)
  <2>1. Resolve(scope, mount).verdict = "probe" /\ Resolve(scope, mount).window = w
    BY <1>1, <1>9 DEF Resolve, Window
  <2>2. PICK at \in IF mount.kind = "pod" THEN PodPlaces ELSE InboxPlaces :
          /\ mount.id = IF mount.kind = "pod" THEN at.pod ELSE at.inbox
          /\ WindowAdmits(w, at)
    <3> HIDE DEF scope, mount, w
    <3>1. Settle(w, {at \in IF mount.kind = "pod" THEN PodPlaces ELSE InboxPlaces :
                       mount.id = IF mount.kind = "pod" THEN at.pod ELSE at.inbox}) = "ready"
      BY <2>1 DEF SettleMount, scope, mount
    <3> QED BY <3>1 DEF Settle
  <2>3. mount.kind \in {"pod", "inbox"}
    BY <1>3, <1>9 DEF Mounted, Proven, OrgMount, PodMount, InboxMount
  <2>4. CASE mount.kind = "pod"
    <3>1. PICK p \in DOMAIN pods : at = Place(pods[p].org, p, None)
      BY <2>2, <2>4 DEF PodPlaces
    <3>2. mount.id = p /\ Within1(w.inbox, None)
      BY <2>2, <2>4, <3>1 DEF Place, WindowAdmits
    <3> QED BY <1>3, <2>4, <3>2 DEF Stands, Within1
  <2>5. CASE mount.kind = "inbox"
    <3>1. PICK i \in DOMAIN inboxes : at = InboxPlace(i)
      BY <2>2, <2>5 DEF InboxPlaces
    <3>2. mount.id = i
      BY <2>2, <2>5, <3>1 DEF InboxPlace, Place
    <3> QED BY <1>3, <1>6, <2>2, <2>5, <3>1, <3>2 DEF Stands
  <2> QED BY <2>3, <2>4, <2>5
<1> QED BY <1>8, <1>9

(***************************************************************************)
(* A call goes on.                                                         *)
(***************************************************************************)

(* Nothing has been answered or shown yet.                                 *)
SameWork(c) ==
  /\ SameWho(c) /\ job'[c].answer = job[c].answer /\ job'[c].row = job[c].row
  /\ job'[c].rows = job[c].rows /\ job'[c].cursor = job[c].cursor

(* What going on sets, and what it leaves.                                 *)
LEMMA Goes ==
  ASSUME NEW c \in Calls, Shape(c), job[c].at # "done", NEW at, at # "done", Go(c, at),
         at \in {"inside", "insert", "replay"} => Known(c) /\ Placed(c),
         at \in {"inside", "insert", "replay", "default_pod", "root_key"},
         at \in {"default_pod", "root_key"} => c.op = "init",
         at = "insert" => c.op = "create_inbox",
         at = "replay" => c.op \in {"create_pod", "create_inbox"}
  PROVE  Moves(c) /\ SameWork(c) /\ Shape(c)' /\ job'[c].at = at /\ job'[c].tries = job[c].tries
<1>1. DOMAIN job' = DOMAIN job /\ \A d \in Calls : d # c => job'[d] = job[d]
  BY DEF Go, Calls
<1>2. job'[c] = [at |-> at, key |-> job[c].key, scope |-> job[c].scope,
                 saw |-> job[c].saw, answer |-> job[c].answer, row |-> job[c].row,
                 rows |-> job[c].rows, cursor |-> job[c].cursor, tries |-> job[c].tries]
  BY DEF Go, Calls, Shape
<1>3. /\ SameWork(c) /\ job'[c].at = at /\ job'[c].tries = job[c].tries
  BY <1>2 DEF SameWork, SameWho
<1>4. /\ job[c].tries \in 0..MINT_ATTEMPTS - 1
      /\ c.op \notin Lists => job[c].cursor = NoToken
      /\ job[c].cursor # NoToken => Placed(c)
      /\ job[c].cursor = NoToken => job[c].rows = {}
  BY DEF Shape
<1>5. job'[c] = [at |-> job'[c].at, key |-> job'[c].key, scope |-> job'[c].scope,
               saw |-> job'[c].saw, answer |-> job'[c].answer, row |-> job'[c].row,
               rows |-> job'[c].rows, cursor |-> job'[c].cursor, tries |-> job'[c].tries]
  BY <1>2
<1>6. Known(c)' = Known(c) /\ Placed(c)' = Placed(c)
  BY <1>3 DEF SameWork, SameWho, Known, Placed
<1>7. Shape(c)'
  BY <1>3, <1>4, <1>5, <1>6 DEF Shape, SameWork, SameWho
<1> QED BY <1>1, <1>3, <1>7 DEF Moves, Calls

(* Of a call that goes on, where it is let in and what it saw are left.    *)
LEMMA Continued ==
  ASSUME Frame, NEW c \in Calls, CallInv(c), SameWork(c), job[c].at # "done",
         job'[c].at # "done", Shape(c)', Admitted(c)', Undisturbed(c)'
  PROVE  CallInv(c)'
<1>1. OwnKey(c)' /\ OwnScope(c)' /\ Born(c)' /\ InReach(c)'
  BY OwnKeyKept, OwnScopeKept, BornKept, InReachKept DEF CallInv, SameWho, SameWork
<1>2. Walking(c)'
  BY WalkingKept DEF CallInv, SameWho, SameWork
<1>3. Created(c)' /\ Explained(c)'
  BY DEF Created, Explained, Ok, Done
<1> QED BY <1>1, <1>2, <1>3 DEF CallInv

(* A window changes with the scope and the page only.                      *)
LEMMA SameWindow ==
  ASSUME NEW c \in Calls, job'[c].scope = job[c].scope, job'[c].cursor = job[c].cursor
  PROVE  Window(c)' = Window(c) /\ MountOf(c)' = MountOf(c) /\ Own(c)' = Own(c)
BY DEF Window, MountOf, Own, bound_inbox_matches, bound_pod_matches

(* What was known of a call under way is still so if no row has moved.     *)
LEMMA StillUndisturbed ==
  ASSUME Frame, NEW c \in Calls, CallInv(c), SameWho(c), Known(c), job[c].at # "done",
         UNCHANGED tables, c \notin overtaken'
  PROVE  /\ c \notin overtaken /\ c.secret \in DOMAIN keys'
         /\ Placed(c)' /\ job'[c].key.inbox # None =>
              InboxPlace(job[c].key.inbox)' = job'[c].scope
<1>1. c \notin overtaken
  BY DEF Frame
<1>2. /\ c.secret \in DOMAIN keys
      /\ Placed(c) /\ job[c].key.inbox # None =>
           InboxPlace(job[c].key.inbox) = job[c].scope
  BY <1>1 DEF CallInv, Undisturbed
<1>3. inboxes' = inboxes /\ keys' = keys
  BY DEF tables
<1>4. InboxPlace(job[c].key.inbox)' = InboxPlace(job[c].key.inbox)
  BY <1>3 DEF InboxPlace, SameWho
<1>5. Placed(c)' = Placed(c) /\ job'[c].key = job[c].key /\ job'[c].scope = job[c].scope
  BY DEF Placed, SameWho
<1> QED BY <1>1, <1>2, <1>3, <1>4, <1>5

(* The gate: past it, mount, ownership and grants have been checked.       *)
LEMMA Entered ==
  ASSUME IInv, NEW c \in Calls, Enter(c), Observe
  PROVE  IInv'
<1>1. CallInv(c) /\ Shape(c) /\ OwnScope(c) /\ OwnKey(c) /\ Fits
  BY DEF IInv, CallInv
<1>2. /\ job[c].at = "granted" /\ UNCHANGED tables
      /\ IF Gate(c) = "ok" THEN Go(c, "inside") ELSE Answer(c, Gate(c))
  BY DEF Enter
<1>3. Known(c) /\ Placed(c) /\ job[c].scope.org = job[c].key.org
  BY <1>1, <1>2 DEF Shape, OwnScope, Place
<1>4. c.op \in OwnInbox => MountOf(c) = c.mount
  BY <1>1 DEF Shape, MountOf, OwnInbox, Lists
<1>5. CASE Gate(c) # "ok"
  <2>1. Gate(c) \notin {"ok", "bad_token"}
    BY <1>5 DEF Gate, DeriveChild
  <2>2. Answer(c, Gate(c))
    BY <1>2, <1>5
  <2>3. ASSUME Gate(c) = "internal"
        PROVE  Explained(c)'
    <3>1. /\ c.op = "create_inbox" /\ MountVerdict(c) # "denied"
          /\ (Window(c).pod = None /\ Window(c).org \notin DOMAIN pods) \/ Unnamed(c)
      BY <2>3 DEF Gate, DeriveChild, default_pod
    <3>2. ~RuledOut(job[c].scope, MountOf(c))
      BY <3>1, SettledIsProven DEF MountVerdict, OwnInbox, SettleMount, Resolve
    <3>3. Window(c).org = job[c].key.org
      BY <1>1, <1>3, <3>2, WindowInside
    <3>4. job'[c].key = job[c].key
      BY <1>1, <1>2, <2>2, Answered DEF SameWho
    <3> QED BY <1>2, <3>1, <3>3, <3>4 DEF Explained, tables
  <2> HIDE DEF Gate
  <2> QED BY <1>2, <2>1, <2>2, <2>3, Refused
<1>6. CASE Gate(c) = "ok"
  <2>1. /\ MountVerdict(c) # "denied" /\ Own(c)
        /\ c.op = "create_key" => DeriveChild(job[c].key.grants, c.grants) = "ok"
    BY <1>6 DEF Gate
  <2>2. /\ Moves(c) /\ SameWork(c) /\ Shape(c)' /\ job'[c].at = "inside"
        /\ job'[c].tries = job[c].tries
    BY <1>1, <1>2, <1>3, <1>6, Goes
  <2>3. SameWho(c) /\ job'[c].cursor = job[c].cursor
    BY <2>2 DEF SameWork
  <2>4. c.op # "init"
    BY <1>1, <1>3 DEF OwnKey
  <2>5. /\ Frame
        /\ CallInv(c)' => IInv'
    BY <1>2, <2>2, <2>3, <2>4, QuietStep DEF SameWho
  <2>6. ~RuledOut(job[c].scope, MountOf(c))
    BY <1>4, <2>1 DEF MountVerdict, SettleMount, Resolve
  <2>7. Window(c)' = Window(c) /\ MountOf(c)' = MountOf(c) /\ Own(c)' = Own(c)
    BY <2>3, SameWindow DEF SameWho
  <2>8. Admitted(c)'
    <3>1. c.op = "create_key" => Within(c.grants, job[c].key.grants)
      <4>1. c.op = "create_key" => c.grants \in Grants
        BY <1>1, CallsFit DEF Routed
      <4>2. job[c].key.grants \in Grants
        BY <1>1, <1>3 DEF OwnKey
      <4> QED BY <2>1, <4>1, <4>2, ChildWithinParent
    <3> QED BY <2>1, <2>3, <2>6, <2>7, <3>1 DEF Admitted, SameWho
  <2>9. Undisturbed(c)'
    <3> SUFFICES ASSUME c \notin overtaken'
                 PROVE  Undisturbed(c)'
      BY DEF Undisturbed
    <3>1. /\ c \notin overtaken /\ c.secret \in DOMAIN keys'
          /\ Placed(c)' /\ job'[c].key.inbox # None =>
               InboxPlace(job[c].key.inbox)' = job'[c].scope
      BY <1>1, <1>2, <1>3, <2>3, <2>5, StillUndisturbed
    <3>2. ASSUME c.op \notin OwnInbox
          PROVE  Stands(Window(c))'
      <4>1. SettleMount(job[c].scope, MountOf(c), PodPlaces, InboxPlaces) = "ready"
        <5>1. SettleMount(job[c].scope, MountOf(c), PodPlaces, InboxPlaces) # "denied"
          BY <2>1, <3>2 DEF MountVerdict
        <5> QED BY <5>1 DEF SettleMount, Resolve, Settle
      <4>2. Stands(Window(c))
        BY <1>2, <1>3, <3>1, <4>1, SettledStands
      <4>3. pods' = pods /\ inboxes' = inboxes
        BY <1>2 DEF tables
      <4> QED BY <2>7, <4>2, <4>3 DEF Stands, InboxPlace
    <3>3. job'[c].key = job[c].key /\ job'[c].at = "inside"
      BY <2>2, <2>3 DEF SameWho
    <3> QED BY <3>1, <3>2, <3>3 DEF Undisturbed
  <2> QED BY <1>1, <1>2, <2>2, <2>5, <2>8, <2>9, Continued
<1> QED BY <1>5, <1>6

(***************************************************************************)
(* A statement of a call let in.                                           *)
(***************************************************************************)
LEMMA LetIn ==
  ASSUME IInv, NEW c \in Calls, job[c].at \in {"inside", "insert", "replay"}
  PROVE  /\ Fits /\ CallInv(c) /\ Shape(c) /\ OwnKey(c) /\ OwnScope(c) /\ TablesInv /\ Routed(c)
         /\ Known(c) /\ Placed(c) /\ c.op # "init"
         /\ ~RuledOut(job[c].scope, MountOf(c)) /\ Own(c)
         /\ job[c].key.org \in orgs /\ job[c].scope.org = job[c].key.org
         /\ Window(c).org = job[c].key.org /\ Inside(Window(c), job[c].scope)
<1>1. Fits /\ CallInv(c) /\ Shape(c) /\ OwnKey(c) /\ OwnScope(c) /\ TablesInv
  BY DEF IInv, CallInv
<1>2. Known(c) /\ Placed(c) /\ Routed(c)
  BY <1>1, CallsFit DEF Shape
<1>3. ~RuledOut(job[c].scope, MountOf(c)) /\ Own(c)
  BY <1>1 DEF CallInv, Admitted
<1>4. c.op # "init" /\ job[c].key.org \in orgs
  BY <1>1, <1>2 DEF OwnKey
<1>5. job[c].scope.org = job[c].key.org
  BY <1>1, <1>2 DEF OwnScope, Place
<1>6. Window(c).org = job[c].key.org /\ Inside(Window(c), job[c].scope)
  BY <1>1, <1>2, <1>3, WindowInside
<1> QED BY <1>1, <1>2, <1>3, <1>4, <1>5, <1>6

(* An insert that did nothing leaves its select to follow.                 *)
LEMMA Replays ==
  ASSUME IInv, NEW c \in Calls, job[c].at \in {"inside", "insert"},
         c.op \in {"create_pod", "create_inbox"}, Go(c, "replay"), UNCHANGED tables, Observe, ReplayedBy(c) # {}
  PROVE  IInv'
<1>1. /\ CallInv(c) /\ Shape(c) /\ Known(c) /\ Placed(c) /\ c.op # "init"
      /\ ~RuledOut(job[c].scope, MountOf(c)) /\ Own(c)
  BY LetIn
<1>2. Moves(c) /\ SameWork(c) /\ Shape(c)' /\ job'[c].at = "replay"
  BY <1>1, Goes
<1>3. SameWho(c) /\ job'[c].cursor = job[c].cursor
  BY <1>2 DEF SameWork
<1>4. /\ Frame
      /\ CallInv(c)' => IInv'
  BY <1>1, <1>2, <1>3, QuietStep DEF SameWho
<1>5. Admitted(c)'
  BY <1>1, <1>3, SameWindow DEF Admitted, SameWho
<1>6. Undisturbed(c)'
  <2> SUFFICES ASSUME c \notin overtaken'
               PROVE  Undisturbed(c)'
    BY DEF Undisturbed
  <2>1. /\ c.secret \in DOMAIN keys'
        /\ Placed(c)' /\ job'[c].key.inbox # None =>
             InboxPlace(job[c].key.inbox)' = job'[c].scope
    BY <1>1, <1>3, <1>4, StillUndisturbed
  <2>2. ReplayedBy(c)' = ReplayedBy(c)
    BY <1>3 DEF ReplayedBy, Replayed, tables, SameWho
  <2>3. job'[c].key = job[c].key
    BY <1>3 DEF SameWho
  <2> QED BY <1>2, <2>1, <2>2, <2>3 DEF Undisturbed
<1> QED BY <1>1, <1>2, <1>4, <1>5, <1>6, Continued

(***************************************************************************)
(* Answers with a row.                                                     *)
(***************************************************************************)
LEMMA AnsweredRow ==
  ASSUME NEW c \in Calls, Shape(c), job[c].at # "done", NEW row, AnswerRow(c, row)
  PROVE  /\ Moves(c) /\ SameWho(c) /\ Shape(c)'
         /\ job'[c].at = "done" /\ job'[c].answer \in Heard /\ job'[c].row = row
         /\ job'[c].rows = job[c].rows /\ job'[c].cursor = job[c].cursor
<1> PICK answer \in Heard :
      job' = [job EXCEPT ![c].at = "done", ![c].answer = answer, ![c].row = row]
  BY DEF AnswerRow
<1>1. DOMAIN job' = DOMAIN job /\ \A d \in Calls : d # c => job'[d] = job[d]
  BY DEF Calls
<1>2. job'[c] = [at |-> "done", key |-> job[c].key, scope |-> job[c].scope,
                 saw |-> job[c].saw, answer |-> answer, row |-> row,
                 rows |-> job[c].rows, cursor |-> job[c].cursor, tries |-> job[c].tries]
  BY DEF Calls, Shape
<1>3. Shape(c)'
  BY <1>2 DEF Shape, Known, Placed
<1> QED BY <1>1, <1>2, <1>3 DEF Moves, SameWho, Calls

(* A create that is answered is right if its row is.                       *)
LEMMA CreateEnds ==
  ASSUME Frame, NEW c \in Calls, CallInv(c), job[c].at # "done", c.op \notin Lists,
         NEW row, AnswerRow(c, row), Created(c)'
  PROVE  CallInv(c)'
<1>1. /\ SameWho(c) /\ Shape(c)' /\ job'[c].at = "done" /\ job'[c].answer \in Heard
      /\ job'[c].rows = job[c].rows
  BY AnsweredRow DEF CallInv
<1>2. InReach(c)'
  BY <1>1, InReachKept DEF CallInv, SameWho
<1>3. Explained(c)' /\ Walking(c)'
  BY <1>1 DEF Explained, Walking, Heard
<1> QED BY <1>1, <1>2, <1>3, Ended

(* The insert of a pod, or none where the client id is taken.              *)
LEMMA PodsCreate ==
  ASSUME IInv, NEW c \in Calls, pods_create(c), Observe
  PROVE  IInv'
<1> DEFINE org == job[c].key.org
<1>1. /\ job[c].at = "inside" /\ c.op = "create_pod" /\ UNCHANGED <<orgs, inboxes, keys>>
      /\ IF Replayed(pods, org, c.client) # {}
         THEN Go(c, "replay") /\ UNCHANGED pods
         ELSE /\ pods' = Put(pods, c.id, [org |-> org, client |-> c.client])
              /\ AnswerRow(c, <<c.id, None>>)
  BY DEF pods_create, At
<1>2. CASE Replayed(pods, org, c.client) # {}
  <2>1. ReplayedBy(c) # {}
    BY <1>1, <1>2 DEF ReplayedBy
  <2> QED BY <1>1, <1>2, <2>1, Replays DEF tables
<1>3. CASE Replayed(pods, org, c.client) = {}
  <2>1. /\ CallInv(c) /\ Shape(c) /\ Fits /\ TablesInv /\ org \in orgs /\ c.op # "init"
    BY <1>1, LetIn
  <2>2. /\ Moves(c) /\ SameWho(c) /\ job'[c].at = "done" /\ job'[c].answer \in Heard
        /\ job'[c].row = <<c.id, None>>
    BY <1>1, <1>3, <2>1, AnsweredRow
  <2>3. Made(c) = {c.id} /\ c.id \in Ids
    <3>1. Made(c) = {c.id}
      BY <1>1 DEF Made
    <3> QED BY <2>1, <3>1, CallsFit
  <2>4. c.id \notin DOMAIN pods /\ \A d \in Calls : job[d].key.org # c.id
    BY <1>1 DEF IInv, Unused, Making
  <2> DEFINE row == [org |-> org, client |-> c.client]
  <2>5. row.org = org /\ row.client = c.client /\ pods' = Put(pods, c.id, row)
    BY <1>1, <1>3
  <2> HIDE DEF row
  <2>6. Frame /\ TablesInv'
    BY <1>1, <1>3, <2>1, <2>2, <2>3, <2>4, <2>5, PodComes DEF Moves
  <2>7. DOMAIN pods' = DOMAIN pods \cup {c.id} /\ pods'[c.id] = row
    BY <2>4, <2>5 DEF Put
  <2>8. job'[c].key = job[c].key
    BY <2>2 DEF SameWho
  <2>9. Unused'
    <3>1. ~Making(c)' /\ ~Drawing(c)'
      BY <1>1, <2>2 DEF Making, Drawing
    <3>2. \A p \in DOMAIN pods' \ DOMAIN pods : p \in Made(c) /\ ~Making(c)'
      BY <2>3, <2>7, <3>1
    <3>3. \A s \in DOMAIN keys' : s \in DOMAIN keys /\ keys'[s] = keys[s]
      BY <1>1
    <3>4. \A s \in DOMAIN ancestry' : s \in DOMAIN ancestry
      BY <1>1, NothingMinted
    <3> QED BY <2>1, <2>2, <2>8, <3>1, <3>2, <3>3, <3>4, UnusedKept DEF IInv
  <2>10. Makers'
    BY <1>1, <2>2, <2>6, MakersKept DEF IInv
  <2>11. InitsInv'
    BY <1>1, <2>1, <2>2, InitsKept DEF IInv
  <2>12. Created(c)'
    BY <1>1, <2>2, <2>5, <2>7, <2>8 DEF Created
  <2>13. CallInv(c)'
    <3>1. c.op \notin Lists
      BY <1>1 DEF Lists
    <3> QED BY <1>1, <1>3, <2>1, <2>6, <2>12, <3>1, CreateEnds
  <2> QED BY <2>2, <2>6, <2>9, <2>10, <2>11, <2>13, StepInv
<1> QED BY <1>2, <1>3

(* The select after it: the original, unless that was deleted.             *)
LEMMA PodsReplay ==
  ASSUME IInv, NEW c \in Calls, pods_replay(c), Observe
  PROVE  IInv'
<1> DEFINE org == job[c].key.org
           found == Replayed(pods, org, c.client)
<1>1. /\ job[c].at = "replay" /\ c.op = "create_pod" /\ UNCHANGED tables
      /\ IF found = {} THEN Answer(c, "internal") ELSE \E p \in found : AnswerRow(c, <<p, None>>)
  BY DEF pods_replay
<1>2. /\ CallInv(c) /\ Shape(c) /\ Known(c) /\ c.op # "init"
  BY <1>1, LetIn
<1>3. CASE found = {}
  <2>1. Explained(c)'
    <3>1. ReplayedBy(c) = {}
      BY <1>1, <1>3 DEF ReplayedBy
    <3>2. c \in overtaken
      BY <1>1, <1>2, <3>1 DEF CallInv, Undisturbed
    <3>3. overtaken \subseteq overtaken'
      BY DEF Observe
    <3> QED BY <3>2, <3>3 DEF Explained
  <2> QED BY <1>1, <1>3, <2>1, Refused
<1>4. CASE found # {}
  <2>1. PICK p \in found : AnswerRow(c, <<p, None>>)
    BY <1>1, <1>4
  <2>2. /\ Moves(c) /\ SameWho(c) /\ job'[c].at = "done" /\ job'[c].answer \in Heard
        /\ job'[c].row = <<p, None>>
    BY <1>1, <1>2, <2>1, AnsweredRow
  <2>3. /\ Frame
        /\ CallInv(c)' => IInv'
    BY <1>1, <1>2, <2>2, QuietStep DEF SameWho
  <2>4. p \in DOMAIN pods /\ pods[p].client = c.client /\ pods[p].org = org
    BY <2>1 DEF Replayed
  <2>5. Created(c)'
    BY <1>1, <2>2, <2>4 DEF Created, tables, SameWho
  <2>6. c.op \notin Lists
    BY <1>1 DEF Lists
  <2> QED BY <1>1, <1>2, <2>1, <2>3, <2>5, <2>6, CreateEnds
<1> QED BY <1>3, <1>4

(***************************************************************************)
(* Answers with what was seen.                                             *)
(***************************************************************************)
LEMMA AnsweredSeen ==
  ASSUME NEW c \in Calls, Shape(c), job[c].at # "done", NEW id, NEW place,
         AnswerSeen(c, id, place)
  PROVE  /\ Moves(c) /\ SameWho(c) /\ Shape(c)'
         /\ job'[c].at = "done" /\ job'[c].answer \in Heard
         /\ job'[c].rows = {[id |-> id, place |-> place, mount |-> MountOf(c)]}
<1> DEFINE rows == {[id |-> id, place |-> place, mount |-> MountOf(c)]}
<1> PICK answer \in Heard :
      job' = [job EXCEPT ![c].at = "done", ![c].answer = answer, ![c].rows = rows]
  BY DEF AnswerSeen, Seen
<1> HIDE DEF rows
<1>1. DOMAIN job' = DOMAIN job /\ \A d \in Calls : d # c => job'[d] = job[d]
  BY DEF Calls
<1>3. job'[c] = [at |-> "done", key |-> job[c].key, scope |-> job[c].scope,
                 saw |-> job[c].saw, answer |-> answer, row |-> job[c].row,
                 rows |-> rows, cursor |-> job[c].cursor, tries |-> job[c].tries]
  BY DEF Calls, Shape
<1>4. Shape(c)'
  BY <1>3 DEF Shape, Known, Placed
<1> QED BY <1>1, <1>3, <1>4 DEF Moves, SameWho, Calls, rows

(* Showing a row is right if the row is in reach and under the mount.      *)
LEMMA ShowEnds ==
  ASSUME Frame, NEW c \in Calls, CallInv(c), job[c].at # "done",
         c.op \notin Lists \cup {"create_pod", "create_inbox"},
         NEW id, NEW place, AnswerSeen(c, id, place),
         c \notin overtaken' => Inside(place, Reach(c)) /\ Under(MountOf(c), place)
  PROVE  CallInv(c)'
<1>1. /\ SameWho(c) /\ Shape(c)' /\ job'[c].at = "done" /\ job'[c].answer \in Heard
      /\ job'[c].rows = {[id |-> id, place |-> place, mount |-> MountOf(c)]}
  BY AnsweredSeen DEF CallInv
<1>2. Reach(c)' = Reach(c)
  BY <1>1 DEF Reach, SameWho
<1>3. InReach(c)'
  BY <1>1, <1>2 DEF InReach
<1>4. Created(c)' /\ Explained(c)' /\ Walking(c)'
  BY <1>1 DEF Created, Explained, Walking, Heard
<1> QED BY <1>1, <1>3, <1>4, Ended

(* A pod is shown only if the window is open to it.                        *)
LEMMA PodsGet ==
  ASSUME IInv, NEW c \in Calls, pods_get(c), Observe
  PROVE  IInv'
<1> DEFINE place == Place(job[c].key.org, c.target, None)
<1>1. /\ job[c].at = "inside" /\ c.op = "get_pod" /\ UNCHANGED tables
      /\ IF PodAt(c, c.target) /\ WindowAdmits(Window(c), place)
         THEN AnswerSeen(c, c.target, place) ELSE Answer(c, "not_found")
  BY DEF pods_get, At
<1> HIDE DEF place
<1>2. /\ CallInv(c) /\ Shape(c) /\ Placed(c) /\ c.op # "init" /\ Fits /\ OwnScope(c)
      /\ ~RuledOut(job[c].scope, MountOf(c))
  BY <1>1, LetIn
<1>3. CASE PodAt(c, c.target) /\ WindowAdmits(Window(c), place)
  <2>1. Moves(c) /\ SameWho(c) /\ job'[c].at = "done"
    BY <1>1, <1>2, <1>3, AnsweredSeen
  <2>2. /\ Frame
        /\ CallInv(c)' => IInv'
    BY <1>1, <1>2, <2>1, QuietStep DEF SameWho
  <2>3. Inside(place, job[c].scope) /\ Under(MountOf(c), place)
    BY <1>2, <1>3, ShownInReach
  <2>4. Reach(c) = job[c].scope
    BY <1>1 DEF Reach
  <2>5. c.op \notin Lists \cup {"create_pod", "create_inbox"}
    BY <1>1 DEF Lists
  <2> QED BY <1>1, <1>2, <1>3, <2>2, <2>3, <2>4, <2>5, ShowEnds
<1>4. CASE ~(PodAt(c, c.target) /\ WindowAdmits(Window(c), place))
  BY <1>1, <1>4, Refused
<1> QED BY <1>3, <1>4

(* A pod that mail, inboxes or keys refer to is not deleted.               *)
LEMMA PodsDelete ==
  ASSUME IInv, NEW c \in Calls, pods_delete(c), Observe
  PROVE  IInv'
<1> DEFINE p == c.target
           place == Place(job[c].key.org, p, None)
<1>1. /\ job[c].at = "inside" /\ c.op = "delete_pod" /\ UNCHANGED <<orgs, inboxes, keys>>
      /\ \/ (Answer(c, "not_found") \/ Answer(c, "cannot_delete")) /\ UNCHANGED pods
         \/ /\ PodReferences(p) = {} /\ pods' = Keep(pods, DOMAIN pods \ {p})
            /\ AnswerSeen(c, p, place)
  BY DEF pods_delete, At
<1> HIDE DEF place
<1>2. /\ CallInv(c) /\ Shape(c) /\ Placed(c) /\ c.op # "init" /\ Fits /\ OwnScope(c) /\ TablesInv
      /\ Inside(Window(c), job[c].scope) /\ Own(c) /\ Routed(c)
      /\ job[c].scope.org = job[c].key.org
  BY <1>1, LetIn
<1>3. CASE (Answer(c, "not_found") \/ Answer(c, "cannot_delete")) /\ UNCHANGED pods
  <2>1. PICK a \in {"not_found", "cannot_delete"} : Answer(c, a)
    BY <1>3
  <2>2. UNCHANGED tables /\ a \notin {"ok", "bad_token"} /\ a # "internal"
    BY <1>1, <1>3 DEF tables
  <2> QED BY <1>1, <2>1, <2>2, Refused
<1>4. CASE /\ PodReferences(p) = {} /\ pods' = Keep(pods, DOMAIN pods \ {p})
           /\ AnswerSeen(c, p, place)
  <2>1. Moves(c) /\ SameWho(c) /\ job'[c].at = "done"
    BY <1>1, <1>2, <1>4, AnsweredSeen
  <2>2. Frame /\ TablesInv'
    BY <1>1, <1>2, <1>4, <2>1, PodGoes DEF Moves
  <2>3. DOMAIN pods' \subseteq DOMAIN pods
    BY <1>4 DEF Keep
  <2>4. Unused'
    <3>1. ~Making(c)' /\ ~Drawing(c)'
      BY <1>1, <2>1 DEF Making, Drawing
    <3>2. \A q \in DOMAIN pods' \ DOMAIN pods : q \in Made(c) /\ ~Making(c)'
      BY <2>3
    <3>3. \A s \in DOMAIN keys' : s \in DOMAIN keys /\ keys'[s] = keys[s]
      BY <1>1
    <3>4. \A s \in DOMAIN ancestry' : s \in DOMAIN ancestry
      BY <1>1, NothingMinted
    <3> QED BY <2>1, <3>1, <3>2, <3>3, <3>4, UnusedKept DEF IInv, SameWho
  <2>5. Makers'
    BY <1>1, <2>1, <2>2, MakersKept DEF IInv
  <2>6. InitsInv'
    BY <1>1, <1>2, <2>1, InitsKept DEF IInv
  <2>7. Inside(place, Reach(c)) /\ Under(MountOf(c), place)
    <3>1. MountOf(c) = OrgMount
      BY <1>1, <1>2 DEF Routed, MountOf
    <3>2. Window(c) = job[c].scope /\ Window(c).pod \in {None, p}
      BY <1>1, <1>2, <3>1 DEF Window, Narrowed, OrgMount, Own, bound_pod_matches
    <3>3. Reach(c) = Place(job[c].scope.org, job[c].scope.pod, None)
      BY <1>1, <1>2 DEF Reach, OwnScope, Place
    <3>4. Inside(place, Reach(c))
      BY <1>2, <3>2, <3>3 DEF Inside, place, Place
    <3> QED BY <3>1, <3>4 DEF Under, OrgMount
  <2>8. CallInv(c)'
    <3>1. c.op \notin Lists \cup {"create_pod", "create_inbox"}
      BY <1>1 DEF Lists
    <3> QED BY <1>1, <1>2, <1>4, <2>2, <2>7, <3>1, ShowEnds
  <2> QED BY <2>1, <2>2, <2>4, <2>5, <2>6, <2>8, StepInv
<1> QED BY <1>1, <1>3, <1>4

(***************************************************************************)
(* Inboxes.                                                                *)
(***************************************************************************)

(* Its arbiter: the client id decides whether there is to be an insert.    *)
LEMMA InboxesArbiter ==
  ASSUME IInv, NEW c \in Calls, inboxes_arbiter(c), Observe
  PROVE  IInv'
<1> DEFINE found == Replayed(inboxes, job[c].key.org, c.client)
<1>1. /\ job[c].at = "inside" /\ c.op = "create_inbox" /\ UNCHANGED tables
      /\ Go(c, IF found # {} THEN "replay" ELSE "insert")
  BY DEF inboxes_arbiter, At
<1>2. CASE found # {}
  <2>1. ReplayedBy(c) # {}
    BY <1>1, <1>2 DEF ReplayedBy
  <2> QED BY <1>1, <1>2, <2>1, Replays
<1>3. CASE found = {}
  <2>1. Go(c, "insert")
    BY <1>1, <1>3
  <2>2. /\ CallInv(c) /\ Shape(c) /\ Known(c) /\ Placed(c) /\ c.op # "init"
        /\ ~RuledOut(job[c].scope, MountOf(c)) /\ Own(c)
    BY <1>1, LetIn
  <2>3. Moves(c) /\ SameWork(c) /\ Shape(c)' /\ job'[c].at = "insert"
    BY <1>1, <2>1, <2>2, Goes
  <2>4. SameWho(c) /\ job'[c].cursor = job[c].cursor
    BY <2>3 DEF SameWork
  <2>5. /\ Frame
        /\ CallInv(c)' => IInv'
    BY <1>1, <2>2, <2>3, <2>4, QuietStep DEF SameWho
  <2>6. Window(c)' = Window(c) /\ MountOf(c)' = MountOf(c) /\ Own(c)' = Own(c)
    BY <2>4, SameWindow DEF SameWho
  <2>7. Admitted(c)'
    BY <1>1, <2>2, <2>4, <2>6 DEF Admitted, SameWho
  <2>8. Undisturbed(c)'
    <3> SUFFICES ASSUME c \notin overtaken'
                 PROVE  Undisturbed(c)'
      BY DEF Undisturbed
    <3>1. /\ c \notin overtaken /\ c.secret \in DOMAIN keys'
          /\ Placed(c)' /\ job'[c].key.inbox # None =>
               InboxPlace(job[c].key.inbox)' = job'[c].scope
      BY <1>1, <2>2, <2>4, <2>5, StillUndisturbed
    <3>2. c.op \notin OwnInbox
      BY <1>1 DEF OwnInbox
    <3>3. Stands(Window(c))
      BY <1>1, <2>2, <3>1, <3>2 DEF CallInv, Undisturbed
    <3>4. pods' = pods /\ inboxes' = inboxes
      BY <1>1 DEF tables
    <3>5. Stands(Window(c))'
      BY <2>6, <3>3, <3>4 DEF Stands, InboxPlace
    <3>6. job'[c].key = job[c].key
      BY <2>4 DEF SameWho
    <3> QED BY <2>3, <3>1, <3>5, <3>6 DEF Undisturbed
  <2> QED BY <1>1, <2>2, <2>3, <2>5, <2>7, <2>8, Continued
<1> QED BY <1>2, <1>3

(* The insert of an inbox: address and client id decide what it does.      *)
LEMMA InboxesCreate ==
  ASSUME IInv, NEW c \in Calls, inboxes_create(c), Observe
  PROVE  IInv'
<1> DEFINE org == job[c].key.org
           i == c.target
           found == Replayed(inboxes, org, c.client)
           row == [org |-> org, pod |-> PodFor(c), client |-> c.client, by |-> c]
<1>1. /\ job[c].at = "insert" /\ UNCHANGED <<orgs, pods, keys>>
      /\ \/ found # {} /\ Go(c, "replay") /\ UNCHANGED inboxes
         \/ Answer(c, "already_exists") /\ UNCHANGED inboxes
         \/ PodFor(c) \notin DOMAIN pods /\ Answer(c, "internal") /\ UNCHANGED inboxes
         \/ /\ found = {} /\ i \notin DOMAIN inboxes /\ PodFor(c) \in DOMAIN pods
            /\ inboxes' = Put(inboxes, i, row) /\ AnswerRow(c, <<i, c>>)
  BY DEF inboxes_create
<1>2. /\ CallInv(c) /\ Shape(c) /\ Fits /\ TablesInv /\ org \in orgs /\ Routed(c)
      /\ Known(c) /\ Window(c).org = org /\ ~RuledOut(job[c].scope, MountOf(c))
      /\ c.op = "create_inbox" /\ c.op # "init"
  BY <1>1, LetIn DEF Shape
<1> HIDE DEF row
<1>3. CASE found # {} /\ Go(c, "replay") /\ UNCHANGED inboxes
  <2>1. ReplayedBy(c) # {}
    BY <1>2, <1>3 DEF ReplayedBy
  <2> QED BY <1>1, <1>2, <1>3, <2>1, Replays DEF tables
<1>4. CASE Answer(c, "already_exists") /\ UNCHANGED inboxes
  BY <1>1, <1>2, <1>4, Refused DEF tables
<1>5. CASE PodFor(c) \notin DOMAIN pods /\ Answer(c, "internal") /\ UNCHANGED inboxes
  <2>1. job'[c].key = job[c].key
    BY <1>1, <1>2, <1>5, Answered DEF SameWho
  <2>2. Explained(c)'
    <3>1. CASE Window(c).pod = None
      <4>1. org \notin DOMAIN pods
        BY <1>2, <1>5, <3>1 DEF PodFor
      <4> QED BY <1>1, <1>2, <2>1, <4>1 DEF Explained
    <3>2. CASE Window(c).pod # None
      <4>1. ~Stands(Window(c))
        BY <1>5, <3>2 DEF PodFor, Stands
      <4>2. c.op \notin OwnInbox
        BY <1>2 DEF OwnInbox
      <4>3. c \in overtaken
        BY <1>1, <1>2, <4>1, <4>2 DEF CallInv, Undisturbed
      <4>4. overtaken \subseteq overtaken'
        BY DEF Observe
      <4> QED BY <4>3, <4>4 DEF Explained
    <3> QED BY <3>1, <3>2
  <2> QED BY <1>1, <1>2, <1>5, <2>2, Refused DEF tables
<1>6. CASE /\ found = {} /\ i \notin DOMAIN inboxes /\ PodFor(c) \in DOMAIN pods
           /\ inboxes' = Put(inboxes, i, row) /\ AnswerRow(c, <<i, c>>)
  <2>1. /\ Moves(c) /\ SameWho(c) /\ job'[c].at = "done" /\ job'[c].answer \in Heard
        /\ job'[c].row = <<i, c>> /\ job'[c].cursor = job[c].cursor
    BY <1>1, <1>2, <1>6, AnsweredRow
  <2>2. row.org = org /\ row.pod = PodFor(c) /\ row.client = c.client /\ row.by = c
    BY DEF row
  <2>3. i \in Addresses
    BY <1>1, <1>2 DEF Routed
  <2>4. Frame /\ TablesInv'
    BY <1>1, <1>2, <1>6, <2>1, <2>2, <2>3, InboxComes DEF Moves
  <2>5. DOMAIN inboxes' = DOMAIN inboxes \cup {i} /\ inboxes'[i] = row
    BY <1>6 DEF Put
  <2>6. job'[c].key = job[c].key /\ job'[c].scope = job[c].scope
    BY <2>1 DEF SameWho
  <2>7. Unused'
    <3>1. ~Making(c)' /\ ~Drawing(c)'
      BY <1>2, <2>1 DEF Making, Drawing
    <3>2. \A q \in DOMAIN pods' \ DOMAIN pods : q \in Made(c) /\ ~Making(c)'
      BY <1>1
    <3>3. \A s \in DOMAIN keys' : s \in DOMAIN keys /\ keys'[s] = keys[s]
      BY <1>1
    <3>4. \A s \in DOMAIN ancestry' : s \in DOMAIN ancestry
      BY <1>1, NothingMinted
    <3> QED BY <2>1, <2>6, <3>1, <3>2, <3>3, <3>4, UnusedKept DEF IInv
  <2>8. Makers'
    <3>1. Window(c)' = Window(c) /\ MountOf(c) = c.mount
      BY <1>1, <1>2, <2>1, <2>6, SameWindow DEF Shape, MountOf, Lists
    <3>2. PodFor(c)' = PodFor(c)
      BY <3>1 DEF PodFor
    <3> QED BY <1>1, <1>2, <2>1, <2>2, <2>4, <2>5, <2>6, <3>1, <3>2, MakersKept DEF IInv
  <2>9. InitsInv'
    BY <1>1, <1>2, <2>1, InitsKept DEF IInv
  <2>10. Created(c)'
    BY <1>2, <2>1, <2>2, <2>5, <2>6 DEF Created
  <2>11. CallInv(c)'
    <3>1. c.op \notin Lists
      BY <1>2 DEF Lists
    <3> QED BY <1>1, <1>2, <1>6, <2>4, <2>10, <3>1, CreateEnds
  <2> QED BY <2>1, <2>4, <2>7, <2>8, <2>9, <2>11, StepInv
<1> QED BY <1>1, <1>3, <1>4, <1>5, <1>6

(* The select after it: the original, unless that was deleted.             *)
LEMMA InboxesReplay ==
  ASSUME IInv, NEW c \in Calls, inboxes_replay(c), Observe
  PROVE  IInv'
<1> DEFINE org == job[c].key.org
           found == Replayed(inboxes, org, c.client)
<1>1. /\ job[c].at = "replay" /\ c.op = "create_inbox" /\ UNCHANGED tables
      /\ IF found = {} THEN Answer(c, "internal")
         ELSE \E i \in found : AnswerRow(c, <<i, inboxes[i].by>>)
  BY DEF inboxes_replay
<1>2. /\ CallInv(c) /\ Shape(c) /\ Known(c) /\ c.op # "init"
  BY <1>1, LetIn
<1>3. CASE found = {}
  <2>1. Explained(c)'
    <3>1. ReplayedBy(c) = {}
      BY <1>1, <1>3 DEF ReplayedBy
    <3>2. c \in overtaken
      BY <1>1, <1>2, <3>1 DEF CallInv, Undisturbed
    <3>3. overtaken \subseteq overtaken'
      BY DEF Observe
    <3> QED BY <3>2, <3>3 DEF Explained
  <2> QED BY <1>1, <1>3, <2>1, Refused
<1>4. CASE found # {}
  <2>1. PICK i \in found : AnswerRow(c, <<i, inboxes[i].by>>)
    BY <1>1, <1>4
  <2>2. /\ Moves(c) /\ SameWho(c) /\ job'[c].at = "done" /\ job'[c].answer \in Heard
        /\ job'[c].row = <<i, inboxes[i].by>>
    BY <1>1, <1>2, <2>1, AnsweredRow
  <2>3. /\ Frame
        /\ CallInv(c)' => IInv'
    BY <1>1, <1>2, <2>2, QuietStep DEF SameWho
  <2>4. i \in DOMAIN inboxes /\ inboxes[i].client = c.client /\ inboxes[i].org = org
    BY <2>1 DEF Replayed
  <2>5. Created(c)'
    BY <1>1, <2>2, <2>4 DEF Created, tables, SameWho
  <2>6. c.op \notin Lists
    BY <1>1 DEF Lists
  <2> QED BY <1>1, <1>2, <2>1, <2>3, <2>5, <2>6, CreateEnds
<1> QED BY <1>3, <1>4

(* The inbox a window finds by its id is one the window admits.            *)
LEMMA OwnInboxShown ==
  ASSUME IInv, NEW c \in Calls, job[c].at = "inside", c.op \in OwnInbox, InboxAt(c)
  PROVE  /\ c.target \in DOMAIN inboxes
         /\ Inside(InboxPlace(c.target), Reach(c)) /\ Under(MountOf(c), InboxPlace(c.target))
<1>1. /\ Fits /\ OwnScope(c) /\ Placed(c) /\ ~RuledOut(job[c].scope, MountOf(c)) /\ Own(c)
  BY LetIn
<1>2. /\ c.target \in DOMAIN inboxes /\ inboxes[c.target].org = Window(c).org
      /\ Within1(Window(c).pod, inboxes[c.target].pod) /\ Window(c).inbox \in {None, c.target}
  BY <1>1 DEF InboxAt, Own, bound_inbox_matches
<1>3. WindowAdmits(Window(c), InboxPlace(c.target))
  BY <1>2 DEF WindowAdmits, Within1, InboxPlace, Place
<1>4. Reach(c) = job[c].scope
  BY DEF Reach, OwnInbox
<1> QED BY <1>1, <1>2, <1>3, <1>4, ShownInReach

(* An inbox read or updated is one the window admits.                      *)
LEMMA InboxesGet ==
  ASSUME IInv, NEW c \in Calls, inboxes_get(c), Observe
  PROVE  IInv'
<1>1. /\ job[c].at = "inside" /\ c.op \in {"get_inbox", "update_inbox"} /\ UNCHANGED tables
      /\ IF InboxAt(c) THEN AnswerSeen(c, c.target, InboxPlace(c.target))
         ELSE Answer(c, "not_found")
  BY DEF inboxes_get
<1>2. /\ CallInv(c) /\ Shape(c) /\ c.op # "init"
  BY <1>1, LetIn
<1>3. CASE InboxAt(c)
  <2> DEFINE place == InboxPlace(c.target)
  <2>1. Inside(place, Reach(c)) /\ Under(MountOf(c), place)
    BY <1>1, <1>3, OwnInboxShown DEF OwnInbox
  <2>2. AnswerSeen(c, c.target, place)
    BY <1>1, <1>3
  <2> HIDE DEF place
  <2>3. Moves(c) /\ SameWho(c) /\ job'[c].at = "done"
    BY <1>1, <1>2, <2>2, AnsweredSeen
  <2>4. /\ Frame
        /\ CallInv(c)' => IInv'
    BY <1>1, <1>2, <2>3, QuietStep DEF SameWho
  <2>5. c.op \notin Lists \cup {"create_pod", "create_inbox"}
    BY <1>1 DEF Lists
  <2> QED BY <1>1, <1>2, <2>1, <2>2, <2>4, <2>5, ShowEnds
<1>4. CASE ~InboxAt(c)
  BY <1>1, <1>4, Refused
<1> QED BY <1>3, <1>4

(* An inbox deleted is one the window admits, and its keys go.             *)
LEMMA InboxesDelete ==
  ASSUME IInv, NEW c \in Calls, inboxes_delete(c), Observe
  PROVE  IInv'
<1> DEFINE i == c.target
           place == InboxPlace(i)
<1>1. /\ job[c].at = "inside" /\ c.op = "delete_inbox" /\ UNCHANGED <<orgs, pods>>
      /\ IF InboxAt(c)
         THEN /\ inboxes' = Keep(inboxes, DOMAIN inboxes \ {i})
              /\ keys' = Keep(keys, DOMAIN keys \ Cascade(i))
              /\ AnswerSeen(c, i, place)
         ELSE Answer(c, "not_found") /\ UNCHANGED <<inboxes, keys>>
  BY DEF inboxes_delete, At
<1>2. /\ CallInv(c) /\ Shape(c) /\ c.op # "init" /\ TablesInv
  BY <1>1, LetIn
<1>3. CASE InboxAt(c)
  <2>1. i \in DOMAIN inboxes /\ Inside(place, Reach(c)) /\ Under(MountOf(c), place)
    BY <1>1, <1>3, OwnInboxShown DEF OwnInbox
  <2>2. i # None
    BY <1>2, <2>1, NoneApart DEF TablesInv, Rows
  <2> HIDE DEF place
  <2>3. Moves(c) /\ SameWho(c) /\ job'[c].at = "done"
    BY <1>1, <1>2, <1>3, AnsweredSeen
  <2>4. Frame /\ TablesInv'
    BY <1>1, <1>2, <1>3, <2>2, <2>3, InboxGoes DEF Moves
  <2>5. /\ DOMAIN inboxes' \subseteq DOMAIN inboxes
        /\ \A s \in DOMAIN keys' : s \in DOMAIN keys /\ keys'[s] = keys[s]
    BY <1>1, <1>3 DEF Keep
  <2>6. Unused'
    <3>1. ~Making(c)' /\ ~Drawing(c)'
      BY <1>1, <2>3 DEF Making, Drawing
    <3>2. \A q \in DOMAIN pods' \ DOMAIN pods : q \in Made(c) /\ ~Making(c)'
      BY <1>1
    <3>3. \A s \in DOMAIN ancestry' : s \in DOMAIN ancestry
      BY <2>5, NothingMinted
    <3> QED BY <2>3, <2>5, <3>1, <3>2, <3>3, UnusedKept DEF IInv, SameWho
  <2>7. Makers'
    BY <2>3, <2>4, <2>5, MakersKept DEF IInv
  <2>8. InitsInv'
    BY <1>1, <1>2, <2>3, InitsKept DEF IInv
  <2>9. CallInv(c)'
    <3>1. c.op \notin Lists \cup {"create_pod", "create_inbox"}
      BY <1>1 DEF Lists
    <3> QED BY <1>1, <1>2, <1>3, <2>1, <2>4, <3>1, ShowEnds
  <2> QED BY <2>3, <2>4, <2>6, <2>7, <2>8, <2>9, StepInv
<1>4. CASE ~InboxAt(c)
  BY <1>1, <1>4, Refused DEF tables
<1> QED BY <1>3, <1>4

(***************************************************************************)
(* Api keys.                                                               *)
(***************************************************************************)
(* A draw that collided is drawn again; nothing else has happened.         *)
LEMMA DrawsAgain ==
  ASSUME IInv, NEW c \in Calls, job[c].at \in {"inside", "root_key"}, Drawing(c), Observe,
         DrawAgain(c), job' = [job EXCEPT ![c].tries = @ + 1], UNCHANGED tables
  PROVE  IInv'
<1>1. CallInv(c) /\ Shape(c) /\ job[c].at # "done"
  BY DEF IInv, CallInv
<1>2. job'[c] = [at |-> job[c].at, key |-> job[c].key, scope |-> job[c].scope,
                 saw |-> job[c].saw, answer |-> job[c].answer, row |-> job[c].row,
                 rows |-> job[c].rows, cursor |-> job[c].cursor, tries |-> job[c].tries + 1]
  BY <1>1 DEF Shape, Calls
<1>3. SameWork(c) /\ job'[c].at = job[c].at /\ job'[c].tries = job[c].tries + 1
  BY <1>2 DEF SameWork, SameWho
<1>4. Moves(c)
  BY <1>1 DEF Moves, Calls
<1>5. job[c].tries + 1 \in 0..MINT_ATTEMPTS - 1
  BY <1>1, MintAssumption DEF Shape, DrawAgain
<1>6. Shape(c)'
  <2>1. Known(c)' = Known(c) /\ Placed(c)' = Placed(c)
    BY <1>3 DEF SameWork, SameWho, Known, Placed
  <2>2. /\ job[c].at \in {"organization", "default_pod", "root_key"} => c.op = "init"
        /\ job[c].at \in {"known", "granted", "inside", "insert", "replay"} => Known(c)
        /\ job[c].at \in {"granted", "inside", "insert", "replay"} => Placed(c)
        /\ c.op \notin Lists => job[c].cursor = NoToken
        /\ job[c].cursor # NoToken => Placed(c)
        /\ job[c].cursor = NoToken => job[c].rows = {}
    BY <1>1 DEF Shape
  <2>3. job'[c] = [at |-> job'[c].at, key |-> job'[c].key, scope |-> job'[c].scope,
               saw |-> job'[c].saw, answer |-> job'[c].answer, row |-> job'[c].row,
               rows |-> job'[c].rows, cursor |-> job'[c].cursor, tries |-> job'[c].tries]
    BY <1>2
  <2> QED BY <1>3, <1>5, <2>1, <2>2, <2>3 DEF Shape, SameWork, SameWho
<1>7. SameWho(c) /\ job'[c].cursor = job[c].cursor
  BY <1>3 DEF SameWork
<1>8. /\ Frame
      /\ CallInv(c)' => IInv'
  <2>1. c.op = "init" => job'[c].at \in {"root_key", "done"}
    BY <1>1, <1>3 DEF CallInv, OwnKey, Shape
  <2> QED BY <1>3, <1>4, <1>7, <2>1, QuietStep DEF SameWho
<1>9. Window(c)' = Window(c) /\ MountOf(c)' = MountOf(c) /\ Own(c)' = Own(c)
  BY <1>7, SameWindow DEF SameWho
<1>10. Admitted(c)'
  BY <1>1, <1>3, <1>7, <1>9 DEF CallInv, Admitted, SameWho
<1>11. Undisturbed(c)'
  <2> SUFFICES ASSUME c \notin overtaken', Known(c)'
               PROVE  Undisturbed(c)'
    BY DEF Undisturbed
  <2>1. Known(c)
    BY <1>7 DEF Known, SameWho
  <2>2. /\ c \notin overtaken /\ c.secret \in DOMAIN keys'
        /\ Placed(c)' /\ job'[c].key.inbox # None =>
             InboxPlace(job[c].key.inbox)' = job'[c].scope
    BY <1>1, <1>7, <1>8, <2>1, StillUndisturbed
  <2>3. job[c].at = "inside" /\ c.op \notin OwnInbox => Stands(Window(c))
    BY <1>1, <2>1, <2>2 DEF CallInv, Undisturbed
  <2>4. pods' = pods /\ inboxes' = inboxes
    BY DEF tables
  <2>5. job'[c].key = job[c].key
    BY <1>7 DEF SameWho
  <2> QED BY <1>3, <1>9, <2>2, <2>3, <2>4, <2>5 DEF Undisturbed, Stands, InboxPlace
<1> QED BY <1>1, <1>3, <1>6, <1>8, <1>10, <1>11, Continued

(* The windows of a key that mints and of all it descends from.            *)
LEMMA ChildInside ==
  ASSUME NEW w, NEW scope, NEW outer, NEW pod, Inside(w, scope), Inside(scope, outer),
         OneScope(w), w.inbox = None => pod = w.pod, w = Place(w.org, w.pod, w.inbox)
  PROVE  /\ Inside(Place(w.org, pod, w.inbox), scope)
         /\ Inside(Place(w.org, pod, w.inbox), outer)
<1>1. Inside(Place(w.org, pod, w.inbox), scope)
  BY DEF Inside, OneScope, Place
<1>2. Inside(Place(w.org, pod, w.inbox), outer)
  BY <1>1 DEF Inside, Place
<1> QED BY <1>1, <1>2

(* A key that holds a pod and an inbox mints none: its window has both.    *)
LEMMA MinterHasNoInbox ==
  ASSUME NEW c, OwnScope(c), Placed(c), Inside(Window(c), job[c].scope), OneScope(Window(c))
  PROVE  job[c].key.inbox = None /\ job[c].scope = Place(job[c].key.org, job[c].key.pod, None)
<1>1. job[c].key.inbox = None
  <2> SUFFICES ASSUME job[c].key.inbox # None
               PROVE  FALSE
    OBVIOUS
  <2>1. job[c].scope.pod # None /\ job[c].scope.inbox # None
    BY DEF OwnScope, Place
  <2> QED BY <2>1 DEF Inside, OneScope
<1> QED BY <1>1 DEF OwnScope

(* A mint: the child is within the minter, which is within the rest.       *)
LEMMA ApiKeysCreate ==
  ASSUME IInv, NEW c \in Calls, api_keys_create(c), Observe
  PROVE  IInv'
<1> DEFINE w == Window(c)
           key == NewKey(c)
           secret == c.draws[job[c].tries + 1]
           own == job[c].key
<1>1. /\ job[c].at = "inside" /\ c.op = "create_key" /\ UNCHANGED <<orgs, pods, inboxes>>
      /\ \/ DrawAgain(c) /\ job' = [job EXCEPT ![c].tries = @ + 1] /\ UNCHANGED keys
         \/ /\ OneScope(key) /\ ~PrefixTaken(secret) /\ Anchored(key)
            /\ keys' = Put(keys, secret, key) /\ AnswerRow(c, <<secret, None>>)
         \/ /\ ~OneScope(key) \/ (PrefixTaken(secret) /\ ~DrawAgain(c))
                 \/ (~PrefixTaken(secret) /\ ~Anchored(key))
            /\ Answer(c, "internal") /\ UNCHANGED keys
  <2> HIDE DEF key, secret
  <2> QED BY DEF api_keys_create, At, Mint, key, secret
<1>2. /\ CallInv(c) /\ Shape(c) /\ Fits /\ TablesInv /\ own.org \in orgs /\ c.op # "init"
      /\ Routed(c) /\ Known(c) /\ Placed(c) /\ w.org = own.org /\ Inside(w, job[c].scope)
      /\ OwnScope(c) /\ OwnKey(c) /\ ~RuledOut(job[c].scope, MountOf(c))
  BY <1>1, LetIn
<1>3. /\ key.org = w.org /\ key.pod = w.pod /\ key.inbox = w.inbox /\ key.grants = c.grants
  BY <1>1 DEF NewKey
<1>4. w = Place(w.org, w.pod, w.inbox)
  BY <1>2, WindowInside
<1>5. Drawing(c) /\ secret \in Drawn(c)
  <2>1. job[c].tries + 1 \in 1..MINT_ATTEMPTS
    BY <1>2, MintAssumption DEF Shape
  <2> QED BY <1>1, <2>1 DEF Drawing, Drawn
<1>6. secret \in Secrets /\ secret \notin DOMAIN ancestry
  BY <1>2, <1>5, CallsFit DEF IInv, Unused
<1> HIDE DEF key, secret
<1>7. CASE DrawAgain(c) /\ job' = [job EXCEPT ![c].tries = @ + 1] /\ UNCHANGED keys
  BY <1>1, <1>5, <1>7, DrawsAgain DEF tables
<1>8. CASE /\ OneScope(key) /\ ~PrefixTaken(secret) /\ Anchored(key)
           /\ keys' = Put(keys, secret, key) /\ AnswerRow(c, <<secret, None>>)
  <2>1. /\ Moves(c) /\ SameWho(c) /\ job'[c].at = "done"
    BY <1>1, <1>2, <1>8, AnsweredRow
  <2>2. OneScope(w)
    BY <1>3, <1>8 DEF OneScope
  <2>3. own.inbox = None /\ job[c].scope = Place(own.org, own.pod, None)
    BY <1>2, <2>2, MinterHasNoInbox
  <2> DEFINE pod == IF key.inbox = None THEN key.pod ELSE inboxes[key.inbox].pod
             lineage == Lineage(c)
  <2>4. w.inbox = None => pod = w.pod
    BY <1>3
  <2>5. lineage = ancestry[c.secret].of \cup {[grants |-> own.grants, scope |-> job[c].scope]}
    BY <1>2 DEF Lineage
  <2> HIDE DEF pod, lineage
  <2>6. Within(key.grants, own.grants)
    BY <1>1, <1>2, <1>3 DEF CallInv, Admitted
  <2>7. ASSUME NEW a \in lineage
        PROVE  Within(key.grants, a.grants) /\ Inside(Place(key.org, pod, key.inbox), a.scope)
    <3>1. CASE a \in ancestry[c.secret].of
      <4>1. Within(own.grants, a.grants) /\ Inside(job[c].scope, a.scope)
        BY <1>2, <2>3, <3>1 DEF OwnKey
      <4>2. Within(key.grants, a.grants)
        BY <2>6, <4>1 DEF Within
      <4>3. Inside(Place(w.org, pod, w.inbox), a.scope)
        BY <1>2, <1>4, <2>2, <2>4, <4>1, ChildInside
      <4> QED BY <1>3, <4>2, <4>3
    <3>2. CASE a = [grants |-> own.grants, scope |-> job[c].scope]
      <4>1. Inside(job[c].scope, job[c].scope)
        BY DEF Inside
      <4>2. Inside(Place(w.org, pod, w.inbox), job[c].scope)
        BY <1>2, <1>4, <2>2, <2>4, <4>1, ChildInside
      <4> QED BY <1>3, <2>6, <3>2, <4>2
    <3> QED BY <2>5, <2>7, <3>1, <3>2
  <2>8. key.grants \in Grants
    BY <1>1, <1>2, <1>3 DEF Routed
  <2>9. job'[c] # job[c] /\ \A d \in Calls : d # c => job'[d] = job[d]
    BY <1>1, <2>1 DEF Moves
  <2>10. Frame /\ TablesInv'
    <3>1. key.org \in orgs
      BY <1>2, <1>3
    <3>2. /\ \A a \in Lineage(c) : Within(key.grants, a.grants)
          /\ \A a \in Lineage(c) :
               Inside(Place(key.org, IF key.inbox = None THEN key.pod ELSE inboxes[key.inbox].pod,
                            key.inbox), a.scope)
      BY <2>7 DEF lineage, pod
    <3> QED BY <1>1, <1>2, <1>6, <1>8, <2>1, <2>8, <2>9, <3>1, <3>2, KeyComes DEF Moves
  <2>11. secret \notin DOMAIN keys
    BY <1>2, <1>6 DEF TablesInv, Rows
  <2>12. /\ DOMAIN keys' = DOMAIN keys \cup {secret} /\ keys'[secret] = key
         /\ \A s \in DOMAIN keys : keys'[s] = keys[s]
    BY <1>8, <2>11 DEF Put
  <2>13. DOMAIN ancestry' = DOMAIN ancestry \cup {secret}
    BY <1>6, <2>9, <2>11, <2>12, OneMinted
  <2>14. job'[c].key = own
    BY <2>1 DEF SameWho
  <2>15. Unused'
    <3>1. ~Making(c)' /\ ~Drawing(c)'
      BY <1>1, <2>1 DEF Making, Drawing
    <3>2. \A q \in DOMAIN pods' \ DOMAIN pods : q \in Made(c) /\ ~Making(c)'
      BY <1>1
    <3>3. \A s \in DOMAIN keys' :
            \/ s \in DOMAIN keys /\ keys'[s] = keys[s]
            \/ keys'[s].org \in Made(c) /\ ~Making(c)'
            \/ keys'[s].org = job[c].key.org
      BY <1>2, <1>3, <2>12
    <3>4. \A s \in DOMAIN ancestry' : s \in DOMAIN ancestry \/ (s \in Drawn(c) /\ ~Drawing(c)')
      BY <1>5, <2>13, <3>1
    <3> QED BY <2>1, <2>14, <3>1, <3>2, <3>3, <3>4, UnusedKept DEF IInv
  <2>16. Makers'
    BY <1>1, <2>1, <2>10, MakersKept DEF IInv
  <2>17. InitsInv'
    BY <1>1, <1>2, <2>1, InitsKept DEF IInv
  <2>18. CallInv(c)'
    <3>1. Created(c)' /\ c.op \notin Lists
      BY <1>1 DEF Created, Lists
    <3> QED BY <1>1, <1>2, <1>8, <2>10, <3>1, CreateEnds
  <2> QED BY <2>1, <2>10, <2>15, <2>16, <2>17, <2>18, StepInv
<1>9. CASE /\ ~OneScope(key) \/ (PrefixTaken(secret) /\ ~DrawAgain(c))
                \/ (~PrefixTaken(secret) /\ ~Anchored(key))
           /\ Answer(c, "internal") /\ UNCHANGED keys
  <2>1. SameWho(c) /\ job'[c].tries = job[c].tries /\ job'[c].cursor = job[c].cursor
    BY <1>1, <1>2, <1>9, Answered
  <2>2. Window(c)' = Window(c)
    BY <2>1, SameWindow DEF SameWho
  <2>3. Explained(c)'
    <3>1. CASE ~OneScope(key)
      <4>1. ~OneScope(w)
        BY <1>3, <3>1 DEF OneScope
      <4> QED BY <1>1, <2>2, <4>1 DEF Explained, OneScope
    <3>2. CASE ~DrawAgain(c)
      <4>1. job[c].tries = MINT_ATTEMPTS - 1
        BY <1>2, <3>2, MintAssumption DEF DrawAgain, Shape
      <4> QED BY <1>1, <2>1, <4>1 DEF Explained
    <3>3. CASE ~Anchored(key)
      <4>1. ~Stands(w) /\ c.op \notin OwnInbox
        BY <1>1, <1>3, <3>3 DEF Stands, Anchored, OwnInbox
      <4>2. c \in overtaken
        BY <1>1, <1>2, <4>1 DEF CallInv, Undisturbed
      <4>3. overtaken \subseteq overtaken'
        BY DEF Observe
      <4> QED BY <4>2, <4>3 DEF Explained
    <3> QED BY <1>9, <3>1, <3>2, <3>3
  <2> QED BY <1>1, <1>9, <2>3, Refused DEF tables
<1> QED BY <1>1, <1>7, <1>8, <1>9

(* A key deleted is one in the window.                                     *)
LEMMA ApiKeysDelete ==
  ASSUME IInv, NEW c \in Calls, api_keys_delete(c), Observe
  PROVE  IInv'
<1> DEFINE s == c.target
           place == KeyPlace(s)
<1>1. /\ job[c].at = "inside" /\ c.op = "delete_key" /\ UNCHANGED <<orgs, pods, inboxes>>
      /\ \/ Answer(c, "not_found") /\ UNCHANGED keys
         \/ /\ s \in DOMAIN keys /\ InKeyScope(s, Window(c).org, KeyScopeFor(Window(c)))
            /\ keys' = Keep(keys, DOMAIN keys \ {s}) /\ AnswerSeen(c, s, place)
  BY DEF api_keys_delete, At
<1> HIDE DEF place
<1>2. /\ CallInv(c) /\ Shape(c) /\ Placed(c) /\ Known(c) /\ c.op # "init" /\ Fits /\ OwnScope(c)
      /\ TablesInv /\ ~RuledOut(job[c].scope, MountOf(c))
  BY <1>1, LetIn
<1>3. CASE Answer(c, "not_found") /\ UNCHANGED keys
  BY <1>1, <1>3, Refused DEF tables
<1>4. CASE /\ s \in DOMAIN keys /\ InKeyScope(s, Window(c).org, KeyScopeFor(Window(c)))
           /\ keys' = Keep(keys, DOMAIN keys \ {s}) /\ AnswerSeen(c, s, place)
  <2>1. Moves(c) /\ SameWho(c) /\ job'[c].at = "done"
    BY <1>1, <1>2, <1>4, AnsweredSeen
  <2>2. Frame /\ TablesInv'
    BY <1>1, <1>2, <1>4, <2>1, KeyGoes DEF Moves
  <2>3. \A t \in DOMAIN keys' : t \in DOMAIN keys /\ keys'[t] = keys[t]
    BY <1>4 DEF Keep
  <2>4. Unused'
    <3>1. ~Making(c)' /\ ~Drawing(c)'
      BY <1>1, <2>1 DEF Making, Drawing
    <3>2. \A q \in DOMAIN pods' \ DOMAIN pods : q \in Made(c) /\ ~Making(c)'
      BY <1>1
    <3>3. \A t \in DOMAIN ancestry' : t \in DOMAIN ancestry
      BY <2>3, NothingMinted
    <3> QED BY <2>1, <2>3, <3>1, <3>2, <3>3, UnusedKept DEF IInv, SameWho
  <2>5. Makers'
    BY <1>1, <2>1, <2>2, MakersKept DEF IInv
  <2>6. InitsInv'
    BY <1>1, <1>2, <2>1, InitsKept DEF IInv
  <2>7. ASSUME c \notin overtaken'
        PROVE  Inside(place, Reach(c)) /\ Under(MountOf(c), place)
    <3>1. c \notin overtaken
      BY <2>2, <2>7 DEF Frame
    <3>2. Stands(Window(c))
      BY <1>1, <1>2, <3>1 DEF CallInv, Undisturbed, OwnInbox
    <3>3. WindowAdmits(Window(c), place)
      BY <1>2, <1>4, <3>2, KeyShown DEF place
    <3>4. Reach(c) = job[c].scope
      BY <1>1 DEF Reach
    <3> QED BY <1>2, <3>3, <3>4, ShownInReach
  <2>8. CallInv(c)'
    <3>1. c.op \notin Lists \cup {"create_pod", "create_inbox"}
      BY <1>1 DEF Lists
    <3> QED BY <1>1, <1>2, <1>4, <2>2, <2>7, <3>1, ShowEnds
  <2> QED BY <2>1, <2>2, <2>4, <2>5, <2>6, <2>8, StepInv
<1> QED BY <1>1, <1>3, <1>4

(***************************************************************************)
(* Lists.                                                                  *)
(***************************************************************************)
(* Some row is the first of any that there are.                            *)
LEMMA FirstInOrder ==
  ASSUME NEW S, S \subseteq Ids \cup Addresses \cup Secrets, S # {}
  PROVE  \E r \in S : \A other \in S : Order[r] <= Order[other]
<1> DEFINE T == {Order[r] : r \in S}
<1>1. \A r \in S : Order[r] \in Nat
  BY OrderAssumption
<1>2. T \subseteq Nat /\ T # {}
  BY <1>1
<1> DEFINE R == OpToRel(<, Nat)
<1>3. IsWellFoundedOn(R, Nat)
  BY NatLessThanWellFounded
<1>4. PICK n \in T : \A m \in T : <<m, n>> \notin R
  <2> HIDE DEF T, R
  <2> QED BY <1>2, <1>3, WFMin
<1>5. \A m, k \in Nat : m < k => <<m, k>> \in R
  BY DEF OpToRel
<1>6. PICK r \in S : n = Order[r]
  BY <1>4
<1>7. ASSUME NEW other \in S
      PROVE  Order[r] <= Order[other]
  <2>1. Order[other] \in T /\ Order[other] \in Nat /\ Order[r] \in Nat
    BY <1>1
  <2> HIDE DEF R, T
  <2>2. <<Order[other], Order[r]>> \notin R
    BY <1>4, <1>6, <2>1
  <2>3. ~(Order[other] < Order[r])
    BY <1>5, <2>1, <2>2
  <2> QED BY <2>1, <2>3
<1> QED BY <1>7

(* The rows of the next page and after, and the first of them.             *)
Ahead(c) ==
  {row \in Matching(c) :
     \/ job[c].cursor = NoToken
     \/ /\ ~degenerate_single_pod(c) /\ ~degenerate_single_inbox(c)
        /\ Order[job[c].cursor.after] < Order[row]}

FirstAhead(c) == CHOOSE r \in Ahead(c) : \A other \in Ahead(c) : Order[r] <= Order[other]

(* A list is of pods, of inboxes or of keys.                               *)
LEMMA MatchingRows ==
  ASSUME Rows, NEW c, c.op \in Lists
  PROVE  \E kind \in {Ids, Addresses, Secrets} : Matching(c) \subseteq kind
<1>1. c.op = "list_keys" => Matching(c) \subseteq Secrets
  BY DEF Rows, Matching, keys_list
<1>2. c.op = "list_pods" => Matching(c) \subseteq Ids
  BY DEF Rows, Matching, pods_list
<1>3. c.op = "list_inboxes" => Matching(c) \subseteq Addresses
  BY DEF Rows, Matching, inboxes_list
<1> QED BY <1>1, <1>2, <1>3 DEF Lists

(* Of the rows ahead one is first, as ids rank and none alike.             *)
LEMMA FirstOfPage ==
  ASSUME Rows, NEW c, c.op \in Lists, Ahead(c) # {}
  PROVE  /\ FirstAhead(c) \in Ahead(c)
         /\ FirstAhead(c) \in Ids \cup Addresses \cup Secrets
         /\ \A other \in Ahead(c) : other # FirstAhead(c) => Order[FirstAhead(c)] < Order[other]
<1>1. PICK kind \in {Ids, Addresses, Secrets} : Matching(c) \subseteq kind
  BY MatchingRows
<1>2. Ahead(c) \subseteq kind /\ Ahead(c) \subseteq Ids \cup Addresses \cup Secrets
  BY <1>1 DEF Ahead
<1> HIDE DEF Ahead
<1>3. \E r \in Ahead(c) : \A other \in Ahead(c) : Order[r] <= Order[other]
  BY <1>2, FirstInOrder
<1>4. FirstAhead(c) \in Ahead(c) /\ \A other \in Ahead(c) : Order[FirstAhead(c)] <= Order[other]
  BY <1>3 DEF FirstAhead
<1>5. \A other \in Ahead(c) : Order[other] \in Nat
  BY <1>2, OrderAssumption
<1>6. \A a, b \in Ahead(c) : Order[a] = Order[b] => a = b
  BY <1>2, OrderAssumption
<1> QED BY <1>2, <1>4, <1>5, <1>6

(* A walk that keeps to its mount has one window.                          *)
LEMMA PageWindow ==
  ASSUME NEW c, c.mount = c.then
  PROVE  Window(c) = WalkWindow(c)
BY DEF Window, WalkWindow, MountOf

(* Where there is a second row, the window is pinned to none.              *)
LEMMA MoreThanOne ==
  ASSUME IInv, NEW c \in Calls, job[c].at = "inside", c.op \in Lists,
         NEW r \in Matching(c), NEW q \in Matching(c), r # q
  PROVE  /\ c.op # "list_keys" => job[c].key.inbox = None
         /\ c.op = "list_pods" => Window(c).pod = None
         /\ c.op = "list_inboxes" => Window(c).inbox = None
<1>1. /\ Inside(Window(c), job[c].scope) /\ OwnScope(c) /\ Placed(c) /\ Routed(c)
  BY LetIn
<1>2. job[c].key.inbox # None => job[c].scope.pod # None /\ job[c].scope.inbox # None
  BY <1>1 DEF OwnScope, Place
<1>3. CASE c.op = "list_pods"
  <2>1. Window(c).pod = None
    BY <1>3 DEF Matching, pods_list, Within1
  <2> QED BY <1>1, <1>2, <1>3, <2>1 DEF Inside
<1>4. CASE c.op = "list_inboxes"
  <2>1. Window(c).inbox = None
    BY <1>4 DEF Matching, inboxes_list, WindowAdmits, Within1, InboxPlace, Place
  <2> QED BY <1>1, <1>2, <1>4, <2>1 DEF Inside
<1> QED BY <1>3, <1>4 DEF Lists

(* A row of a page is in reach and under the mount.                        *)
LEMMA PageShown ==
  ASSUME IInv, NEW c \in Calls, job[c].at = "inside", c.op \in Lists, c \notin overtaken,
         NEW row \in Matching(c)
  PROVE  Inside(RowPlace(c, row), Reach(c)) /\ Under(MountOf(c), RowPlace(c, row))
<1>1. /\ CallInv(c) /\ Fits /\ OwnScope(c) /\ Placed(c) /\ Known(c) /\ TablesInv /\ Routed(c)
      /\ ~RuledOut(job[c].scope, MountOf(c)) /\ Inside(Window(c), job[c].scope)
  BY LetIn
<1>2. Stands(Window(c))
  BY <1>1 DEF CallInv, Undisturbed, OwnInbox, Lists
<1>3. CASE c.op = "list_keys"
  <2>1. row \in DOMAIN keys /\ InKeyScope(row, Window(c).org, KeyScopeFor(Window(c)))
    BY <1>3 DEF Matching, keys_list
  <2>2. WindowAdmits(Window(c), KeyPlace(row))
    BY <1>1, <1>2, <2>1, KeyShown
  <2>3. Reach(c) = job[c].scope /\ RowPlace(c, row) = KeyPlace(row)
    BY <1>3 DEF Reach, RowPlace
  <2> QED BY <1>1, <2>2, <2>3, ShownInReach
<1>4. CASE c.op = "list_pods"
  <2>1. pods[row].org = Window(c).org /\ Within1(Window(c).pod, row)
    BY <1>4 DEF Matching, pods_list
  <2>2. MountOf(c) = OrgMount
    BY <1>1, <1>4 DEF Routed, MountOf
  <2>3. RowPlace(c, row) = Place(Window(c).org, row, None)
    BY <1>4, <2>1 DEF RowPlace
  <2>4. Reach(c) = Place(job[c].scope.org, job[c].scope.pod, None)
    BY <1>1, <1>4 DEF Reach, OwnScope, Place
  <2> QED BY <1>1, <2>1, <2>2, <2>3, <2>4 DEF Inside, Within1, Under, OrgMount, Place
<1>5. CASE c.op = "list_inboxes"
  <2>1. WindowAdmits(Window(c), InboxPlace(row))
    BY <1>5 DEF Matching, inboxes_list
  <2>2. Reach(c) = job[c].scope /\ RowPlace(c, row) = InboxPlace(row)
    BY <1>5 DEF Reach, RowPlace
  <2> QED BY <1>1, <2>1, <2>2, ShownInReach
<1> QED BY <1>3, <1>4, <1>5 DEF Lists

(* A walk's own token passes, and its window is not pinned to one row.     *)
LEMMA OwnToken ==
  ASSUME NEW c, Walking(c), c.op \in Lists, c.mount = c.then
  PROVE  /\ ~WrongScope(c)
         /\ job[c].cursor # NoToken => ~degenerate_single_pod(c) /\ ~degenerate_single_inbox(c)
<1>1. Window(c) = WalkWindow(c)
  BY PageWindow
<1>2. CASE job[c].cursor = NoToken
  BY <1>2 DEF WrongScope
<1>3. CASE job[c].cursor # NoToken
  <2>1. /\ c.op = "list_keys" =>
             [pod |-> job[c].cursor.pod, inbox |-> job[c].cursor.inbox]
               = Coordinates(KeyScopeFor(Window(c)))
        /\ c.op = "list_pods" => Window(c).pod = None
        /\ c.op = "list_inboxes" => /\ Window(c).inbox = None
                                    /\ Within1(Window(c).pod, job[c].cursor.pod)
    BY <1>1, <1>3 DEF Walking
  <2>2. ~degenerate_single_pod(c) /\ ~degenerate_single_inbox(c)
    BY <2>1 DEF degenerate_single_pod, degenerate_single_inbox
  <2>3. c.op = "list_keys" => check_key_scope(job[c].cursor, Coordinates(KeyScopeFor(Window(c))))
    <3> DEFINE pinned == Coordinates(KeyScopeFor(Window(c)))
    <3> SUFFICES ASSUME c.op = "list_keys"
                 PROVE  job[c].cursor.pod = pinned.pod /\ job[c].cursor.inbox = pinned.inbox
      BY DEF check_key_scope
    <3>1. [pod |-> job[c].cursor.pod, inbox |-> job[c].cursor.inbox] = pinned
      BY <2>1
    <3> HIDE DEF pinned
    <3> QED BY <3>1
  <2> QED BY <2>1, <2>2, <2>3 DEF WrongScope, check_pod_scope
<1> QED BY <1>2, <1>3

(* The three ends of a page.                                               *)
Page(c, row, more) ==
  job' = [job EXCEPT
    ![c].at = IF more THEN "start" ELSE "done",
    ![c].answer = IF more THEN "none" ELSE "ok",
    ![c].rows = @ \cup {Seen(c, row, RowPlace(c, row))},
    ![c].cursor = IF more THEN TokenOf(c, row) ELSE @]

(* A page is refused, empty, or shows the first row ahead.                 *)
LEMMA ListCases ==
  ASSUME NEW c, list(c)
  PROVE  /\ job[c].at = "inside" /\ c.op \in Lists /\ UNCHANGED tables
         /\ \/ WrongScope(c) /\ Answer(c, "bad_token")
            \/ Ahead(c) = {} /\ Answer(c, "ok")
            \/ /\ Ahead(c) # {}
               /\ Page(c, FirstAhead(c), Ahead(c) \ {FirstAhead(c)} # {})
<1> DEFINE row == FirstAhead(c)
           more == Ahead(c) \ {row} # {}
<1>1. /\ job[c].at = "inside" /\ c.op \in Lists /\ UNCHANGED tables
      /\ CASE WrongScope(c) -> Answer(c, "bad_token")
           [] ~WrongScope(c) /\ Ahead(c) = {} -> Answer(c, "ok")
           [] OTHER -> Page(c, row, more)
  BY Zenon DEF list, Ahead, FirstAhead, Page
<1> HIDE DEF row, more
<1>2. \/ WrongScope(c) /\ Answer(c, "bad_token")
      \/ Ahead(c) = {} /\ Answer(c, "ok")
      \/ Ahead(c) # {} /\ Page(c, row, more)
  <2>1. CASE WrongScope(c)
    BY <1>1, <2>1
  <2>2. CASE ~WrongScope(c) /\ Ahead(c) = {}
    BY <1>1, <2>2
  <2>3. CASE ~WrongScope(c) /\ Ahead(c) # {}
    BY <1>1, <2>3
  <2> QED BY <2>1, <2>2, <2>3
<1> QED BY <1>1, <1>2, Zenon DEF row, more

(* No row that a walk must not lose is left out when nothing lies ahead,   *)
(* or one row that is shown now.                                           *)
LEMMA NothingLost ==
  ASSUME NEW c, Walking(c), job[c].at = "inside", c.op \in Lists, c.mount = c.then,
         NEW row \in steady[c]
  PROVE  row \in Ahead(c) \/ \E seen \in job[c].rows : seen.id = row
<1>1. job[c].cursor # NoToken
  BY DEF Walking
<1>2. ~degenerate_single_pod(c) /\ ~degenerate_single_inbox(c)
  BY <1>1, OwnToken
<1>3. \/ \E seen \in job[c].rows : seen.id = row
      \/ row \in Matching(c) /\ Order[job[c].cursor.after] < Order[row]
  BY <1>1 DEF Walking
<1> QED BY <1>1, <1>2, <1>3 DEF Ahead

(* What a page sets, and what it leaves.                                   *)
LEMMA Paged ==
  ASSUME NEW c \in Calls, Shape(c), job[c].at = "inside", c.op \in Lists, NEW row, NEW more \in BOOLEAN,
         row # None, Page(c, row, more)
  PROVE  /\ Moves(c) /\ SameWho(c) /\ Shape(c)'
         /\ job'[c].at = (IF more THEN "start" ELSE "done")
         /\ job'[c].answer = (IF more THEN "none" ELSE "ok")
         /\ job'[c].rows = job[c].rows \cup {[id |-> row, place |-> RowPlace(c, row), mount |-> MountOf(c)]}
         /\ job'[c].cursor = (IF more THEN TokenOf(c, row) ELSE job[c].cursor)
         /\ TokenOf(c, row) # NoToken /\ TokenOf(c, row).after = row
<1> DEFINE place == RowPlace(c, row)
           token == TokenOf(c, row)
           rows == job[c].rows \cup {Seen(c, row, place)}
<1>1. DOMAIN job' = DOMAIN job /\ \A d \in Calls : d # c => job'[d] = job[d]
  BY DEF Page, Calls
<1>2. token # NoToken /\ token.after = row
  BY DEF TokenOf, NoToken
<1> HIDE DEF place, token
<1>3. job' = [job EXCEPT ![c].at = IF more THEN "start" ELSE "done",
                         ![c].answer = IF more THEN "none" ELSE "ok",
                         ![c].rows = rows,
                         ![c].cursor = IF more THEN token ELSE @]
  BY DEF Page, place, token
<1> HIDE DEF rows
<1>4. job'[c] = [at |-> IF more THEN "start" ELSE "done", key |-> job[c].key,
                 scope |-> job[c].scope, saw |-> job[c].saw,
                 answer |-> IF more THEN "none" ELSE "ok", row |-> job[c].row,
                 rows |-> rows, cursor |-> IF more THEN token ELSE job[c].cursor,
                 tries |-> job[c].tries]
  BY <1>3 DEF Calls, Shape
<1>5. /\ job'[c].at = (IF more THEN "start" ELSE "done")
      /\ job'[c].answer = (IF more THEN "none" ELSE "ok") /\ job'[c].rows = rows
      /\ job'[c].cursor = (IF more THEN token ELSE job[c].cursor)
      /\ SameWho(c) /\ job'[c].tries = job[c].tries
  BY <1>4 DEF SameWho
<1>6. Shape(c)'
  <2>1. Known(c)' = Known(c) /\ Placed(c)' = Placed(c)
    BY <1>5 DEF SameWho, Known, Placed
  <2>2. Placed(c) /\ Known(c) /\ job[c].tries \in 0..MINT_ATTEMPTS - 1
    BY DEF Shape
  <2>3. job'[c] = [at |-> job'[c].at, key |-> job'[c].key, scope |-> job'[c].scope,
               saw |-> job'[c].saw, answer |-> job'[c].answer, row |-> job'[c].row,
               rows |-> job'[c].rows, cursor |-> job'[c].cursor, tries |-> job'[c].tries]
    BY <1>4
  <2> QED BY <1>2, <1>5, <2>1, <2>2, <2>3 DEF Shape
<1>7. Moves(c)
  BY <1>1 DEF Moves, Calls
<1> QED BY <1>2, <1>5, <1>6, <1>7 DEF rows, place, token, Seen

(* The rows a walk must not lose: those of its first page, less any gone.  *)
LEMMA SteadyPaged ==
  ASSUME Observe, NEW c \in Calls, c.op \in Lists
  PROVE  IF job[c].cursor = NoToken /\ job'[c].cursor # NoToken
         THEN steady'[c] = Matching(c) ELSE steady'[c] \subseteq steady[c]
<1>1. steady'[c] = IF c.op \in Lists /\ job[c].cursor = NoToken /\ job'[c].cursor # NoToken
                   THEN Matching(c)
                   ELSE steady[c] \ {row[1] : row \in Left}
  BY DEF Observe
<1> QED BY <1>1

(* The page's walk goes on behind its last row.                            *)
LEMMA WalkGoesOn ==
  ASSUME IInv, NEW c \in Calls, job[c].at = "inside", c.op \in Lists, UNCHANGED tables, Observe,
         c.mount = c.then, Ahead(c) # {}, Ahead(c) \ {FirstAhead(c)} # {},
         Page(c, FirstAhead(c), TRUE)
  PROVE  Walking(c)'
<1> DEFINE row == FirstAhead(c)
           token == TokenOf(c, row)
           w == Window(c)
<1>1. /\ CallInv(c) /\ Shape(c) /\ Walking(c) /\ TablesInv /\ Rows /\ OwnScope(c) /\ Placed(c) /\ Fits
      /\ ~RuledOut(job[c].scope, MountOf(c)) /\ Inside(w, job[c].scope)
  BY LetIn DEF CallInv, TablesInv
<1>2. /\ row \in Ahead(c) /\ row \in Ids \cup Addresses \cup Secrets
      /\ \A other \in Ahead(c) : other # row => Order[row] < Order[other]
  BY <1>1, FirstOfPage
<1>3. row # None
  BY <1>2, NoneApart
<1>4. /\ SameWho(c) /\ job'[c].at = "start" /\ job'[c].answer = "none"
      /\ job'[c].rows = job[c].rows \cup {[id |-> row, place |-> RowPlace(c, row), mount |-> MountOf(c)]}
      /\ job'[c].cursor = token /\ token # NoToken /\ token.after = row
  BY <1>1, <1>3, Paged
<1>5. PICK q \in Ahead(c) : q # row
  OBVIOUS
<1>6. row \in Matching(c) /\ q \in Matching(c)
  BY <1>2, <1>5 DEF Ahead
<1>7. /\ c.op # "list_keys" => job[c].key.inbox = None
      /\ c.op = "list_pods" => w.pod = None
      /\ c.op = "list_inboxes" => w.inbox = None
  BY <1>5, <1>6, MoreThanOne
<1>8. w = WalkWindow(c) /\ WalkWindow(c)' = WalkWindow(c) /\ Window(c)' = w
  BY <1>4, PageWindow DEF WalkWindow, Window, MountOf, SameWho
<1>9. c.op = "list_keys" =>
        /\ [pod |-> token.pod, inbox |-> token.inbox] = Coordinates(KeyScopeFor(w))
        /\ job[c].key.inbox # None => w.inbox = job[c].key.inbox
  <2> SUFFICES ASSUME c.op = "list_keys"
               PROVE  /\ [pod |-> token.pod, inbox |-> token.inbox] = Coordinates(KeyScopeFor(w))
                      /\ job[c].key.inbox # None => w.inbox = job[c].key.inbox
    OBVIOUS
  <2>1. job[c].scope.inbox = job[c].key.inbox
    BY <1>1 DEF OwnScope, Place
  <2>2. job[c].key.inbox # None => w.inbox = job[c].key.inbox
    BY <1>1, <2>1 DEF Inside
  <2>3. token = [after |-> row, pod |-> Coordinates(KeyScopeFor(w)).pod,
                 inbox |-> Coordinates(KeyScopeFor(w)).inbox]
    BY DEF TokenOf
  <2>4. Coordinates(KeyScopeFor(w)) = [pod |-> Coordinates(KeyScopeFor(w)).pod,
                                       inbox |-> Coordinates(KeyScopeFor(w)).inbox]
    BY DEF Coordinates
  <2> HIDE DEF token, row, w
  <2>5. token.pod = Coordinates(KeyScopeFor(w)).pod /\ token.inbox = Coordinates(KeyScopeFor(w)).inbox
    BY <2>3
  <2> QED BY <2>2, <2>4, <2>5
<1>10. c.op = "list_inboxes" => Within1(w.pod, token.pod)
  <2> SUFFICES ASSUME c.op = "list_inboxes"
               PROVE  Within1(w.pod, token.pod)
    OBVIOUS
  <2>1. WindowAdmits(w, InboxPlace(row))
    BY <1>6 DEF Matching, inboxes_list
  <2>2. token.pod = InboxPlace(row).pod
    BY DEF TokenOf, RowPlace
  <2> QED BY <2>1, <2>2 DEF WindowAdmits
<1>11. Matching(c)' = Matching(c)
  <2>1. pods' = pods /\ inboxes' = inboxes /\ keys' = keys
    BY DEF tables
  <2> QED BY <1>8, <2>1 DEF Matching, keys_list, pods_list, inboxes_list, InKeyScope, InboxPlace
<1>12. ASSUME NEW r \in steady'[c]
       PROVE  \/ \E seen \in job'[c].rows : seen.id = r
              \/ r \in Matching(c) /\ Order[row] < Order[r]
  <2>1. r \in Ahead(c) \/ \E seen \in job[c].rows : seen.id = r
    <3>1. CASE job[c].cursor = NoToken
      <4>1. steady'[c] = Matching(c)
        BY <1>4, <3>1, SteadyPaged
      <4> QED BY <1>12, <3>1, <4>1 DEF Ahead
    <3>2. CASE job[c].cursor # NoToken
      <4>1. r \in steady[c]
        BY <1>12, <3>2, SteadyPaged
      <4> QED BY <1>1, <4>1, NothingLost
    <3> QED BY <3>1, <3>2
  <2>2. CASE r = row
    <3>1. [id |-> row, place |-> RowPlace(c, row), mount |-> MountOf(c)].id = row
      OBVIOUS
    <3> QED BY <1>4, <2>2, <3>1
  <2>3. CASE r # row /\ r \in Ahead(c)
    BY <1>2, <2>3 DEF Ahead
  <2>4. CASE \E seen \in job[c].rows : seen.id = r
    BY <1>4, <2>4
  <2> QED BY <2>1, <2>2, <2>3, <2>4
<1> HIDE DEF row, token, w
<1>13. job'[c].key = job[c].key
  BY <1>4 DEF SameWho
<1> QED
  BY <1>2, <1>4, <1>7, <1>8, <1>9, <1>10, <1>11, <1>12, <1>13
  DEF Walking, Done, KeyScopeFor, Coordinates

(* The walk ends with this page.                                           *)
LEMMA WalkEnds ==
  ASSUME IInv, NEW c \in Calls, job[c].at = "inside", c.op \in Lists, Frame,
         SameWho(c), job'[c].at = "done", job'[c].answer = "ok", job'[c].cursor = job[c].cursor,
         job[c].rows \subseteq job'[c].rows,
         \A row \in Ahead(c) : \E seen \in job'[c].rows : seen.id = row
  PROVE  Walking(c)'
<1> SUFFICES ASSUME c.mount = c.then
             PROVE  Walking(c)'
  BY DEF Walking
<1>1. Walking(c)
  BY DEF IInv, CallInv
<1>2. steady'[c] \subseteq steady[c]
  BY DEF Frame
<1>3. WalkWindow(c)' = WalkWindow(c) /\ job'[c].key = job[c].key
  BY DEF WalkWindow, SameWho
<1>4. ASSUME NEW row \in steady'[c]
      PROVE  \E seen \in job'[c].rows : seen.id = row
  <2>1. row \in Ahead(c) \/ \E seen \in job[c].rows : seen.id = row
    BY <1>1, <1>2, <1>4, NothingLost
  <2> QED BY <2>1
<1> QED BY <1>1, <1>2, <1>3, <1>4 DEF Walking, Done, KeyScopeFor, Coordinates

(* One page of a walk.                                                     *)
LEMMA Listed ==
  ASSUME IInv, NEW c \in Calls, list(c), Observe
  PROVE  IInv'
<1>1. /\ job[c].at = "inside" /\ c.op \in Lists /\ UNCHANGED tables
      /\ \/ WrongScope(c) /\ Answer(c, "bad_token")
         \/ Ahead(c) = {} /\ Answer(c, "ok")
         \/ /\ Ahead(c) # {}
            /\ Page(c, FirstAhead(c), Ahead(c) \ {FirstAhead(c)} # {})
  BY ListCases
<1>2. /\ CallInv(c) /\ Shape(c) /\ Walking(c) /\ TablesInv /\ Rows /\ c.op # "init" /\ Known(c)
  BY <1>1, LetIn DEF CallInv, TablesInv
<1>3. c.op \notin {"create_pod", "create_inbox"}
  BY <1>1 DEF Lists
<1>4. CASE WrongScope(c) /\ Answer(c, "bad_token")
  <2>1. job'[c].answer = "bad_token"
    BY <1>1, <1>2, <1>4, Answered
  <2>2. Created(c)' /\ Explained(c)'
    BY <1>3, <2>1 DEF Created, Explained
  <2>3. c.mount # c.then
    BY <1>1, <1>2, <1>4, OwnToken
  <2>4. Walking(c)'
    BY <2>3 DEF Walking
  <2> QED BY <1>1, <1>4, <2>2, <2>4, AnswerStep
<1>5. CASE Ahead(c) = {} /\ Answer(c, "ok")
  <2>1. /\ SameWho(c) /\ job'[c].at = "done" /\ job'[c].answer = "ok"
        /\ job'[c].rows = job[c].rows /\ job'[c].cursor = job[c].cursor
    BY <1>1, <1>2, <1>5, Answered
  <2>2. Created(c)' /\ Explained(c)'
    BY <1>3, <2>1 DEF Created, Explained
  <2>3. Frame => Walking(c)'
    BY <1>1, <1>5, <2>1, WalkEnds
  <2> QED BY <1>1, <1>5, <2>2, <2>3, AnswerStep
<1>6. CASE Ahead(c) # {} /\ Page(c, FirstAhead(c), Ahead(c) \ {FirstAhead(c)} # {})
  <2> DEFINE row == FirstAhead(c)
             more == Ahead(c) \ {row} # {}
             shown == [id |-> row, place |-> RowPlace(c, row), mount |-> MountOf(c)]
  <2>1. row \in Ahead(c) /\ row \in Matching(c) /\ row # None
    <3>1. row \in Ahead(c) /\ row \in Ids \cup Addresses \cup Secrets
      BY <1>1, <1>2, <1>6, FirstOfPage
    <3> QED BY <3>1, NoneApart DEF Ahead
  <2>2. more \in BOOLEAN /\ Page(c, row, more)
    BY <1>6
  <2> HIDE DEF row, more
  <2>3. /\ Moves(c) /\ SameWho(c) /\ Shape(c)'
        /\ job'[c].at = (IF more THEN "start" ELSE "done")
        /\ job'[c].answer = (IF more THEN "none" ELSE "ok")
        /\ job'[c].rows = job[c].rows \cup {shown}
        /\ job'[c].cursor = (IF more THEN TokenOf(c, row) ELSE job[c].cursor)
    BY <1>1, <1>2, <2>1, <2>2, Paged
  <2>4. /\ Frame
        /\ CallInv(c)' => IInv'
    BY <1>1, <1>2, <2>3, QuietStep DEF SameWho
  <2>5. InReach(c)'
    <3> SUFFICES ASSUME c \notin overtaken', NEW seen \in job'[c].rows
                 PROVE  Inside(seen.place, Reach(c)') /\ Under(seen.mount, seen.place)
      BY DEF InReach
    <3>1. c \notin overtaken
      BY <2>4 DEF Frame
    <3>2. Reach(c)' = Reach(c)
      BY <2>3 DEF Reach, SameWho
    <3>3. CASE seen \in job[c].rows
      BY <1>2, <3>1, <3>2, <3>3 DEF CallInv, InReach
    <3>4. CASE seen = shown
      <4>1. Inside(RowPlace(c, row), Reach(c)) /\ Under(MountOf(c), RowPlace(c, row))
        BY <1>1, <2>1, <3>1, PageShown
      <4>2. seen.place = RowPlace(c, row) /\ seen.mount = MountOf(c)
        BY <3>4
      <4> QED BY <3>2, <4>1, <4>2
    <3> QED BY <2>3, <3>3, <3>4
  <2>6. Created(c)'
    BY <1>3 DEF Created
  <2>7. Explained(c)'
    BY <2>3 DEF Explained
  <2>8. CASE more
    <3>1. Walking(c)'
      <4> SUFFICES ASSUME c.mount = c.then
                   PROVE  Walking(c)'
        BY DEF Walking
      <4>1. Page(c, FirstAhead(c), TRUE)
        BY <2>2, <2>8 DEF row
      <4>2. Ahead(c) \ {FirstAhead(c)} # {}
        BY <2>8 DEF row, more
      <4> QED BY <1>1, <1>6, <4>1, <4>2, WalkGoesOn
    <3>2. OwnKey(c)' /\ OwnScope(c)' /\ Born(c)'
      BY <1>2, <2>3, <2>4, OwnKeyKept, OwnScopeKept, BornKept DEF CallInv, SameWho
    <3>3. Admitted(c)'
      BY <2>3, <2>8 DEF Admitted
    <3>4. Undisturbed(c)'
      <4> SUFFICES ASSUME c \notin overtaken'
                   PROVE  Undisturbed(c)'
        BY DEF Undisturbed
      <4>1. /\ c.secret \in DOMAIN keys'
            /\ Placed(c)' /\ job'[c].key.inbox # None =>
                 InboxPlace(job[c].key.inbox)' = job'[c].scope
        BY <1>1, <1>2, <2>3, <2>4, StillUndisturbed
      <4>2. job'[c].at = "start" /\ job'[c].key = job[c].key
        BY <2>3, <2>8 DEF SameWho
      <4> QED BY <4>1, <4>2 DEF Undisturbed
    <3> QED BY <2>3, <2>4, <2>5, <2>6, <2>7, <3>1, <3>2, <3>3, <3>4 DEF CallInv
  <2>9. CASE ~more
    <3>1. Walking(c)'
      <4>1. \A r \in Ahead(c) : \E seen \in job'[c].rows : seen.id = r
        <5>1. \A r \in Ahead(c) : r = row
          BY <2>9 DEF more
        <5>2. shown \in job'[c].rows /\ shown.id = row
          BY <2>3
        <5> QED BY <5>1, <5>2
      <4> HIDE DEF shown
      <4> QED BY <1>1, <2>3, <2>4, <2>9, <4>1, WalkEnds
    <3> QED BY <1>2, <2>3, <2>4, <2>5, <2>6, <2>7, <2>9, <3>1, Ended
  <2> QED BY <2>8, <2>9
<1> QED BY <1>1, <1>4, <1>5, <1>6

(***************************************************************************)
(* amk init.                                                               *)
(***************************************************************************)
LEMMA InitCall ==
  ASSUME IInv, NEW c \in Calls, c.op = "init"
  PROVE  /\ CallInv(c) /\ Shape(c) /\ ~Known(c) /\ Fits /\ TablesInv
         /\ Made(c) = {c.id} /\ c.id \in Ids /\ c.op \notin Lists
         /\ MountOf(c) = c.mount
<1>1. CallInv(c) /\ Shape(c) /\ Fits /\ TablesInv
  BY DEF IInv, CallInv
<1>2. ~Known(c)
  BY <1>1 DEF CallInv, OwnKey
<1>3. Made(c) = {c.id} /\ c.op \notin Lists
  BY DEF Made, Lists
<1>4. c.id \in Ids
  BY <1>1, <1>3, CallsFit
<1> QED BY <1>1, <1>2, <1>3, <1>4 DEF Shape, MountOf

(* Of a run of amk init, whatever it does, little can be wrong.            *)
LEMMA InitMoves ==
  ASSUME IInv, NEW c \in Calls, c.op = "init", Frame, Shape(c)',
         job'[c].key = job[c].key, job'[c].scope = job[c].scope, job'[c].rows = job[c].rows,
         job'[c].at \in {"organization", "default_pod", "root_key"}
  PROVE  CallInv(c)'
<1>1. CallInv(c) /\ ~Known(c) /\ c.op \notin Lists
  BY InitCall
<1>2. OwnKey(c)' /\ OwnScope(c)' /\ InReach(c)'
  BY <1>1, OwnKeyKept, OwnScopeKept, InReachKept DEF CallInv
<1>3. Admitted(c)' /\ Undisturbed(c)' /\ Born(c)'
  BY <1>1 DEF Admitted, Undisturbed, Born, Known
<1>4. Created(c)' /\ Explained(c)' /\ Walking(c)'
  BY <1>1 DEF Created, Explained, Walking, Ok, Done
<1> QED BY <1>2, <1>3, <1>4 DEF CallInv

(* The check of amk init: whoever passes it has seen all that are made.    *)
LEMMA OrganizationsExists ==
  ASSUME IInv, NEW c \in Calls, organizations_exists(c), Observe
  PROVE  IInv'
<1>1. /\ job[c].at = "start" /\ c.op = "init" /\ UNCHANGED tables
      /\ IF orgs # {} THEN Answer(c, "already")
         ELSE job' = [job EXCEPT ![c].at = "organization", ![c].saw = Initializing]
  BY DEF organizations_exists
<1>2. CallInv(c) /\ Shape(c) /\ TablesInv /\ Fits
  BY <1>1, InitCall
<1>3. CASE orgs # {}
  BY <1>1, <1>3, Refused
<1>4. CASE orgs = {}
  <2>1. job'[c] = [at |-> "organization", key |-> job[c].key, scope |-> job[c].scope,
                   saw |-> Initializing, answer |-> job[c].answer, row |-> job[c].row,
                   rows |-> job[c].rows, cursor |-> job[c].cursor, tries |-> job[c].tries]
    BY <1>1, <1>2, <1>4 DEF Shape, Calls
  <2>2. Moves(c)
    BY <1>1, <1>4 DEF Moves, Calls
  <2>3. /\ job'[c].at = "organization" /\ job'[c].key = job[c].key /\ job'[c].scope = job[c].scope
        /\ job'[c].rows = job[c].rows /\ job'[c].saw = Initializing
        /\ job'[c].cursor = job[c].cursor /\ job'[c].tries = job[c].tries
        /\ job'[c].answer = job[c].answer
    BY <2>1
  <2>4. Frame /\ TablesInv'
    BY <1>1, <1>2, <2>2, TablesUntouched DEF Moves
  <2>5. Unused'
    <3>1. Making(c)' => Making(c)
      BY <1>1 DEF Making
    <3>2. \A p \in DOMAIN pods' \ DOMAIN pods : p \in Made(c) /\ ~Making(c)'
      BY <1>1 DEF tables
    <3>3. \A s \in DOMAIN keys' : s \in DOMAIN keys /\ keys'[s] = keys[s]
      BY <1>1 DEF tables
    <3>4. \A s \in DOMAIN ancestry' : s \in DOMAIN ancestry
      BY <3>3, NothingMinted
    <3> QED BY <1>2, <2>2, <2>3, <3>1, <3>2, <3>3, <3>4, UnusedKept DEF IInv
  <2>6. Makers'
    BY <1>1, <2>2, <2>4, MakersKept DEF IInv, tables
  <2>7. InitsInv'
    <3>1. orgs' = {}
      BY <1>1, <1>4 DEF tables
    <3>2. \A d \in Calls : Checked(d)' => d = c \/ d \in Initializing
      BY <2>2, <3>1 DEF Checked, Initializing, Moves
    <3>3. \A d, e \in Calls : d # e /\ Checked(d)' /\ Checked(e)' =>
            d \in job'[e].saw \/ e \in job'[d].saw
      <4> SUFFICES ASSUME NEW d \in Calls, NEW e \in Calls, d # e, Checked(d)', Checked(e)'
                   PROVE  d \in job'[e].saw \/ e \in job'[d].saw
        OBVIOUS
      <4>1. CASE d = c
        BY <2>3, <3>2, <4>1
      <4>2. CASE e = c
        BY <2>3, <3>2, <4>2
      <4>3. CASE d # c /\ e # c
        <5>1. Checked(d) /\ Checked(e) /\ job'[d] = job[d] /\ job'[e] = job[e]
          BY <2>2, <3>1, <4>3 DEF Checked, Moves
        <5> QED BY <5>1 DEF IInv, InitsInv
      <4> QED BY <4>1, <4>2, <4>3
    <3>4. \A d \in Calls : job'[d].at \in {"default_pod", "root_key"} =>
            job[d].at \in {"default_pod", "root_key"}
      BY <2>2, <2>3 DEF Moves
    <3>5. \A d \in Calls : job[d].at \notin {"default_pod", "root_key"}
      BY <1>4 DEF IInv, InitsInv
    <3> QED BY <2>2, <3>1, <3>3, <3>4, <3>5 DEF InitsInv, Moves
  <2>8. Shape(c)'
    <3>1. Known(c)' = Known(c) /\ Placed(c)' = Placed(c)
      BY <2>3 DEF Known, Placed
    <3>2. /\ job[c].tries \in 0..MINT_ATTEMPTS - 1
          /\ c.op \notin Lists => job[c].cursor = NoToken
          /\ job[c].cursor # NoToken => Placed(c)
          /\ job[c].cursor = NoToken => job[c].rows = {}
      BY <1>1, <1>2 DEF Shape
    <3>3. job'[c] = [at |-> job'[c].at, key |-> job'[c].key, scope |-> job'[c].scope,
               saw |-> job'[c].saw, answer |-> job'[c].answer, row |-> job'[c].row,
               rows |-> job'[c].rows, cursor |-> job'[c].cursor, tries |-> job'[c].tries]
      <4> HIDE DEF Initializing
      <4> QED BY <2>1
    <3> QED BY <1>1, <2>3, <3>1, <3>2, <3>3 DEF Shape
  <2>9. CallInv(c)'
    BY <1>1, <2>3, <2>4, <2>8, InitMoves
  <2> QED BY <2>2, <2>4, <2>5, <2>6, <2>7, <2>9, StepInv
<1> QED BY <1>3, <1>4

(* Its organization.                                                       *)
LEMMA OrganizationMade ==
  ASSUME IInv, NEW c \in Calls, job[c].at = "organization", Go(c, "default_pod"),
         orgs' = orgs \cup {c.id}, UNCHANGED <<pods, inboxes, keys>>, Observe
  PROVE  IInv'
<1>1. c.op = "init"
  BY DEF IInv, CallInv, Shape
<1>2. CallInv(c) /\ Shape(c) /\ TablesInv /\ Fits /\ c.id \in Ids /\ Made(c) = {c.id}
  BY <1>1, InitCall
<1>3. Moves(c) /\ SameWork(c) /\ Shape(c)' /\ job'[c].at = "default_pod"
  BY <1>1, <1>2, Goes
<1>4. job'[c].key = job[c].key /\ job'[c].scope = job[c].scope /\ job'[c].rows = job[c].rows
      /\ job'[c].saw = job[c].saw
  BY <1>3 DEF SameWork, SameWho
<1>5. Frame /\ TablesInv'
  BY <1>2, <1>3, OrgComes DEF Moves
<1>6. Unused'
  <2>1. Making(c)' => Making(c)
    BY <1>1 DEF Making
  <2>2. \A p \in DOMAIN pods' \ DOMAIN pods : p \in Made(c) /\ ~Making(c)'
    OBVIOUS
  <2>3. \A s \in DOMAIN keys' : s \in DOMAIN keys /\ keys'[s] = keys[s]
    OBVIOUS
  <2>4. \A s \in DOMAIN ancestry' : s \in DOMAIN ancestry
    BY NothingMinted
  <2> QED BY <1>2, <1>3, <1>4, <2>1, <2>2, <2>3, <2>4, UnusedKept DEF IInv
<1>7. Makers'
  BY <1>3, <1>5, MakersKept DEF IInv
<1>8. InitsInv'
  <2>1. \A d \in Calls : d.op = "init" /\ d # c => d.id # c.id
    <3> SUFFICES ASSUME NEW d \in Calls, d.op = "init", d # c
                 PROVE  d.id # c.id
      OBVIOUS
    <3>1. Made(d) = {d.id}
      BY InitCall
    <3>2. Made(c) \cap Made(d) = {}
      BY <1>2, CallsFit
    <3> QED BY <1>2, <3>1, <3>2
  <2>2. \A d \in Calls : Checked(d)' => Checked(d)
    BY <1>1, <1>3, <2>1 DEF Checked, Moves
  <2>3. \A d \in Calls : job'[d].saw = job[d].saw
    BY <1>3, <1>4 DEF Moves
  <2>4. \A d, e \in Calls : d # e /\ Checked(d)' /\ Checked(e)' =>
          d \in job'[e].saw \/ e \in job'[d].saw
    BY <2>2, <2>3 DEF IInv, InitsInv
  <2>5. \A d \in Calls : d.op = "init" /\ d.id \in orgs' =>
          job'[d].at \in {"default_pod", "root_key", "done"}
    BY <1>3, <2>1 DEF IInv, InitsInv, Moves
  <2>6. \A d \in Calls : job'[d].at \in {"default_pod", "root_key"} => d.id \in orgs'
    BY <1>3 DEF IInv, InitsInv, Moves
  <2> QED BY <1>3, <2>4, <2>5, <2>6 DEF InitsInv, Moves
<1>9. CallInv(c)'
  BY <1>1, <1>3, <1>4, <1>5, InitMoves
<1> QED BY <1>3, <1>5, <1>6, <1>7, <1>8, <1>9, StepInv

(* Its default pod.                                                        *)
LEMMA DefaultPodMade ==
  ASSUME IInv, NEW c \in Calls, job[c].at = "default_pod", Go(c, "root_key"),
         pods' = Put(pods, c.id, [org |-> c.id, client |-> None]),
         UNCHANGED <<orgs, inboxes, keys>>, Observe
  PROVE  IInv'
<1> DEFINE row == [org |-> c.id, client |-> None]
<1>1. c.op = "init"
  BY DEF IInv, CallInv, Shape
<1>2. CallInv(c) /\ Shape(c) /\ TablesInv /\ Fits /\ c.id \in Ids /\ Made(c) = {c.id}
  BY <1>1, InitCall
<1>3. Moves(c) /\ SameWork(c) /\ Shape(c)' /\ job'[c].at = "root_key"
  BY <1>1, <1>2, Goes
<1>4. job'[c].key = job[c].key /\ job'[c].scope = job[c].scope /\ job'[c].rows = job[c].rows
      /\ job'[c].saw = job[c].saw
  BY <1>3 DEF SameWork, SameWho
<1>5. c.id \notin DOMAIN pods /\ \A d \in Calls : job[d].key.org # c.id
  BY <1>1 DEF IInv, Unused, Making
<1>6. c.id \in orgs
  BY DEF IInv, InitsInv
<1>7. row.org = c.id /\ row.client = None /\ pods' = Put(pods, c.id, row)
  OBVIOUS
<1> HIDE DEF row
<1>8. Replayed(pods, row.org, row.client) = {}
  BY <1>7 DEF Replayed
<1>9. Frame /\ TablesInv'
  BY <1>2, <1>3, <1>5, <1>6, <1>7, <1>8, PodComes DEF Moves
<1>10. DOMAIN pods' = DOMAIN pods \cup {c.id}
  BY <1>7 DEF Put
<1>11. Unused'
  <2>1. ~Making(c)'
    BY <1>1, <1>3 DEF Making
  <2>2. \A p \in DOMAIN pods' \ DOMAIN pods : p \in Made(c) /\ ~Making(c)'
    BY <1>2, <1>10, <2>1
  <2>3. \A s \in DOMAIN keys' : s \in DOMAIN keys /\ keys'[s] = keys[s]
    OBVIOUS
  <2>4. \A s \in DOMAIN ancestry' : s \in DOMAIN ancestry
    BY NothingMinted
  <2> QED BY <1>2, <1>3, <1>4, <2>1, <2>2, <2>3, <2>4, UnusedKept DEF IInv
<1>12. Makers'
  BY <1>3, <1>9, MakersKept DEF IInv
<1>13. InitsInv'
  BY <1>3, <1>4, <1>6, InitsKept DEF IInv
<1>14. CallInv(c)'
  BY <1>1, <1>3, <1>4, <1>9, InitMoves
<1> QED BY <1>3, <1>9, <1>11, <1>12, <1>13, <1>14, StepInv

(* Its root key, which descends from none.                                 *)
LEMMA RootKeyMade ==
  ASSUME IInv, NEW c \in Calls, job[c].at = "root_key",
         Mint(c, c.draws[job[c].tries + 1]), UNCHANGED <<orgs, pods, inboxes>>, Observe
  PROVE  IInv'
<1> DEFINE key == NewKey(c)
           secret == c.draws[job[c].tries + 1]
<1>1. c.op = "init"
  BY DEF IInv, CallInv, Shape
<1>2. CallInv(c) /\ Shape(c) /\ TablesInv /\ Fits /\ Made(c) = {c.id} /\ c.op \notin Lists
  BY <1>1, InitCall
<1>3. key.org = c.id /\ key.pod = None /\ key.inbox = None /\ key.grants = Unrestricted
  BY <1>1 DEF NewKey
<1>4. OneScope(key) /\ Anchored(key) /\ key.grants \in Grants /\ c.id \in orgs
  BY <1>3 DEF OneScope, Anchored, Grants, IInv, InitsInv
<1> HIDE DEF key
<1>5. Drawing(c) /\ secret \in Drawn(c)
  <2>1. job[c].tries + 1 \in 1..MINT_ATTEMPTS
    BY <1>2, MintAssumption DEF Shape
  <2> QED BY <1>1, <2>1 DEF Drawing, Drawn
<1>6. secret \in Secrets /\ secret \notin DOMAIN ancestry
  BY <1>2, <1>5, CallsFit DEF IInv, Unused
<1> HIDE DEF secret
<1>7. \/ DrawAgain(c) /\ job' = [job EXCEPT ![c].tries = @ + 1] /\ UNCHANGED keys
      \/ keys' = Put(keys, secret, key) /\ AnswerRow(c, <<secret, None>>)
      \/ ~DrawAgain(c) /\ Answer(c, "internal") /\ UNCHANGED keys
  BY <1>4 DEF Mint, key, secret
<1>8. CASE DrawAgain(c) /\ job' = [job EXCEPT ![c].tries = @ + 1] /\ UNCHANGED keys
  BY <1>5, <1>8, DrawsAgain DEF tables
<1>9. CASE keys' = Put(keys, secret, key) /\ AnswerRow(c, <<secret, None>>)
  <2>1. Moves(c) /\ SameWho(c) /\ job'[c].at = "done"
    BY <1>2, <1>9, AnsweredRow
  <2>2. job'[c] # job[c] /\ \A d \in Calls : d # c => job'[d] = job[d]
    BY <2>1 DEF Moves
  <2>3. Lineage(c) = {}
    BY <1>1 DEF Lineage
  <2>4. Frame /\ TablesInv'
    BY <1>2, <1>3, <1>4, <1>6, <1>9, <2>1, <2>2, <2>3, KeyComes DEF Moves
  <2>5. secret \notin DOMAIN keys
    BY <1>2, <1>6 DEF TablesInv, Rows
  <2>6. /\ DOMAIN keys' = DOMAIN keys \cup {secret} /\ keys'[secret] = key
        /\ \A s \in DOMAIN keys : keys'[s] = keys[s]
    BY <1>9, <2>5 DEF Put
  <2>7. DOMAIN ancestry' = DOMAIN ancestry \cup {secret}
    BY <1>6, <2>2, <2>5, <2>6, OneMinted
  <2>8. job'[c].key = job[c].key
    BY <2>1 DEF SameWho
  <2>9. Unused'
    <3>1. ~Making(c)' /\ ~Drawing(c)'
      BY <1>1, <2>1 DEF Making, Drawing
    <3>2. \A q \in DOMAIN pods' \ DOMAIN pods : q \in Made(c) /\ ~Making(c)'
      OBVIOUS
    <3>3. \A s \in DOMAIN keys' :
            \/ s \in DOMAIN keys /\ keys'[s] = keys[s]
            \/ keys'[s].org \in Made(c) /\ ~Making(c)'
            \/ keys'[s].org = job[c].key.org
      BY <1>2, <1>3, <2>6, <3>1
    <3>4. \A s \in DOMAIN ancestry' : s \in DOMAIN ancestry \/ (s \in Drawn(c) /\ ~Drawing(c)')
      BY <1>5, <2>7, <3>1
    <3> QED BY <1>2, <2>1, <2>8, <3>1, <3>2, <3>3, <3>4, UnusedKept DEF IInv
  <2>10. Makers'
    BY <2>1, <2>4, MakersKept DEF IInv
  <2>11. InitsInv'
    BY <2>1, InitsKept DEF IInv, SameWho
  <2>12. CallInv(c)'
    <3>1. Created(c)'
      BY <1>1 DEF Created
    <3> QED BY <1>2, <1>9, <2>4, <3>1, CreateEnds
  <2> QED BY <2>1, <2>4, <2>9, <2>10, <2>11, <2>12, StepInv
<1>10. CASE ~DrawAgain(c) /\ Answer(c, "internal") /\ UNCHANGED keys
  <2>1. job'[c].tries = job[c].tries
    BY <1>2, <1>10, Answered
  <2>2. job[c].tries = MINT_ATTEMPTS - 1
    BY <1>2, <1>10, MintAssumption DEF DrawAgain, Shape
  <2>3. Explained(c)'
    BY <1>1, <2>1, <2>2 DEF Explained
  <2> QED BY <1>10, <2>3, Refused DEF tables
<1> QED BY <1>7, <1>8, <1>9, <1>10

(* Its three statements together.                                          *)
LEMMA RunWithPool ==
  ASSUME IInv, NEW c \in Calls, run_with_pool(c), Observe
  PROVE  IInv'
BY OrganizationMade, DefaultPodMade, RootKeyMade DEF run_with_pool

(* A statement that broke off has done nothing, or all it does.            *)
LEMMA BrokenOff ==
  ASSUME IInv, NEW c \in Calls, BreakOff(c), Observe
  PROVE  IInv'
BY Refused DEF BreakOff

(***************************************************************************)
(* The whole.                                                              *)
(***************************************************************************)

(* Deployments are right to begin with, and nobody has called yet.         *)
LEMMA StartsTrue ==
  ASSUME Init
  PROVE  IInv
<1>1. PICK start \in Starts :
        /\ orgs = start.orgs /\ pods = start.pods
        /\ inboxes = start.inboxes /\ keys = start.keys
        /\ job = [c \in start.calls |-> Idle]
        /\ ancestry = [s \in DOMAIN start.keys |-> [of |-> {}, born |->
             IF start.keys[s].inbox = None THEN None ELSE start.inboxes[start.keys[s].inbox].by]]
        /\ gone = {} /\ overtaken = {}
        /\ steady = [c \in start.calls |-> {}]
  BY DEF Init
<1>2. Deployed(start) /\ Called(start)
  BY StartsAssumption
<1>3. Calls = start.calls /\ \A c \in Calls : job[c] = Idle /\ steady[c] = {}
  BY <1>1 DEF Calls
<1>4. Fits
  BY <1>3 DEF Fits
<1>5. DOMAIN ancestry = DOMAIN keys /\ \A s \in DOMAIN keys :
        /\ ancestry[s].of = {}
        /\ keys[s].inbox # None => ancestry[s].born = inboxes[keys[s].inbox].by
  BY <1>1
<1>6. TablesInv
  <2>1. Rows
    BY <1>1, <1>2, <1>5 DEF Rows, Deployed
  <2>2. References
    BY <1>1, <1>2, <1>5 DEF References, Deployed, Anchored, OneScope
  <2>3. UniqueClients(pods) /\ UniqueClients(inboxes)
    BY <1>1, <1>2 DEF Deployed
  <2>4. DescendantsWithin
    BY <1>5 DEF DescendantsWithin
  <2> QED BY <2>1, <2>2, <2>3, <2>4 DEF TablesInv
<1>7. \A c \in Calls : /\ Made(c) \subseteq Ids \ (orgs \cup DOMAIN pods)
                       /\ Drawn(c) \subseteq Secrets \ DOMAIN keys
  BY <1>1, <1>2, <1>3 DEF Called
<1>8. Unused
  <2>1. ASSUME NEW c \in Calls, Making(c)
        PROVE  /\ c.id \notin DOMAIN pods
               /\ \A s \in DOMAIN keys : keys[s].org # c.id
               /\ \A d \in Calls : job[d].key.org # c.id
    <3>1. c.id \in Made(c)
      BY <2>1 DEF Making, Made
    <3>2. c.id \in Ids /\ c.id \notin orgs /\ c.id \notin DOMAIN pods
      BY <1>7, <3>1
    <3>3. \A s \in DOMAIN keys : keys[s].org \in orgs
      BY <1>6 DEF TablesInv, References
    <3>4. \A d \in Calls : job[d].key.org = None
      BY <1>3 DEF Idle, NoKey
    <3> QED BY <3>2, <3>3, <3>4, NoneApart
  <2> QED BY <1>5, <1>7, <2>1 DEF Unused
<1>9. Makers
  BY <1>1, <1>2, <1>3 DEF Makers, Deployed
<1>10. InitsInv
  <2>1. \A c \in Calls : c.op = "init" => c.id \notin orgs
    BY <1>7 DEF Made
  <2>2. \A c \in Calls : job[c].at = "start"
    BY <1>3 DEF Idle
  <2> QED BY <2>1, <2>2 DEF InitsInv, Checked
<1>11. ASSUME NEW c \in Calls
       PROVE  CallInv(c)
  <2>1. job[c] = Idle /\ steady[c] = {}
    BY <1>3
  <2>2. Shape(c)
    BY <2>1, MintAssumption DEF Shape, Idle, Known, Placed
  <2>3. OwnKey(c) /\ OwnScope(c) /\ Born(c)
    BY <2>1 DEF OwnKey, OwnScope, Born, Known, Placed, Idle, NoKey, Place
  <2>4. Admitted(c) /\ Undisturbed(c)
    BY <2>1 DEF Admitted, Undisturbed, Known, Idle, NoKey
  <2>5. InReach(c)
    BY <2>1 DEF InReach, Idle
  <2>6. Created(c) /\ Explained(c)
    BY <2>1 DEF Created, Explained, Ok, Done, Idle
  <2>7. Walking(c)
    BY <2>1 DEF Walking, Done, Idle
  <2> QED BY <2>2, <2>3, <2>4, <2>5, <2>6, <2>7 DEF CallInv
<1> QED BY <1>4, <1>6, <1>8, <1>9, <1>10, <1>11 DEF IInv

(* A stuttering step.                                                      *)
LEMMA NothingMoves ==
  ASSUME IInv, UNCHANGED vars
  PROVE  IInv'
<1>1. UNCHANGED <<orgs, pods, inboxes, keys, job, ancestry, gone, overtaken, steady>>
  BY DEF vars, tables, history
<1>2. Fits' /\ TablesInv' /\ Unused' /\ Makers' /\ InitsInv'
  <2>1. Fits'
    BY <1>1 DEF IInv, Fits, Calls
  <2>2. TablesInv'
    BY <1>1 DEF IInv, TablesInv, Rows, References, UniqueClients, DescendantsWithin, Anchored, KeyPlace
  <2>3. Unused'
    BY <1>1 DEF IInv, Unused, Making, Drawing, Calls
  <2>4. Makers'
    BY <1>1 DEF IInv, Makers, Calls, PodFor, Window, MountOf
  <2>5. InitsInv'
    BY <1>1 DEF IInv, InitsInv, Checked, Calls
  <2> QED BY <2>1, <2>2, <2>3, <2>4, <2>5
<1>3. Frame
  BY <1>1 DEF Frame, Persist, Calls, IInv, TablesInv, Rows
<1>4. References /\ Calls' = Calls
  BY <1>1 DEF IInv, TablesInv, Calls
<1>5. \A c \in Calls : CallInv(c)'
  BY <1>1, <1>3, <1>4, OtherKeeps DEF IInv
<1> QED BY <1>2, <1>4, <1>5 DEF IInv

(* IInv holds of every state: it does at the start, and each statement of  *)
(* each call keeps it.                                                     *)
THEOREM Inductive == Spec => []IInv
<1>1. Init => IInv
  BY StartsTrue
<1>2. IInv /\ [Next]_vars => IInv'
  <2> SUFFICES ASSUME IInv, [Next]_vars PROVE IInv'
    OBVIOUS
  <2>1. ASSUME NEW c \in Calls, Call(c), Observe
        PROVE  IInv'
    <3>1. CASE authenticate(c) \/ from_request_parts(c) \/ Enter(c)
      BY <2>1, <3>1, Authenticated, Resolved, Entered
    <3>2. CASE pods_create(c) \/ pods_replay(c) \/ pods_get(c) \/ pods_delete(c)
      BY <2>1, <3>2, PodsCreate, PodsReplay, PodsGet, PodsDelete
    <3>3. CASE \/ inboxes_arbiter(c) \/ inboxes_create(c) \/ inboxes_replay(c)
               \/ inboxes_get(c) \/ inboxes_delete(c)
      BY <2>1, <3>3, InboxesArbiter, InboxesCreate, InboxesReplay, InboxesGet, InboxesDelete
    <3>4. CASE api_keys_create(c) \/ api_keys_delete(c) \/ list(c)
      BY <2>1, <3>4, ApiKeysCreate, ApiKeysDelete, Listed
    <3>5. CASE organizations_exists(c) \/ run_with_pool(c) \/ BreakOff(c)
      BY <2>1, <3>5, OrganizationsExists, RunWithPool, BrokenOff
    <3> QED BY <2>1, <3>1, <3>2, <3>3, <3>4, <3>5 DEF Call
  <2>2. CASE UNCHANGED vars
    BY <2>2, NothingMoves
  <2> QED BY <2>1, <2>2 DEF Next
<1> QED
  BY <1>1, <1>2, PTL DEF Spec

(* Rows have the rows they refer to, no key names a pod and an inbox, and  *)
(* no mint draws more often than it may.                                   *)
THEOREM TypeCorrect == Spec => []TypeOK
<1>1. ASSUME IInv, NEW c \in Calls
      PROVE  job[c].key.grants \in Grants
  <2>1. OwnKey(c)
    BY <1>1 DEF IInv, CallInv
  <2>2. NoKey.grants \in Grants
    BY DEF NoKey, Grants
  <2> QED BY <2>1, <2>2 DEF OwnKey
<1>2. IInv => TypeOK
  BY <1>1 DEF IInv, TablesInv, References, CallInv, Shape, TypeOK
<1> QED
  BY <1>2, Inductive, PTL

(* No chain of mints climbs: whatever keys, mounts and flags there are,    *)
(* and whatever is deleted meanwhile, a key may do no more, and reaches no *)
(* further, than each key it descends from.                                *)
THEOREM NoMintClimbs == Spec => []DescendantsWithin
<1>1. IInv => DescendantsWithin
  BY DEF IInv, TablesInv
<1> QED
  BY <1>1, Inductive, PTL

(* What a call shows, changes or removes lies in its credential's reach    *)
(* and under its mount, and the inbox it makes in the pod it is let into.  *)
THEOREM AnswersStayInside == Spec => []AnswersInWindow
<1>1. ASSUME IInv, NEW c \in Calls \ overtaken
      PROVE  \A seen \in job[c].rows : Inside(seen.place, Reach(c)) /\ Under(seen.mount, seen.place)
  BY <1>1 DEF IInv, CallInv, InReach
<1>2. ASSUME IInv, NEW c \in Calls, c.op = "create_inbox", c.target \in DOMAIN inboxes,
             inboxes[c.target].by = c
      PROVE  inboxes[c.target].pod = IF Reach(c).pod = None THEN PodFor(c) ELSE Reach(c).pod
  <2>1. /\ inboxes[c.target].pod = PodFor(c) /\ ~RuledOut(job[c].scope, c.mount)
    BY <1>2 DEF IInv, Makers
  <2>2. Reach(c) = job[c].scope
    BY <1>2 DEF Reach
  <2>3. CASE job[c].scope.pod = None
    BY <2>1, <2>2, <2>3
  <2>4. CASE job[c].scope.pod # None
    <3>1. Shape(c) /\ OwnScope(c) /\ Fits
      BY <1>2 DEF IInv, CallInv
    <3>2. Placed(c)
      BY <2>4, <3>1 DEF OwnScope, Place
    <3>3. MountOf(c) = c.mount
      BY <1>2, <3>1 DEF Shape, MountOf, Lists
    <3>4. Inside(Window(c), job[c].scope)
      BY <2>1, <3>1, <3>2, <3>3, WindowInside
    <3>5. Window(c).pod = job[c].scope.pod
      BY <2>4, <3>4 DEF Inside
    <3> QED BY <2>1, <2>2, <2>4, <3>5 DEF PodFor
  <2> QED BY <2>3, <2>4
<1>3. IInv => AnswersInWindow
  BY <1>1, <1>2 DEF AnswersInWindow
<1> QED
  BY <1>3, Inductive, PTL

(* However creates with one client id race in an organization, they are    *)
(* answered with one row, unless that row was deleted.                     *)
THEOREM OneRowPerClient == Spec => []CreatedOnce
<1>1. ASSUME IInv, NEW c \in Calls, NEW d \in Calls, Ok(c), Ok(d), c.op = d.op,
             c.op \in {"create_pod", "create_inbox"},
             c.client # None, c.client = d.client, job[c].key.org = job[d].key.org
      PROVE  job[c].row = job[d].row \/ {job[c].row, job[d].row} \cap gone # {}
  <2>1. Created(c) /\ Created(d) /\ UniqueClients(pods) /\ UniqueClients(inboxes)
    BY <1>1 DEF IInv, CallInv, TablesInv
  <2>2. CASE job[c].row \in gone \/ job[d].row \in gone
    BY <2>2
  <2>3. CASE job[c].row \notin gone /\ job[d].row \notin gone /\ c.op = "create_pod"
    BY <1>1, <2>1, <2>3 DEF Created, UniqueClients
  <2>4. CASE job[c].row \notin gone /\ job[d].row \notin gone /\ c.op = "create_inbox"
    BY <1>1, <2>1, <2>4 DEF Created, UniqueClients
  <2> QED BY <1>1, <2>2, <2>3, <2>4
<1>2. IInv => CreatedOnce
  BY <1>1 DEF CreatedOnce
<1> QED
  BY <1>2, Inductive, PTL

(* As long as the store answers every statement of a call, the call fails  *)
(* with an internal error for one of the listed reasons only.              *)
THEOREM ErrorsAreExplained == Spec => []ErrorHasCause
<1>1. IInv => ErrorHasCause
  BY DEF IInv, CallInv, Explained, ErrorHasCause
<1> QED
  BY <1>1, Inductive, PTL

(* A call that no deletion overtakes is served on a key of the very inbox  *)
(* the key was minted for, also where its address was taken again.         *)
THEOREM KeysDieWithInboxes == Spec => []KeyDiesWithInbox
<1>1. IInv => KeyDiesWithInbox
  BY DEF IInv, CallInv, Born, KeyDiesWithInbox
<1> QED
  BY <1>1, Inductive, PTL

(* A walk is never refused its own token, and loses no row that stays.     *)
THEOREM WalksAreWhole == Spec => []WalkWhole
<1>1. IInv => WalkWhole
  BY DEF IInv, CallInv, Walking, WalkWhole
<1> QED
  BY <1>1, Inductive, PTL

(* Two runs of amk init make two organizations only if they overlapped.    *)
THEOREM OneInitAtATime == Spec => []InitOnce
<1>1. IInv => InitOnce
  BY DEF IInv, InitsInv, Checked, InitOnce
<1> QED
  BY <1>1, Inductive, PTL
=============================================================================
