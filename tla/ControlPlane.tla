---------------------------- MODULE ControlPlane ----------------------------
(***************************************************************************)
(* Organizations, pods, inboxes and api keys, and the calls that make,     *)
(* read and remove them.  A call runs from its credential to its answer:   *)
(* authenticate, resolve the identity, settle the mount, decide the        *)
(* permission, then one statement, or two where a create turns out to be a *)
(* replay.  Each is an action, so other calls run in between.  The page of *)
(* a list is a call, too; a walk is several.  amk init, which makes a      *)
(* deployment's organization, is a call without a credential.              *)
(*                                                                         *)
(* Mail goes with its inbox; modules Reading and Delivery are about it.    *)
(***************************************************************************)
EXTENDS Permissions, Scope, Integers, SequencesExt

CONSTANTS
  Ids, Addresses, Secrets,  \* of organizations and pods, of inboxes, of keys
  Starts,          \* deployments to start from, and the calls made there
  PrefixOf,        \* secret -> its visible prefix
  Order,           \* id -> rank by (created_at, id)
  MINT_ATTEMPTS    \* draws of one mint; 4 in the code

ASSUME MintAssumption == MINT_ATTEMPTS \in Nat \ {0}

(* Ids rank, no two of a kind alike, and None is no id.                    *)
ASSUME OrderAssumption ==
  /\ None \notin Ids \cup Addresses \cup Secrets
  /\ Order \in [Ids \cup Addresses \cup Secrets -> Nat]
  /\ \A kind \in {Ids, Addresses, Secrets} : \A a, b \in kind : Order[a] = Order[b] => a = b

VARIABLES
  orgs,        \* organization ids
  pods,        \* pod id -> [org, client]
  inboxes,     \* address -> [org, pod, client, by]; by is the call that made it
  keys,        \* secret -> [org, pod, inbox, grants]
  job,         \* call -> its progress
  ancestry,    \* secret -> [of, born], who minted it, and its inbox's maker
  gone,        \* rows that were deleted
  overtaken,   \* calls under way when some row was deleted
  steady       \* call -> rows a walk must not lose

tables  == <<orgs, pods, inboxes, keys>>
history == <<ancestry, gone, overtaken, steady>>
vars    == <<tables, job, history>>

Put(table, key, row) ==
  [k \in DOMAIN table \cup {key} |-> IF k = key THEN row ELSE table[k]]

Keep(table, names) == [k \in names |-> table[k]]

Calls == DOMAIN job

NoToken == [after |-> None, pod |-> None, inbox |-> None]
NoKey   == [org |-> None, pod |-> None, inbox |-> None, grants |-> Whitelist({})]

Idle == [at |-> "start", key |-> NoKey, scope |-> Place(None, None, None), saw |-> {},
         answer |-> "none", row |-> <<None, None>>, rows |-> {}, cursor |-> NoToken,
         tries |-> 0]

Go(c, at) == job' = [job EXCEPT ![c].at = at]

Answer(c, answer) == job' = [job EXCEPT ![c].at = "done", ![c].answer = answer]

(* What is heard of a statement that took effect.  "broken" stands for an  *)
(* internal error because a statement or its connection failed, and for a  *)
(* caller who has hung up: after the commit, as here, or before any effect.*)
Heard == {"ok", "broken"}

(* A create's answer: an id and, of an inbox, the call that made the row.  *)
AnswerRow(c, row) ==
  \E answer \in Heard :
    job' = [job EXCEPT ![c].at = "done", ![c].answer = answer, ![c].row = row]

(***************************************************************************)
(* Who calls.                                                              *)
(***************************************************************************)
(* The prefix finds at most one row; its hash decides whether the secret   *)
(* presented is that key's.  Stamping used_at may fail without a trace.    *)
authenticate(c) ==
  /\ job[c].at = "start" /\ c.op # "init"
  /\ IF \E s \in DOMAIN keys : PrefixOf[s] = PrefixOf[c.secret] /\ s = c.secret
     THEN job' = [job EXCEPT ![c].at = "known", ![c].key = keys[c.secret]]
     ELSE Answer(c, "forbidden")
  /\ UNCHANGED tables

scope_type_of(key) ==
  IF key.inbox # None THEN "inbox" ELSE IF key.pod # None THEN "pod" ELSE "organization"

IdentityOf(key, pod) ==
  [type |-> scope_type_of(key), org |-> key.org, pod |-> pod, inbox |-> key.inbox,
   scope_id |-> IF key.inbox # None THEN key.inbox
                ELSE IF key.pod # None THEN key.pod
                ELSE key.org]

(* An inbox's key carries no pod: it is looked up through the inbox, which *)
(* may be gone by now, or another.                                         *)
from_request_parts(c) ==
  LET key == job[c].key
      found == key.inbox \in DOMAIN inboxes /\ inboxes[key.inbox].org = key.org
      pod == IF key.inbox = None THEN key.pod ELSE inboxes[key.inbox].pod
      resolved == FromIdentity(IdentityOf(key, pod))
  IN
  /\ job[c].at = "known"
  /\ IF (key.inbox # None /\ ~found) \/ ~resolved.usable
     THEN Answer(c, "forbidden")
     ELSE job' = [job EXCEPT
            ![c].at = "granted", ![c].scope = resolved.scope,
            ![c].saw = IF key.inbox = None THEN {} ELSE {inboxes[key.inbox].by}]
  /\ UNCHANGED tables

(***************************************************************************)
(* Whether the handler lets it in.                                         *)
(***************************************************************************)
Lists == {"list_keys", "list_inboxes", "list_pods"}
OwnInbox == {"get_inbox", "update_inbox", "delete_inbox"}

MountOf(c) == IF job[c].cursor = NoToken THEN c.mount ELSE c.then
Window(c)  == Narrowed(job[c].scope, MountOf(c))

InboxPlace(i) == Place(inboxes[i].org, inboxes[i].pod, i)
PodPlaces   == {Place(pods[p].org, p, None) : p \in DOMAIN pods}
InboxPlaces == {InboxPlace(i) : i \in DOMAIN inboxes}

(* An inbox fetched by id under a pod is its own proof; what lies under a  *)
(* mount waits for the mount to be found.                                  *)
MountVerdict(c) ==
  IF c.op \in OwnInbox
  THEN IF RuledOut(job[c].scope, c.mount) THEN "denied" ELSE "ready"
  ELSE SettleMount(job[c].scope, MountOf(c), PodPlaces, InboxPlaces)

FlagFor(op) ==
  CASE op = "create_pod"   -> "pod_create"   [] op = "get_pod"      -> "pod_read"
    [] op = "list_pods"    -> "pod_read"     [] op = "delete_pod"   -> "pod_delete"
    [] op = "create_inbox" -> "inbox_create" [] op = "get_inbox"    -> "inbox_read"
    [] op = "list_inboxes" -> "inbox_read"   [] op = "update_inbox" -> "inbox_update"
    [] op = "delete_inbox" -> "inbox_delete" [] op = "create_key"   -> "api_key_create"
    [] op = "list_keys"    -> "api_key_read" [] op = "delete_key"   -> "api_key_delete"

(* Mutant of bound_inbox_matches: any inbox of the pod will do.            *)
BoundToPod(c) == TRUE

(* The one inbox, or the one pod, that the window is pinned to.            *)
bound_inbox_matches(c) == c.op \in OwnInbox => Window(c).inbox \in {None, c.target}

bound_pod_matches(c) == c.op = "delete_pod" => Window(c).pod \in {None, c.target}

Own(c) == bound_inbox_matches(c) /\ bound_pod_matches(c)

(* The pod that amk init named after its organization, if it still exists; *)
(* an organization whose id is no UUID has none.                           *)
default_pod(c) == Window(c).org \in DOMAIN pods

(* An update that changes nothing, or metadata no column can hold.         *)
Unstorable(c) == ~c.valid

(* A create that leaves its domain or its display name to a deployment     *)
(* which has configured none.                                              *)
Unnamed(c) == ~c.named

(* Reading an inbox asks for the flag before it looks; changing one, or    *)
(* removing it or a pod, looks whether it is the caller's own first.  An   *)
(* update's body is judged before the permission, a create's after.        *)
Gate(c) ==
  IF MountVerdict(c) = "denied" THEN "not_found"
  ELSE IF c.op # "get_inbox" /\ ~Own(c) THEN "not_found"
  ELSE IF c.op = "update_inbox" /\ Unstorable(c) THEN "validation_error"
  ELSE IF ~Allows(job[c].key.grants, FlagFor(c.op)) THEN "forbidden"
  ELSE IF ~Own(c) THEN "not_found"
  ELSE IF c.op = "create_key" THEN DeriveChild(job[c].key.grants, c.grants)
  ELSE IF c.op = "create_inbox" /\ Window(c).pod = None /\ ~default_pod(c) THEN "internal"
  ELSE IF c.op = "create_inbox" /\ Unstorable(c) THEN "validation_error"
  ELSE IF c.op = "create_inbox" /\ Unnamed(c) THEN "internal"
  ELSE "ok"

Enter(c) ==
  /\ job[c].at = "granted"
  /\ IF Gate(c) = "ok" THEN Go(c, "inside") ELSE Answer(c, Gate(c))
  /\ UNCHANGED tables

At(c, op) == job[c].at = "inside" /\ c.op = op

(***************************************************************************)
(* Pods.                                                                   *)
(***************************************************************************)
(* Mutant of Replayed: client ids are not unique.                          *)
ReplayedNever(table, org, client) == {}

(* The row that already answers to this client id, in this organization.   *)
Replayed(table, org, client) ==
  {k \in DOMAIN table : client # None /\ table[k].org = org /\ table[k].client = client}

(* ON CONFLICT DO NOTHING returns no row; the caller then selects it.      *)
pods_create(c) ==
  LET org == job[c].key.org IN
  /\ At(c, "create_pod")
  /\ IF Replayed(pods, org, c.client) # {}
     THEN Go(c, "replay") /\ UNCHANGED pods
     ELSE /\ pods' = Put(pods, c.id, [org |-> org, client |-> c.client])
          /\ AnswerRow(c, <<c.id, None>>)
  /\ UNCHANGED <<orgs, inboxes, keys>>

(* The second statement; the row may have gone since the first.            *)
pods_replay(c) ==
  LET row == Replayed(pods, job[c].key.org, c.client) IN
  /\ job[c].at = "replay" /\ c.op = "create_pod"
  /\ IF row = {} THEN Answer(c, "internal")
     ELSE \E p \in row : AnswerRow(c, <<p, None>>)
  /\ UNCHANGED tables

Seen(c, id, place) == [id |-> id, place |-> place, mount |-> MountOf(c)]

AnswerSeen(c, id, place) ==
  \E answer \in Heard :
    job' = [job EXCEPT ![c].at = "done", ![c].answer = answer,
                       ![c].rows = {Seen(c, id, place)}]

PodAt(c, p) == p \in DOMAIN pods /\ pods[p].org = job[c].key.org

(* A pod lies in no inbox, so an inbox's key is not shown its own.         *)
pods_get(c) ==
  LET place == Place(job[c].key.org, c.target, None) IN
  /\ At(c, "get_pod")
  /\ IF PodAt(c, c.target) /\ WindowAdmits(Window(c), place)
     THEN AnswerSeen(c, c.target, place) ELSE Answer(c, "not_found")
  /\ UNCHANGED tables

InboxesOf(p) == {i \in DOMAIN inboxes : inboxes[i].pod = p}
KeysOf(p)    == {s \in DOMAIN keys : keys[s].pod = p}

(* Mutant of PodReferences: the foreign key of api keys is forgotten.      *)
PodReferencesByMail(p) == InboxesOf(p)

PodReferences(p) == InboxesOf(p) \cup KeysOf(p)

(* Any row that refers to the pod refuses the whole of it, the key it is   *)
(* called with included.  Threads and messages refer to it, too.           *)
pods_delete(c) ==
  /\ At(c, "delete_pod")
  /\ CASE ~PodAt(c, c.target) -> Answer(c, "not_found") /\ UNCHANGED pods
       [] PodAt(c, c.target) /\ PodReferences(c.target) # {}
            -> Answer(c, "cannot_delete") /\ UNCHANGED pods
       [] OTHER -> /\ pods' = Keep(pods, DOMAIN pods \ {c.target})
                   /\ AnswerSeen(c, c.target, Place(job[c].key.org, c.target, None))
  /\ UNCHANGED <<orgs, inboxes, keys>>

(***************************************************************************)
(* Inboxes.                                                                *)
(***************************************************************************)
(* The pod of the window, or the one amk init named after its organization.*)
PodFor(c) == IF Window(c).pod # None THEN Window(c).pod ELSE Window(c).org

(* One INSERT in two steps.  The client id is the arbiter of its ON        *)
(* CONFLICT and is looked at first.                                        *)
inboxes_arbiter(c) ==
  /\ At(c, "create_inbox")
  /\ Go(c, IF Replayed(inboxes, job[c].key.org, c.client) # {} THEN "replay" ELSE "insert")
  /\ UNCHANGED tables

(* Then the address, which is unique over all organizations, whoever took  *)
(* it in between; the client id again; and the foreign key.                *)
inboxes_create(c) ==
  LET org == job[c].key.org
      free == c.target \notin DOMAIN inboxes
      known == Replayed(inboxes, org, c.client) # {} IN
  /\ job[c].at = "insert"
  /\ CASE ~free -> Answer(c, "already_exists") /\ UNCHANGED inboxes
       [] free /\ known -> Go(c, "replay") /\ UNCHANGED inboxes
       [] free /\ ~known /\ PodFor(c) \notin DOMAIN pods
            -> Answer(c, "internal") /\ UNCHANGED inboxes
       [] OTHER ->
            /\ inboxes' = Put(inboxes, c.target,
                 [org |-> org, pod |-> PodFor(c), client |-> c.client, by |-> c])
            /\ AnswerRow(c, <<c.target, c>>)
  /\ UNCHANGED <<orgs, pods, keys>>

inboxes_replay(c) ==
  LET row == Replayed(inboxes, job[c].key.org, c.client) IN
  /\ job[c].at = "replay" /\ c.op = "create_inbox"
  /\ IF row = {} THEN Answer(c, "internal")
     ELSE \E i \in row : AnswerRow(c, <<i, inboxes[i].by>>)
  /\ UNCHANGED tables

InboxAt(c) ==
  /\ c.target \in DOMAIN inboxes /\ inboxes[c.target].org = Window(c).org
  /\ Within1(Window(c).pod, inboxes[c.target].pod)

(* get and update: the columns an update writes are not part of this model.*)
inboxes_get(c) ==
  /\ job[c].at = "inside" /\ c.op \in {"get_inbox", "update_inbox"}
  /\ IF InboxAt(c) THEN AnswerSeen(c, c.target, InboxPlace(c.target))
     ELSE Answer(c, "not_found")
  /\ UNCHANGED tables

(* Mutant of Cascade: the keys of a deleted inbox stay.                    *)
CascadeMailOnly(i) == {}

Cascade(i) == {s \in DOMAIN keys : keys[s].inbox = i}

(* Never refused: its keys go with it.                                     *)
inboxes_delete(c) ==
  /\ At(c, "delete_inbox")
  /\ IF InboxAt(c)
     THEN /\ inboxes' = Keep(inboxes, DOMAIN inboxes \ {c.target})
          /\ keys' = Keep(keys, DOMAIN keys \ Cascade(c.target))
          /\ AnswerSeen(c, c.target, InboxPlace(c.target))
     ELSE Answer(c, "not_found") /\ UNCHANGED <<inboxes, keys>>
  /\ UNCHANGED <<orgs, pods>>

(***************************************************************************)
(* Api keys.                                                               *)
(***************************************************************************)
(* The columns of a new key are the window's coordinates, both of them.    *)
NewKey(c) ==
  IF c.op = "init" THEN [org |-> c.id, pod |-> None, inbox |-> None, grants |-> Unrestricted]
  ELSE [org |-> Window(c).org, pod |-> Window(c).pod, inbox |-> Window(c).inbox,
        grants |-> c.grants]

(* The CHECK of migration 0007, and its foreign keys.                      *)
OneScope(key)    == key.pod = None \/ key.inbox = None
Anchored(key)    == key.pod \in DOMAIN pods \cup {None} /\ key.inbox \in DOMAIN inboxes \cup {None}
PrefixTaken(s)   == \E t \in DOMAIN keys : PrefixOf[t] = PrefixOf[s]

(* Mutant of DrawAgain: a collision is an error like any other.            *)
DrawAgainNever(c) == FALSE

DrawAgain(c) == job[c].tries + 1 < MINT_ATTEMPTS

(* One draw of a secret.                                                   *)
Mint(c, secret) ==
  LET key == NewKey(c) IN
  CASE OneScope(key) /\ PrefixTaken(secret) /\ DrawAgain(c) ->
         job' = [job EXCEPT ![c].tries = @ + 1] /\ UNCHANGED keys
    [] OneScope(key) /\ ~PrefixTaken(secret) /\ Anchored(key) ->
         keys' = Put(keys, secret, key) /\ AnswerRow(c, <<secret, None>>)
    [] OTHER -> Answer(c, "internal") /\ UNCHANGED keys

api_keys_create(c) ==
  /\ At(c, "create_key")
  /\ Mint(c, c.draws[job[c].tries + 1])
  /\ UNCHANGED <<orgs, pods, inboxes>>

(* The rows that a KeyScope leaves: one column, never both.                *)
InKeyScope(s, org, scope) ==
  /\ keys[s].org = org
  /\ scope.kind = "pod" => keys[s].pod = scope.id
  /\ scope.kind = "inbox" => keys[s].inbox = scope.id

KeyPlace(s) ==
  Place(keys[s].org,
        IF keys[s].inbox \in DOMAIN inboxes THEN inboxes[keys[s].inbox].pod ELSE keys[s].pod,
        keys[s].inbox)

api_keys_delete(c) ==
  /\ At(c, "delete_key")
  /\ IF /\ c.target \in DOMAIN keys
        /\ InKeyScope(c.target, Window(c).org, KeyScopeFor(Window(c)))
     THEN /\ keys' = Keep(keys, DOMAIN keys \ {c.target})
          /\ AnswerSeen(c, c.target, KeyPlace(c.target))
     ELSE Answer(c, "not_found") /\ UNCHANGED keys
  /\ UNCHANGED <<orgs, pods, inboxes>>

(***************************************************************************)
(* Lists, one row a page.                                                  *)
(***************************************************************************)
keys_list(w)    == {s \in DOMAIN keys : InKeyScope(s, w.org, KeyScopeFor(w))}
pods_list(w)    == {p \in DOMAIN pods : pods[p].org = w.org /\ Within1(w.pod, p)}
inboxes_list(w) == {i \in DOMAIN inboxes : WindowAdmits(w, InboxPlace(i))}

Matching(c) ==
  CASE c.op = "list_keys"    -> keys_list(Window(c))
    [] c.op = "list_pods"    -> pods_list(Window(c))
    [] c.op = "list_inboxes" -> inboxes_list(Window(c))

RowPlace(c, row) ==
  CASE c.op = "list_keys" -> KeyPlace(row)
    [] c.op = "list_pods" -> Place(pods[row].org, row, None)
    [] c.op = "list_inboxes" -> InboxPlace(row)

(* A window pinned to the one row there can be has one page: no row lies   *)
(* ahead of its token.                                                     *)
degenerate_single_pod(c)   == c.op = "list_pods" /\ Window(c).pod # None
degenerate_single_inbox(c) == c.op = "list_inboxes" /\ Window(c).inbox # None

Coordinates(scope) ==
  [pod   |-> IF scope.kind = "pod" THEN scope.id ELSE None,
   inbox |-> IF scope.kind = "inbox" THEN scope.id ELSE None]

(* Mutant of TokenOf: a key's token carries its row's coordinates.         *)
TokenOfRow(c, row) ==
  [after |-> row, pod |-> RowPlace(c, row).pod, inbox |-> RowPlace(c, row).inbox]

(* A key's token carries the mount's coordinates; an inbox's carries the   *)
(* row's pod.                                                              *)
TokenOf(c, row) ==
  LET at == IF c.op = "list_keys" THEN Coordinates(KeyScopeFor(Window(c)))
            ELSE RowPlace(c, row)
  IN [after |-> row, pod |-> at.pod, inbox |-> at.inbox]

check_key_scope(token, pinned) == token.pod = pinned.pod /\ token.inbox = pinned.inbox
check_pod_scope(token, pinned) == Within1(pinned, token.pod)

WrongScope(c) ==
  LET token == job[c].cursor
      w == Window(c) IN
  /\ token # NoToken
  /\ \/ c.op = "list_keys" /\ ~check_key_scope(token, Coordinates(KeyScopeFor(w)))
     \/ c.op = "list_inboxes" /\ ~check_pod_scope(token, w.pod)

(* The next page is another request.                                       *)
list(c) ==
  LET token == job[c].cursor
      ahead == {row \in Matching(c) :
                  \/ token = NoToken
                  \/ /\ ~degenerate_single_pod(c) /\ ~degenerate_single_inbox(c)
                     /\ Order[token.after] < Order[row]}
      row == CHOOSE r \in ahead : \A other \in ahead : Order[r] <= Order[other]
      more == ahead \ {row} # {}
  IN
  /\ job[c].at = "inside" /\ c.op \in Lists
  /\ CASE WrongScope(c) -> Answer(c, "bad_token")
       [] ~WrongScope(c) /\ ahead = {} -> Answer(c, "ok")
       [] OTHER ->
            job' = [job EXCEPT
              ![c].at = IF more THEN "start" ELSE "done",
              ![c].answer = IF more THEN "none" ELSE "ok",
              ![c].rows = @ \cup {Seen(c, row, RowPlace(c, row))},
              ![c].cursor = IF more THEN TokenOf(c, row) ELSE @]
  /\ UNCHANGED tables

(***************************************************************************)
(* amk init: four statements.  The check is the only thing that stops a    *)
(* second organization, and it counts one of which nothing else was made.  *)
(***************************************************************************)
Initializing == {d \in Calls : d.op = "init" /\ job[d].at = "organization"}

(* Mutant of organizations_exists: nobody asks.                            *)
organizations_unasked(c) ==
  /\ job[c].at = "start" /\ c.op = "init"
  /\ job' = [job EXCEPT ![c].at = "organization", ![c].saw = Initializing]
  /\ UNCHANGED tables

organizations_exists(c) ==
  /\ job[c].at = "start" /\ c.op = "init"
  /\ IF orgs # {} THEN Answer(c, "already")
     ELSE job' = [job EXCEPT ![c].at = "organization", ![c].saw = Initializing]
  /\ UNCHANGED tables

(* The default pod has its organization's id; the root key grants all.     *)
run_with_pool(c) ==
  \/ /\ job[c].at = "organization" /\ Go(c, "default_pod")
     /\ orgs' = orgs \cup {c.id}
     /\ UNCHANGED <<pods, inboxes, keys>>
  \/ /\ job[c].at = "default_pod" /\ Go(c, "root_key")
     /\ pods' = Put(pods, c.id, [org |-> c.id, client |-> None])
     /\ UNCHANGED <<orgs, inboxes, keys>>
  \/ /\ job[c].at = "root_key"
     /\ Mint(c, c.draws[job[c].tries + 1])
     /\ UNCHANGED <<orgs, pods, inboxes>>

(***************************************************************************)
(* A statement fails or finds no connection, or whoever waits is gone.     *)
(***************************************************************************)
BreakOff(c) ==
  /\ job[c].at # "done"
  /\ Answer(c, "broken")
  /\ UNCHANGED tables

(***************************************************************************)
(* The whole.                                                              *)
(***************************************************************************)
Call(c) ==
  \/ authenticate(c) \/ from_request_parts(c) \/ Enter(c)
  \/ pods_create(c) \/ pods_replay(c) \/ pods_get(c) \/ pods_delete(c)
  \/ inboxes_arbiter(c) \/ inboxes_create(c) \/ inboxes_replay(c)
  \/ inboxes_get(c) \/ inboxes_delete(c)
  \/ api_keys_create(c) \/ api_keys_delete(c) \/ list(c)
  \/ organizations_exists(c) \/ run_with_pool(c) \/ BreakOff(c)

(* The rest only observes.  Rows that left the tables, by id and maker:    *)
Left ==
  {<<p, None>> : p \in DOMAIN pods \ DOMAIN pods'}
    \cup {<<s, None>> : s \in DOMAIN keys \ DOMAIN keys'}
    \cup {<<i, inboxes[i].by>> : i \in DOMAIN inboxes \ DOMAIN inboxes'}

UnderWay(c) == job[c] # Idle /\ job[c].at # "done"

Observe ==
  LET minted == DOMAIN keys' \ DOMAIN keys
      maker == CHOOSE c \in Calls : job'[c] # job[c]
      parents == IF maker.op = "init" THEN {}
                 ELSE ancestry[maker.secret].of
                        \cup {[grants |-> job[maker].key.grants, scope |-> job[maker].scope]}
      born(s) == IF keys'[s].inbox = None THEN None ELSE inboxes[keys'[s].inbox].by
      Walks(c) == c.op \in Lists /\ UnderWay(c)
  IN
  /\ ancestry' = [s \in DOMAIN ancestry \cup minted |->
       IF s \in minted THEN [of |-> parents, born |-> born(s)] ELSE ancestry[s]]
  /\ gone' = gone \cup Left
  /\ overtaken' = overtaken \cup IF Left = {} THEN {} ELSE {c \in Calls : UnderWay(c)}
  /\ steady' = [c \in Calls |->
       IF c.op \in Lists /\ job[c].cursor = NoToken /\ job'[c].cursor # NoToken
       THEN Matching(c)
       ELSE steady[c] \ {row[1] : row \in Left}]

(***************************************************************************)
(* Where it starts.                                                        *)
(***************************************************************************)
UniqueClients(table) ==
  \A k, l \in DOMAIN table :
    /\ table[k].client # None /\ table[k].client = table[l].client
    /\ table[k].org = table[l].org
    => k = l

(* What the statements of the code leave behind: references lead to rows,  *)
(* and a client id names one row.                                          *)
Deployed(start) ==
  /\ start.orgs \subseteq Ids
  /\ DOMAIN start.pods \subseteq Ids /\ IsFiniteSet(DOMAIN start.pods)
  /\ DOMAIN start.inboxes \subseteq Addresses /\ IsFiniteSet(DOMAIN start.inboxes)
  /\ DOMAIN start.keys \subseteq Secrets /\ IsFiniteSet(DOMAIN start.keys)
  /\ \A p \in DOMAIN start.pods : start.pods[p].org \in start.orgs
  /\ \A i \in DOMAIN start.inboxes :
       /\ start.inboxes[i].org \in start.orgs /\ start.inboxes[i].pod \in DOMAIN start.pods
       /\ start.inboxes[i].by \notin start.calls
  /\ \A s \in DOMAIN start.keys :
       /\ start.keys[s].org \in start.orgs
       /\ start.keys[s].pod \in DOMAIN start.pods \cup {None}
       /\ start.keys[s].inbox \in DOMAIN start.inboxes \cup {None}
       /\ OneScope(start.keys[s]) /\ start.keys[s].grants \in Grants
  /\ UniqueClients(start.pods) /\ UniqueClients(start.inboxes)

(* The ids a call makes up, and the secrets it may draw.                   *)
Made(c)  == IF c.op \in {"create_pod", "init"} THEN {c.id} ELSE {}
Drawn(c) ==
  IF c.op \in {"create_key", "init"} THEN {c.draws[k] : k \in 1..MINT_ATTEMPTS} ELSE {}

Ops == OwnInbox \cup Lists \cup {"create_pod", "get_pod", "delete_pod", "create_inbox",
                                "create_key", "delete_key", "init"}

(* Calls the router takes.  Pods are mounted at the organization, inboxes  *)
(* there and under a pod.                                                  *)
Routed(c) ==
  /\ c.op \in Ops
  /\ \A mount \in {c.mount, c.then} :
       /\ Mounted(mount)
       /\ c.op \in {"create_pod", "get_pod", "delete_pod", "list_pods"} => mount = OrgMount
       /\ c.op \in OwnInbox \cup {"create_inbox", "list_inboxes"} => mount.kind # "inbox"
  /\ c.op = "create_inbox" => c.target \in Addresses
  /\ c.op = "create_key" => c.grants \in Grants

(* Ids and secrets are drawn at random, so no two calls draw the same; the *)
(* prefixes of secrets are short and may collide.                          *)
Called(start) ==
  /\ \A c \in start.calls :
       /\ Routed(c)
       /\ Made(c) \subseteq Ids \ (start.orgs \cup DOMAIN start.pods)
       /\ Drawn(c) \subseteq Secrets \ DOMAIN start.keys
  /\ \A c, d \in start.calls :
       c # d => Made(c) \cap Made(d) = {} /\ Drawn(c) \cap Drawn(d) = {}

ASSUME StartsAssumption == \A start \in Starts : Deployed(start) /\ Called(start)

Init ==
  \E start \in Starts :
    /\ orgs = start.orgs /\ pods = start.pods
    /\ inboxes = start.inboxes /\ keys = start.keys
    /\ job = [c \in start.calls |-> Idle]
    /\ ancestry = [s \in DOMAIN start.keys |-> [of |-> {}, born |->
         IF start.keys[s].inbox = None THEN None ELSE start.inboxes[start.keys[s].inbox].by]]
    /\ gone = {} /\ overtaken = {}
    /\ steady = [c \in start.calls |-> {}]

Next == \E c \in Calls : Call(c) /\ Observe

Spec == Init /\ [][Next]_vars

(***************************************************************************)
(* Properties.                                                             *)
(***************************************************************************)
(* Types, and every reference has its row: no key or inbox outlives what   *)
(* it belongs to, and no key names a pod and an inbox.                     *)
TypeOK ==
  /\ \A p \in DOMAIN pods : pods[p].org \in orgs
  /\ \A i \in DOMAIN inboxes :
       inboxes[i].org \in orgs /\ inboxes[i].pod \in DOMAIN pods
  /\ \A s \in DOMAIN keys :
       keys[s].org \in orgs /\ Anchored(keys[s]) /\ OneScope(keys[s])
  /\ \A c \in Calls :
       /\ job[c].at \in {"start", "known", "granted", "inside", "insert", "replay", "done",
                         "organization", "default_pod", "root_key"}
       /\ job[c].tries \in 0..MINT_ATTEMPTS - 1
       /\ job[c].key.grants \in Grants

Done(c) == job[c].at = "done"
Ok(c) == Done(c) /\ job[c].answer = "ok"

(* No chain of mints, by any callers at any mounts, ends in a key that may *)
(* do more, or reach further, than any key it descends from (handlers'     *)
(* create_key, "child not within parent", at every level of the chain).    *)
DescendantsWithin ==
  \A s \in DOMAIN keys : \A a \in ancestry[s].of :
    Within(keys[s].grants, a.grants) /\ Inside(KeyPlace(s), a.scope)

(* A pod lies in no inbox: to an inbox's key its own pod is in reach.      *)
Reach(c) == IF c.op \in {"list_pods", "delete_pod"}
            THEN [job[c].scope EXCEPT !.inbox = None] ELSE job[c].scope

Under(mount, at) ==
  /\ mount.kind = "pod" => at.pod = mount.id
  /\ mount.kind = "inbox" => at.inbox = mount.id

(* What a call is shown, changes or removes lies in its credential's reach *)
(* and under the mount it named; an inbox it makes lies in its pod.  Three *)
(* are left out: a replay answers with the original wherever in the        *)
(* organization it lies, a pod is made in the organization, and a call     *)
(* that a deletion overtakes may find an address under a new owner.        *)
AnswersInWindow ==
  \A c \in Calls \ overtaken :
    /\ \A seen \in job[c].rows : Inside(seen.place, Reach(c)) /\ Under(seen.mount, seen.place)
    /\ Ok(c) /\ c.op = "create_inbox" /\ job[c].row = <<c.target, c>> =>
         LET made == inboxes[c.target] IN
         c.target \in DOMAIN inboxes /\ made.by = c =>
           made.pod = IF Reach(c).pod = None THEN PodFor(c) ELSE Reach(c).pod

(* Creates that carry one client id in one organization are answered with  *)
(* one row, however they race, as long as that row is not deleted          *)
(* (amk-types, CreatePodRequest: replaying it must return the original).   *)
CreatedOnce ==
  \A c, d \in Calls :
    /\ Ok(c) /\ Ok(d) /\ c.op = d.op /\ c.op \in {"create_pod", "create_inbox"}
    /\ c.client # None /\ c.client = d.client /\ job[c].key.org = job[d].key.org
    => job[c].row = job[d].row \/ {job[c].row, job[d].row} \cap gone # {}

(* While the store answers, no statement of a handler is the first to find *)
(* out what the checks before it should have: a call none of whose         *)
(* statements broke off fails with an internal error only if a deletion    *)
(* ran into it, if every draw of a secret collided, if an inbox is made in *)
(* an organization without a default pod or with a name the deployment     *)
(* should have supplied, or if a key is minted in a window that pins an    *)
(* inbox along with its pod, which the table cannot hold.                  *)
ErrorHasCause ==
  \A c \in Calls :
    Done(c) /\ job[c].answer = "internal" =>
      \/ c \in overtaken
      \/ c.op \in {"create_key", "init"} /\ job[c].tries = MINT_ATTEMPTS - 1
      \/ c.op = "create_inbox" /\ (job[c].key.org \notin DOMAIN pods \/ Unnamed(c))
      \/ c.op = "create_key" /\ ~OneScope(Window(c))

(* A key dies with its inbox: a call that begins after the deletion is not *)
(* served on that key, also when the address is taken again, in another    *)
(* pod perhaps.                                                            *)
KeyDiesWithInbox ==
  \A c \in Calls \ overtaken :
    Ok(c) /\ job[c].saw # {} /\ c.op # "init" => job[c].saw = {ancestry[c.secret].born}

(* A walk's own token is never refused, and a walk to the end shows every  *)
(* row that was there from its first page to its last.                     *)
WalkWhole ==
  \A c \in Calls :
    Done(c) /\ c.op \in Lists /\ c.mount = c.then =>
      /\ job[c].answer # "bad_token"
      /\ job[c].answer = "ok" =>
           \A row \in steady[c] : \E seen \in job[c].rows : seen.id = row

(* Two runs of amk init make two organizations only if each asked before   *)
(* the other had made its own; one that broke off counts as made.          *)
InitOnce ==
  \A c, d \in Calls :
    c # d /\ c.op = "init" /\ d.op = "init" /\ {c.id, d.id} \subseteq orgs =>
      c \in job[d].saw \/ d \in job[c].saw

(* A key may be minted wherever the permission and the mount allow it, and *)
(* "the created key inherits that same narrowing" (create_key,             *)
(* handlers/api_keys.rs).                                                  *)
MintInherits ==
  \A c \in Calls \ overtaken :
    Done(c) /\ c.op = "create_key" => job[c].answer # "internal"
=============================================================================
