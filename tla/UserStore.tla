------------------------------ MODULE UserStore -----------------------------
(***************************************************************************)
(* The upstream server of the examples (src/examples/server.rs): a store   *)
(* of users behind HTTP handlers that run at the same time.                *)
(*                                                                         *)
(* What they share is the counter of ids and a DashMap, which locks one    *)
(* shard at a time.  create_user takes an id, hashes the password and only *)
(* then inserts; update_user works on a clone; list_user visits the shards *)
(* one after another.  Everything else is one step.                        *)
(*                                                                         *)
(* A user is its id: no property is about names or timestamps.             *)
(***************************************************************************)
EXTENDS Naturals

CONSTANTS
  Requests,      \* the requests, each made once
  PathIds,       \* ids that clients put into paths
  NumShards,     \* shards of the DashMap
  ShardOf,       \* the shard each id hashes to
  MaxId          \* bound on the ids, 2^64 - 1 in the code

ASSUME UserStoreAssumption ==
  /\ MaxId \in Nat \ {0}
  /\ PathIds \subseteq 0 .. MaxId
  /\ NumShards \in Nat \ {0}
  /\ ShardOf \in [0 .. MaxId -> 1 .. NumShards]

Ids == 0 .. MaxId

VARIABLES
  nextUserId,    \* the AtomicU64
  users,         \* the ids in the DashMap
  job,           \* what each request asks for, and the id that is about
  stage,         \* where it is, or the status it was answered with
  shard,         \* of a list: the shard it visits next
  listed,        \* of a list: the ids collected so far
  steady,        \* history, of a list: users that were there ever since it began
  met            \* history, of a list: users that were there at some time since

listVars == <<shard, listed, steady, met>>
vars == <<nextUserId, users, job, stage, listVars>>

Ops == {"none", "create", "get", "update", "delete", "list", "health"}
Answers == {"200", "404", "500"}
Stages == {"new", "hashing", "updating", "listing"} \cup Answers

Init ==
  /\ nextUserId = 1
  /\ users = {}
  /\ job = [r \in Requests |-> [op |-> "none", id |-> 0]]
  /\ stage = [r \in Requests |-> "new"]
  /\ shard = [r \in Requests |-> 1]
  /\ listed = [r \in Requests |-> {}]
  /\ steady = [r \in Requests |-> {}]
  /\ met = [r \in Requests |-> {}]

-----------------------------------------------------------------------------

\* A request comes in.
Begin(r, op, id, next) ==
  /\ stage[r] = "new"
  /\ job' = [job EXCEPT ![r] = [op |-> op, id |-> id]]
  /\ stage' = [stage EXCEPT ![r] = next]

Goes(r, op, from, to) ==
  /\ job[r].op = op
  /\ stage[r] = from
  /\ stage' = [stage EXCEPT ![r] = to]
  /\ UNCHANGED job

\* The map changes under the lists that are on their way.
Store(ids) ==
  /\ users' = ids
  /\ steady' = [r \in Requests |-> steady[r] \cap ids]
  /\ met' = [r \in Requests |-> IF stage[r] = "listing" THEN met[r] \cup ids ELSE met[r]]
  /\ UNCHANGED <<shard, listed>>

-----------------------------------------------------------------------------
(* create_user                                                             *)

\* Mutant: the id is worked out from what is in the map.
FirstFree == CHOOSE u \in 1 .. nextUserId : u \notin users

\* fetch_add hands out the counter.
FreshId == nextUserId

TakeId(r) ==
  /\ nextUserId < MaxId
  /\ Begin(r, "create", FreshId, "hashing")
  /\ nextUserId' = nextUserId + 1
  /\ UNCHANGED <<users, listVars>>

\* hash_password fails: 500, and the id is lost.
CreateFails(r) ==
  /\ Goes(r, "create", "hashing", "500")
  /\ UNCHANGED <<nextUserId, users, listVars>>

InsertUser(r) ==
  /\ Goes(r, "create", "hashing", "200")
  /\ Store(users \cup {job[r].id})
  /\ UNCHANGED nextUserId

-----------------------------------------------------------------------------
(* get_user_by_id, update_user and delete_user                             *)

GetUser(r, u) ==
  /\ Begin(r, "get", u, IF u \in users THEN "200" ELSE "404")
  /\ UNCHANGED <<nextUserId, users, listVars>>

\* A clone is taken; a user that is not there is an error like any other.
CloneUser(r, u) ==
  /\ Begin(r, "update", u, IF u \in users THEN "updating" ELSE "500")
  /\ UNCHANGED <<nextUserId, users, listVars>>

\* Hashing the new password fails.
UpdateFails(r) ==
  /\ Goes(r, "update", "updating", "500")
  /\ UNCHANGED <<nextUserId, users, listVars>>

\* Mutant: the changed clone is inserted.
CloneStored(r) == users \cup {job[r].id}

\* The changed clone is the answer; it is not put back into the map.
AfterUpdate(r) == users

UpdateUser(r) ==
  /\ Goes(r, "update", "updating", "200")
  /\ Store(AfterUpdate(r))
  /\ UNCHANGED nextUserId

DeleteUser(r, u) ==
  /\ Begin(r, "delete", u, IF u \in users THEN "200" ELSE "404")
  /\ Store(users \ {u})
  /\ UNCHANGED nextUserId

-----------------------------------------------------------------------------
(* list_user and health                                                    *)

BeginList(r) ==
  /\ Begin(r, "list", 0, "listing")
  /\ steady' = [steady EXCEPT ![r] = users]
  /\ met' = [met EXCEPT ![r] = users]
  /\ UNCHANGED <<nextUserId, users, shard, listed>>

InShard(s) == {u \in users : ShardOf[u] = s}

\* A shard is read under its lock.
ListShard(r) ==
  /\ stage[r] = "listing"
  /\ shard[r] <= NumShards
  /\ listed' = [listed EXCEPT ![r] = @ \cup InShard(shard[r])]
  /\ shard' = [shard EXCEPT ![r] = @ + 1]
  /\ UNCHANGED <<nextUserId, users, job, stage, steady, met>>

\* Mutant: the last shard is not visited.
AllButOneListed(r) == shard[r] >= NumShards

AllListed(r) == shard[r] > NumShards

EndList(r) ==
  /\ AllListed(r)
  /\ Goes(r, "list", "listing", "200")
  /\ UNCHANGED <<nextUserId, users, listVars>>

Health(r) ==
  /\ Begin(r, "health", 0, "200")
  /\ UNCHANGED <<nextUserId, users, listVars>>

-----------------------------------------------------------------------------

\* Every request was answered.
Idle == (\A r \in Requests : stage[r] \in Answers) /\ UNCHANGED vars

Next ==
  \/ \E r \in Requests :
       \/ TakeId(r) \/ CreateFails(r) \/ InsertUser(r)
       \/ \E u \in PathIds : GetUser(r, u) \/ CloneUser(r, u) \/ DeleteUser(r, u)
       \/ UpdateFails(r) \/ UpdateUser(r)
       \/ BeginList(r) \/ ListShard(r) \/ EndList(r)
       \/ Health(r)
  \/ Idle

Spec == Init /\ [][Next]_vars

-----------------------------------------------------------------------------
(* Properties                                                              *)

TypeOK ==
  /\ nextUserId \in Ids \ {0}
  /\ users \in SUBSET Ids
  /\ job \in [Requests -> [op : Ops, id : Ids]]
  /\ stage \in [Requests -> Stages]
  /\ shard \in [Requests -> 1 .. NumShards + 1]
  /\ listed \in [Requests -> SUBSET Ids]
  /\ steady \in [Requests -> SUBSET Ids]
  /\ met \in [Requests -> SUBSET Ids]

Answered(op) == {r \in Requests : job[r].op = op /\ stage[r] = "200"}
Confirmed(op) == {job[r].id : r \in Answered(op)}
Created == Confirmed("create")
Deleted == Confirmed("delete")

\* The store holds exactly the users whose creation was confirmed and whose
\* deletion was not, whatever happens at the same time: no user of a create
\* that failed, none that an update brought back after its deletion, and none
\* is lost.
StoreMatchesAnswers == users = Created \ Deleted

\* No two creates get the same id, not even after the first user was deleted
\* or its creation failed, and a user is deleted at most once.
IdsUnique ==
  \A r, q \in Requests :
    /\ job[r].op = "create" /\ job[q].op = "create" /\ job[r].id = job[q].id => r = q
    /\ {r, q} \subseteq Answered("delete") /\ job[r].id = job[q].id => r = q

\* A list is not a snapshot, but it holds every user that was there the whole
\* time and none that was there at no time while it was collected.
ListSound ==
  \A r \in Answered("list") : steady[r] \subseteq listed[r] /\ listed[r] \subseteq met[r]

-----------------------------------------------------------------------------
(* The inductive invariant                                                 *)

\* What a request is at is a stage of what it asks for; no list was begun
\* before it came.
StagesFit ==
  \A r \in Requests :
    /\ stage[r] = "new" <=> job[r].op = "none"
    /\ stage[r] = "new" => shard[r] = 1 /\ listed[r] = {}
    /\ stage[r] = "hashing" => job[r].op = "create"
    /\ stage[r] = "updating" => job[r].op = "update"
    /\ stage[r] = "listing" => job[r].op = "list"

\* Ids that were handed out are below the counter, and whoever was deleted had
\* been there.
IdsTaken ==
  /\ \A r \in Requests : job[r].op = "create" => job[r].id < nextUserId
  /\ Deleted \subseteq Created

\* A list holds at least what stayed in the shards it has visited.
ListAgrees(r) ==
  /\ {u \in steady[r] : ShardOf[u] < shard[r]} \subseteq listed[r]
  /\ listed[r] \subseteq met[r]
  /\ stage[r] = "listing" => steady[r] \subseteq users /\ users \subseteq met[r]
  /\ stage[r] # "listing" => AllListed(r)

ListsAgree == \A r \in Requests : job[r].op = "list" => ListAgrees(r)

\* The inductive invariant behind the three properties: the store is what the
\* answers say also because no id that is being created was used before.
IInv == TypeOK /\ StagesFit /\ IdsTaken /\ IdsUnique /\ StoreMatchesAnswers /\ ListsAgree

=============================================================================
