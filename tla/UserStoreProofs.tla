--------------------------- MODULE UserStoreProofs ---------------------------
(***************************************************************************)
(* The properties of the user store for every number of requests, ids and  *)
(* shards.                                                                 *)
(*                                                                         *)
(* Every request changes its own job and stage only.  So each action says  *)
(* what becomes of the sets of created and of deleted ids, and the store   *)
(* follows; an id that is being created is in neither, because ids are     *)
(* taken from a counter that never goes back.                              *)
(***************************************************************************)
EXTENDS UserStore, TLAPS

\* One request r is moved on, as job j at stage s; the others stay.
Moves(r, j, s) ==
  /\ job' = [job EXCEPT ![r] = j]
  /\ stage' = [stage EXCEPT ![r] = s]

LEMMA Moved ==
  ASSUME TypeOK, NEW r \in Requests, NEW j, NEW s, Moves(r, j, s)
  PROVE  /\ job'[r] = j /\ stage'[r] = s
         /\ \A q \in Requests \ {r} : job'[q] = job[q] /\ stage'[q] = stage[q]
  BY DEF TypeOK, Moves

\* A request that comes in moves to its first stage, and one that is on its way
\* keeps its job.
LEMMA BeginMoves ==
  ASSUME NEW r, NEW op, NEW id, NEW next, Begin(r, op, id, next)
  PROVE  stage[r] = "new" /\ Moves(r, [op |-> op, id |-> id], next)
  BY DEF Begin, Moves

LEMMA GoesMoves ==
  ASSUME TypeOK, NEW r \in Requests, NEW op, NEW from, NEW to, Goes(r, op, from, to)
  PROVE  /\ job[r].op = op /\ stage[r] = from
         /\ Moves(r, job[r], to)
<1>1. job = [job EXCEPT ![r] = job[r]]
  BY DEF TypeOK
<1>2. QED
  BY <1>1 DEF Goes, Moves

LEMMA TypeMoved ==
  ASSUME TypeOK, NEW r \in Requests, NEW j \in [op : Ops, id : Ids], NEW s \in Stages,
         Moves(r, j, s)
  PROVE  job' \in [Requests -> [op : Ops, id : Ids]] /\ stage' \in [Requests -> Stages]
  BY DEF TypeOK, Moves

\* What a change of the map does to the histories keeps their types.
LEMMA TypeStore ==
  ASSUME TypeOK, NEW ids \in SUBSET Ids, Store(ids)
  PROVE  /\ users' \in SUBSET Ids
         /\ shard' = shard /\ listed' = listed
         /\ steady' \in [Requests -> SUBSET Ids] /\ met' \in [Requests -> SUBSET Ids]
  BY DEF TypeOK, Store

\* An answer of 200 adds the id to those that were confirmed for the operation.
LEMMA ConfirmedMore ==
  ASSUME TypeOK, NEW r \in Requests, NEW j, NEW op, Moves(r, j, "200"),
         stage[r] # "200", j.op = op
  PROVE  Confirmed(op)' = Confirmed(op) \cup {j.id}
<1>1. Answered(op)' = Answered(op) \cup {r} /\ r \notin Answered(op)
  BY Moved DEF Answered
<1>2. \A q \in Answered(op) : job'[q] = job[q]
  BY <1>1, Moved DEF Answered
<1>3. job'[r] = j
  BY Moved
<1>4. QED
  BY <1>1, <1>2, <1>3 DEF Confirmed

\* Whatever else happens to a request confirms nothing.
LEMMA ConfirmedSame ==
  ASSUME TypeOK, NEW r \in Requests, NEW j, NEW s, NEW op, Moves(r, j, s),
         stage[r] # "200", j.op # op \/ s # "200"
  PROVE  Confirmed(op)' = Confirmed(op)
<1>1. Answered(op)' = Answered(op)
  BY Moved DEF Answered
<1>2. \A q \in Answered(op) : job'[q] = job[q]
  BY Moved DEF Answered
<1>3. QED
  BY <1>1, <1>2 DEF Confirmed

-----------------------------------------------------------------------------
(* The invariant is inductive                                              *)

LEMMA IInvInit == Init => IInv
<1> SUFFICES ASSUME Init PROVE IInv
  OBVIOUS
<1>1. Answered("create") = {} /\ Answered("delete") = {}
  BY DEF Init, Answered
<1>2. Created = {} /\ Deleted = {}
  BY <1>1 DEF Created, Deleted, Confirmed
<1>3. TypeOK
  BY UserStoreAssumption DEF Init, TypeOK, Ids, Ops, Stages, Answers
<1>4. StagesFit /\ ListsAgree
  BY DEF Init, StagesFit, ListsAgree
<1>5. IdsTaken /\ IdsUnique /\ StoreMatchesAnswers
  BY <1>1, <1>2 DEF Init, IdsTaken, IdsUnique, StoreMatchesAnswers
<1>6. QED
  BY <1>3, <1>4, <1>5 DEF IInv

LEMMA TypeNext ==
  ASSUME IInv, [Next]_vars
  PROVE  TypeOK'
<1> DEFINE Typed == job' \in [Requests -> [op : Ops, id : Ids]] /\ stage' \in [Requests -> Stages]
           Rest == /\ nextUserId' \in Ids \ {0}
                   /\ users' \in SUBSET Ids
                   /\ shard' \in [Requests -> 1 .. NumShards + 1]
                   /\ listed' \in [Requests -> SUBSET Ids]
                   /\ steady' \in [Requests -> SUBSET Ids]
                   /\ met' \in [Requests -> SUBSET Ids]
<1>t. TypeOK
  BY DEF IInv
<1>0. ASSUME Typed, Rest PROVE TypeOK'
  BY <1>0 DEF TypeOK
<1>c. {"none", "create", "get", "update", "delete", "list", "health"} = Ops
      /\ {"new", "hashing", "updating", "listing", "200", "404", "500"} = Stages
      /\ PathIds \subseteq Ids /\ 0 \in Ids
  BY UserStoreAssumption DEF Ops, Stages, Answers, Ids
<1>b. ASSUME NEW r \in Requests, NEW op \in Ops, NEW id \in Ids, NEW next \in Stages,
             Begin(r, op, id, next)
      PROVE  Typed
  <2>1. [op |-> op, id |-> id] \in [op : Ops, id : Ids]
    OBVIOUS
  <2>2. Moves(r, [op |-> op, id |-> id], next)
    BY <1>b, BeginMoves
  <2>3. QED
    BY <1>t, <2>1, <2>2, TypeMoved
<1>g. ASSUME NEW r \in Requests, NEW op \in Ops, NEW from \in Stages, NEW to \in Stages,
             Goes(r, op, from, to)
      PROVE  Typed
  <2>1. job[r] \in [op : Ops, id : Ids]
    BY <1>t DEF TypeOK
  <2>2. QED
    BY <1>t, <1>g, <2>1, GoesMoves, TypeMoved
<1>1. ASSUME NEW r \in Requests, TakeId(r) PROVE TypeOK'
  <2>1. nextUserId \in Ids /\ nextUserId' \in Ids \ {0}
    BY <1>t, <1>1, UserStoreAssumption DEF TakeId, TypeOK, Ids
  <2>2. Typed
    BY <1>b, <1>c, <1>1, <2>1 DEF TakeId, FreshId
  <2>3. QED
    BY <1>0, <1>1, <1>t, <2>1, <2>2 DEF TakeId, listVars, TypeOK
<1>2. ASSUME NEW r \in Requests, CreateFails(r) \/ UpdateFails(r) \/ EndList(r) PROVE TypeOK'
  <2>1. Typed
    BY <1>g, <1>c, <1>2 DEF CreateFails, UpdateFails, EndList
  <2>2. QED
    BY <1>0, <1>2, <1>t, <2>1 DEF CreateFails, UpdateFails, EndList, listVars, TypeOK
<1>3. ASSUME NEW r \in Requests, InsertUser(r) \/ UpdateUser(r) PROVE TypeOK'
  <2>1. Typed
    BY <1>g, <1>c, <1>3 DEF InsertUser, UpdateUser
  <2>2. users \cup {job[r].id} \in SUBSET Ids /\ users \in SUBSET Ids
    BY <1>t DEF TypeOK
  <2>3. QED
    BY <1>0, <1>3, <1>t, <2>1, <2>2, TypeStore DEF InsertUser, UpdateUser, AfterUpdate, TypeOK
<1>4. ASSUME NEW r \in Requests, NEW u \in PathIds, GetUser(r, u) \/ CloneUser(r, u)
      PROVE  TypeOK'
  <2>1. Typed
    BY <1>b, <1>c, <1>4 DEF GetUser, CloneUser
  <2>2. QED
    BY <1>0, <1>4, <1>t, <2>1 DEF GetUser, CloneUser, listVars, TypeOK
<1>5. ASSUME NEW r \in Requests, NEW u \in PathIds, DeleteUser(r, u) PROVE TypeOK'
  <2>1. Typed
    BY <1>b, <1>c, <1>5 DEF DeleteUser
  <2>2. users \ {u} \in SUBSET Ids
    BY <1>t DEF TypeOK
  <2>3. QED
    BY <1>0, <1>5, <1>t, <2>1, <2>2, TypeStore DEF DeleteUser, TypeOK
<1>6. ASSUME NEW r \in Requests, BeginList(r) \/ Health(r) PROVE TypeOK'
  <2>1. Typed
    BY <1>b, <1>c, <1>6 DEF BeginList, Health
  <2>2. CASE BeginList(r)
    <3>1. steady' \in [Requests -> SUBSET Ids] /\ met' \in [Requests -> SUBSET Ids]
      BY <2>2, <1>t DEF BeginList, TypeOK
    <3>2. QED
      BY <1>0, <2>2, <1>t, <2>1, <3>1 DEF BeginList, TypeOK
  <2>3. CASE Health(r)
    BY <1>0, <2>3, <1>t, <2>1 DEF Health, listVars, TypeOK
  <2>4. QED
    BY <1>6, <2>2, <2>3
<1>7. ASSUME NEW r \in Requests, ListShard(r) PROVE TypeOK'
  <2>1. shard[r] + 1 \in 1 .. NumShards + 1 /\ listed[r] \cup InShard(shard[r]) \in SUBSET Ids
    BY <1>t, <1>7, UserStoreAssumption DEF ListShard, InShard, TypeOK
  <2>2. QED
    BY <1>t, <1>7, <2>1 DEF ListShard, TypeOK
<1>8. ASSUME UNCHANGED vars PROVE TypeOK'
  BY <1>t, <1>8 DEF vars, listVars, TypeOK
<1>9. QED
  BY <1>1, <1>2, <1>3, <1>4, <1>5, <1>6, <1>7, <1>8 DEF Next, Idle

LEMMA StagesNext ==
  ASSUME IInv, [Next]_vars
  PROVE  StagesFit'
<1> USE DEF IInv, TypeOK, StagesFit
<1>1. ASSUME NEW r \in Requests, TakeId(r) \/ CreateFails(r) \/ UpdateFails(r) \/ EndList(r)
      PROVE  StagesFit'
  BY <1>1 DEF TakeId, CreateFails, UpdateFails, EndList, Begin, Goes, listVars
<1>2. ASSUME NEW r \in Requests, InsertUser(r) \/ UpdateUser(r) PROVE StagesFit'
  BY <1>2 DEF InsertUser, UpdateUser, Goes, Store
<1>3. ASSUME NEW r \in Requests, NEW u \in PathIds,
             GetUser(r, u) \/ CloneUser(r, u) \/ DeleteUser(r, u)
      PROVE  StagesFit'
  BY <1>3 DEF GetUser, CloneUser, DeleteUser, Begin, Store, listVars
<1>4. ASSUME NEW r \in Requests, BeginList(r) \/ Health(r) PROVE StagesFit'
  BY <1>4 DEF BeginList, Health, Begin, listVars
<1>5. ASSUME NEW r \in Requests, ListShard(r) PROVE StagesFit'
  BY <1>5 DEF ListShard
<1>6. ASSUME UNCHANGED vars PROVE StagesFit'
  BY <1>6 DEF vars, listVars
<1>7. QED
  BY <1>1, <1>2, <1>3, <1>4, <1>5, <1>6 DEF Next, Idle

\* A list that is not moved keeps what it has, whatever becomes of the map.
LEMMA ListStays ==
  ASSUME TypeOK, NEW q \in Requests, ListAgrees(q), job'[q] = job[q], stage'[q] = stage[q],
         (\E ids \in SUBSET Ids : Store(ids)) \/ UNCHANGED <<users, listVars>>
  PROVE  ListAgrees(q)'
  BY DEF TypeOK, ListAgrees, AllListed, Store, listVars

LEMMA ListsNext ==
  ASSUME IInv, [Next]_vars
  PROVE  ListsAgree'
<1> DEFINE Free == (\E ids \in SUBSET Ids : Store(ids)) \/ UNCHANGED <<users, listVars>>
<1>t. TypeOK /\ StagesFit /\ ListsAgree
  BY DEF IInv
<1>u. users \in SUBSET Ids /\ \A r \in Requests : job[r].id \in Ids
  BY <1>t DEF TypeOK
<1>0. ASSUME NEW r \in Requests, NEW j, NEW s, Moves(r, j, s), j.op # "list", Free
      PROVE  ListsAgree'
  <2>1. ASSUME NEW q \in Requests, job'[q].op = "list" PROVE ListAgrees(q)'
    <3>1. q # r
      BY <1>t, <1>0, <2>1, Moved
    <3>2. job'[q] = job[q] /\ stage'[q] = stage[q]
      BY <1>t, <1>0, <3>1, Moved
    <3>3. ListAgrees(q)
      BY <1>t, <2>1, <3>2 DEF ListsAgree
    <3>4. QED
      BY <1>t, <1>0, <3>2, <3>3, ListStays
  <2>2. QED
    BY <2>1 DEF ListsAgree
<1>b. ASSUME NEW r \in Requests, NEW op, NEW id, NEW next, Begin(r, op, id, next), op # "list", Free
      PROVE  ListsAgree'
  <2>1. Moves(r, [op |-> op, id |-> id], next)
    BY <1>b, BeginMoves
  <2>2. QED
    BY <1>0, <1>b, <2>1
<1>1. ASSUME NEW r \in Requests, TakeId(r) \/ Health(r) PROVE ListsAgree'
  BY <1>b, <1>1 DEF TakeId, Health
<1>2. ASSUME NEW r \in Requests, CreateFails(r) \/ UpdateFails(r) PROVE ListsAgree'
  BY <1>t, <1>0, <1>2, GoesMoves DEF CreateFails, UpdateFails
<1>3. ASSUME NEW r \in Requests, InsertUser(r) \/ UpdateUser(r) PROVE ListsAgree'
  <2>1. Free
    BY <1>u, <1>3 DEF InsertUser, UpdateUser, AfterUpdate
  <2>2. QED
    BY <1>t, <1>0, <1>3, <2>1, GoesMoves DEF InsertUser, UpdateUser
<1>4. ASSUME NEW r \in Requests, NEW u \in PathIds, GetUser(r, u) \/ CloneUser(r, u)
      PROVE  ListsAgree'
  BY <1>b, <1>4 DEF GetUser, CloneUser
<1>5. ASSUME NEW r \in Requests, NEW u \in PathIds, DeleteUser(r, u) PROVE ListsAgree'
  <2>1. Free
    BY <1>u, <1>5 DEF DeleteUser
  <2>2. QED
    BY <1>b, <1>5, <2>1 DEF DeleteUser
<1>6. ASSUME NEW r \in Requests, BeginList(r) PROVE ListsAgree'
  <2>1. stage[r] = "new" /\ Moves(r, [op |-> "list", id |-> 0], "listing")
    BY <1>6, BeginMoves DEF BeginList
  <2>2. shard'[r] = 1 /\ listed'[r] = {} /\ steady'[r] = users /\ met'[r] = users
    BY <1>t, <1>6, <2>1 DEF BeginList, TypeOK, StagesFit
  <2>3. \A u \in users : ~(ShardOf[u] < 1)
    BY <1>u, UserStoreAssumption DEF Ids
  <2>4. stage'[r] = "listing" /\ users' = users
    BY <1>t, <1>6, <2>1, Moved DEF BeginList
  <2>5. ListAgrees(r)'
    BY <2>2, <2>3, <2>4 DEF ListAgrees
  <2>6. ASSUME NEW q \in Requests, q # r, job'[q].op = "list" PROVE ListAgrees(q)'
    <3>1. job'[q] = job[q] /\ stage'[q] = stage[q]
      BY <1>t, <2>1, <2>6, Moved
    <3>2. ListAgrees(q)
      BY <1>t, <2>6, <3>1 DEF ListsAgree
    <3>3. steady'[q] = steady[q] /\ met'[q] = met[q]
      BY <1>t, <1>6, <2>6 DEF BeginList, TypeOK
    <3>4. QED
      BY <1>6, <3>1, <3>2, <3>3 DEF BeginList, ListAgrees, AllListed
  <2>7. QED
    BY <2>5, <2>6 DEF ListsAgree
<1>7. ASSUME NEW r \in Requests, ListShard(r) PROVE ListsAgree'
  <2>1. ASSUME NEW q \in Requests, job'[q].op = "list" PROVE ListAgrees(q)'
    <3>1. job' = job /\ stage' = stage /\ users' = users /\ steady' = steady /\ met' = met
      BY <1>7 DEF ListShard
    <3>2. ListAgrees(q)
      BY <1>t, <2>1, <3>1 DEF ListsAgree
    <3>3. CASE q # r
      <4>1. shard'[q] = shard[q] /\ listed'[q] = listed[q]
        BY <1>t, <1>7, <3>3 DEF ListShard, TypeOK
      <4>2. QED
        BY <3>1, <3>2, <4>1 DEF ListAgrees, AllListed
    <3>4. CASE q = r
      <4>1. stage[r] = "listing" /\ shard[r] \in Nat
        BY <1>t, <1>7 DEF ListShard, TypeOK
      <4>2. shard'[r] = shard[r] + 1 /\ listed'[r] = listed[r] \cup InShard(shard[r])
        BY <1>t, <1>7 DEF ListShard, TypeOK
      <4>3. steady[r] \subseteq users /\ users \subseteq met[r]
        BY <3>2, <3>4, <4>1 DEF ListAgrees
      <4>4. ASSUME NEW u \in steady[r], ShardOf[u] < shard[r] + 1
            PROVE  u \in listed[r] \cup InShard(shard[r])
        <5>1. u \in users /\ ShardOf[u] \in Nat
          BY <1>u, <4>3, UserStoreAssumption DEF Ids
        <5>2. ShardOf[u] < shard[r] \/ ShardOf[u] = shard[r]
          BY <4>1, <4>4, <5>1
        <5>3. QED
          BY <3>2, <3>4, <5>1, <5>2 DEF ListAgrees, InShard
      <4>5. InShard(shard[r]) \subseteq met[r]
        BY <4>3 DEF InShard
      <4>6. QED
        BY <3>1, <3>2, <3>4, <4>1, <4>2, <4>3, <4>4, <4>5 DEF ListAgrees
    <3>5. QED
      BY <3>3, <3>4
  <2>2. QED
    BY <2>1 DEF ListsAgree
<1>8. ASSUME NEW r \in Requests, EndList(r) PROVE ListsAgree'
  <2>1. stage[r] = "listing" /\ Moves(r, job[r], "200")
    BY <1>t, <1>8, GoesMoves DEF EndList
  <2>2. UNCHANGED <<users, shard, listed, steady, met>> /\ AllListed(r)
    BY <1>8 DEF EndList, listVars
  <2>3. ASSUME NEW q \in Requests, job'[q].op = "list" PROVE ListAgrees(q)'
    <3>1. job'[q] = job[q]
      BY <1>t, <2>1, Moved
    <3>2. ListAgrees(q)
      BY <1>t, <2>3, <3>1 DEF ListsAgree
    <3>3. CASE q = r
      <4>1. stage'[q] = "200"
        BY <1>t, <2>1, <3>3, Moved
      <4>2. QED
        BY <2>2, <3>2, <3>3, <4>1 DEF ListAgrees, AllListed
    <3>4. CASE q # r
      <4>1. stage'[q] = stage[q]
        BY <1>t, <2>1, <3>4, Moved
      <4>2. QED
        BY <2>2, <3>2, <4>1 DEF ListAgrees, AllListed
    <3>5. QED
      BY <3>3, <3>4
  <2>4. QED
    BY <2>3 DEF ListsAgree
<1>9. ASSUME UNCHANGED vars PROVE ListsAgree'
  BY <1>t, <1>9 DEF vars, listVars, ListsAgree, ListAgrees, AllListed
<1>10. QED
  BY <1>1, <1>2, <1>3, <1>4, <1>5, <1>6, <1>7, <1>8, <1>9 DEF Next, Idle

-----------------------------------------------------------------------------
(* Ids and answers                                                         *)

IdsOK == IdsTaken /\ IdsUnique /\ StoreMatchesAnswers

\* A step that neither creates nor deletes, nor hands out an id.
LEMMA IdsStay ==
  ASSUME TypeOK, IdsOK, NEW r \in Requests, NEW j, NEW s, Moves(r, j, s), stage[r] # "200",
         j.op = "create" => j = job[r] /\ s # "200",
         j.op = "delete" => s # "200",
         users' = users, nextUserId' = nextUserId
  PROVE  IdsOK'
<1>1. Created' = Created /\ Deleted' = Deleted
  BY ConfirmedSame DEF Created, Deleted
<1>2. \A q \in Requests : job'[q].op = "create" => job'[q] = job[q]
  BY Moved
<1>3. \A q \in Requests : q \in Answered("delete")' => q \in Answered("delete") /\ job'[q] = job[q]
  BY Moved DEF Answered
<1>4. IdsTaken'
  BY <1>1, <1>2 DEF IdsOK, IdsTaken
<1>5. IdsUnique'
  BY <1>2, <1>3 DEF IdsOK, IdsUnique
<1>6. QED
  BY <1>1, <1>4, <1>5 DEF IdsOK, StoreMatchesAnswers

LEMMA IdsTakeId ==
  ASSUME TypeOK, IdsOK, NEW r \in Requests, TakeId(r)
  PROVE  IdsOK'
<1> DEFINE j == [op |-> "create", id |-> nextUserId]
<1>1. stage[r] = "new" /\ Moves(r, j, "hashing")
  BY BeginMoves DEF TakeId, FreshId
<1>2. nextUserId \in Nat /\ nextUserId' = nextUserId + 1 /\ users' = users
  BY DEF TypeOK, Ids, TakeId
<1>3. Created' = Created /\ Deleted' = Deleted
  BY <1>1, ConfirmedSame DEF Created, Deleted
<1>4. job'[r] = j /\ \A q \in Requests \ {r} : job'[q] = job[q]
  BY <1>1, Moved
<1>5. \A q \in Requests \ {r} :
        job[q].op = "create" => job[q].id \in Nat /\ job[q].id < nextUserId
  BY DEF IdsOK, IdsTaken, TypeOK, Ids
<1>6. IdsTaken'
  BY <1>2, <1>3, <1>4, <1>5 DEF IdsOK, IdsTaken
<1>7. Answered("delete")' = Answered("delete") /\ r \notin Answered("delete")
  BY <1>1, Moved DEF Answered
<1>8. IdsUnique'
  <2>1. ASSUME NEW p \in Requests, NEW q \in Requests,
               job'[p].op = "create", job'[q].op = "create", job'[p].id = job'[q].id
        PROVE  p = q
    BY <1>2, <1>4, <1>5, <2>1 DEF IdsOK, IdsUnique
  <2>2. ASSUME NEW p \in Answered("delete")', NEW q \in Answered("delete")',
               job'[p].id = job'[q].id
        PROVE  p = q
    BY <1>4, <1>7, <2>2 DEF IdsOK, IdsUnique, Answered
  <2>3. QED
    BY <2>1, <2>2 DEF IdsUnique
<1>9. QED
  BY <1>2, <1>3, <1>6, <1>8 DEF IdsOK, StoreMatchesAnswers

\* The id of a create that is about to succeed was never confirmed before.
LEMMA IdsInsert ==
  ASSUME TypeOK, StagesFit, IdsOK, NEW r \in Requests, InsertUser(r)
  PROVE  IdsOK'
<1>1. job[r].op = "create" /\ stage[r] = "hashing" /\ Moves(r, job[r], "200")
  BY GoesMoves DEF InsertUser
<1>2. Created' = Created \cup {job[r].id} /\ Deleted' = Deleted
  BY <1>1, ConfirmedMore, ConfirmedSame DEF Created, Deleted
<1>3. users' = users \cup {job[r].id} /\ nextUserId' = nextUserId
  BY DEF InsertUser, Store
<1>4. job[r].id \notin Created
  BY <1>1 DEF IdsOK, IdsUnique, Created, Confirmed, Answered
<1>5. \A q \in Requests : job'[q] = job[q]
  BY <1>1, Moved
<1>6. Answered("delete")' = Answered("delete")
  BY <1>1, <1>5, Moved DEF Answered
<1>7. IdsTaken'
  BY <1>2, <1>3, <1>5 DEF IdsOK, IdsTaken
<1>8. IdsUnique'
  BY <1>5, <1>6 DEF IdsOK, IdsUnique, Answered
<1>9. StoreMatchesAnswers'
  BY <1>2, <1>3, <1>4 DEF IdsOK, IdsTaken, StoreMatchesAnswers
<1>10. QED
  BY <1>7, <1>8, <1>9 DEF IdsOK

\* Only a user that is there is deleted, so that no id is deleted twice.
LEMMA IdsDelete ==
  ASSUME TypeOK, IdsOK, NEW r \in Requests, NEW u \in PathIds, DeleteUser(r, u)
  PROVE  IdsOK'
<1> DEFINE j == [op |-> "delete", id |-> u]
<1>1. /\ stage[r] = "new"
      /\ Moves(r, j, IF u \in users THEN "200" ELSE "404")
      /\ users' = users \ {u} /\ nextUserId' = nextUserId
  BY BeginMoves DEF DeleteUser, Store
<1>2. CASE u \notin users
  <2>1. users' = users /\ Moves(r, j, "404")
    BY <1>1, <1>2
  <2>2. QED
    BY <1>1, <2>1, IdsStay
<1>3. CASE u \in users
  <2>1. Moves(r, j, "200")
    BY <1>1, <1>3
  <2>2. Deleted' = Deleted \cup {u} /\ Created' = Created
    BY <1>1, <2>1, ConfirmedMore, ConfirmedSame DEF Created, Deleted
  <2>3. u \in Created /\ u \notin Deleted
    BY <1>3 DEF IdsOK, StoreMatchesAnswers
  <2>4. job'[r] = j /\ \A q \in Requests \ {r} : job'[q] = job[q] /\ stage'[q] = stage[q]
    BY <2>1, Moved
  <2>5. IdsTaken'
    BY <1>1, <2>2, <2>3, <2>4 DEF IdsOK, IdsTaken
  <2>6. \A q \in Answered("delete")' : q # r => q \in Answered("delete") /\ job'[q].id # u
    BY <2>3, <2>4 DEF Answered, Deleted, Confirmed
  <2>7. IdsUnique'
    <3>1. ASSUME NEW p \in Requests, NEW q \in Requests,
                 job'[p].op = "create", job'[q].op = "create", job'[p].id = job'[q].id
          PROVE  p = q
      BY <2>4, <3>1 DEF IdsOK, IdsUnique
    <3>2. ASSUME NEW p \in Answered("delete")', NEW q \in Answered("delete")',
                 job'[p].id = job'[q].id
          PROVE  p = q
      <4>1. p \in Requests /\ q \in Requests
        BY <3>2 DEF Answered
      <4>2. CASE p # r /\ q # r
        BY <2>4, <2>6, <3>2, <4>1, <4>2 DEF IdsOK, IdsUnique
      <4>3. CASE p = r \/ q = r
        BY <2>4, <2>6, <3>2, <4>3
      <4>4. QED
        BY <4>2, <4>3
    <3>3. QED
      BY <3>1, <3>2 DEF IdsUnique
  <2>8. QED
    BY <1>1, <2>2, <2>3, <2>5, <2>7 DEF IdsOK, StoreMatchesAnswers
<1>4. QED
  BY <1>2, <1>3

LEMMA IdsNext ==
  ASSUME IInv, [Next]_vars
  PROVE  IdsOK'
<1>t. TypeOK /\ StagesFit /\ IdsOK
  BY DEF IInv, IdsOK
<1>1. ASSUME NEW r \in Requests, TakeId(r) PROVE IdsOK'
  BY <1>t, <1>1, IdsTakeId
<1>2. ASSUME NEW r \in Requests, CreateFails(r) \/ UpdateFails(r) \/ EndList(r) PROVE IdsOK'
  <2>1. PICK s \in {"500", "200"} : Moves(r, job[r], s) /\ (job[r].op = "create" => s = "500")
    BY <1>t, <1>2, GoesMoves DEF CreateFails, UpdateFails, EndList
  <2>2. job[r].op \in {"create", "update", "list"} /\ stage[r] # "200"
    BY <1>t, <1>2, GoesMoves DEF CreateFails, UpdateFails, EndList
  <2>3. users' = users /\ nextUserId' = nextUserId
    BY <1>2 DEF CreateFails, UpdateFails, EndList
  <2>4. QED
    BY <1>t, <2>1, <2>2, <2>3, IdsStay
<1>3. ASSUME NEW r \in Requests, InsertUser(r) PROVE IdsOK'
  BY <1>t, <1>3, IdsInsert
<1>4. ASSUME NEW r \in Requests, UpdateUser(r) PROVE IdsOK'
  <2>1. job[r].op = "update" /\ stage[r] = "updating" /\ Moves(r, job[r], "200")
    BY <1>t, <1>4, GoesMoves DEF UpdateUser
  <2>2. users' = users /\ nextUserId' = nextUserId
    BY <1>4 DEF UpdateUser, AfterUpdate, Store
  <2>3. QED
    BY <1>t, <2>1, <2>2, IdsStay
<1>5. ASSUME NEW r \in Requests, NEW op, NEW id, NEW s, Begin(r, op, id, s),
             op \notin {"create", "delete"}, users' = users, nextUserId' = nextUserId
      PROVE  IdsOK'
  <2>1. stage[r] = "new" /\ Moves(r, [op |-> op, id |-> id], s)
    BY <1>5, BeginMoves
  <2>2. QED
    BY <1>t, <1>5, <2>1, IdsStay
<1>6. ASSUME NEW r \in Requests, NEW u \in PathIds, GetUser(r, u) \/ CloneUser(r, u)
      PROVE  IdsOK'
  BY <1>5, <1>6 DEF GetUser, CloneUser
<1>7. ASSUME NEW r \in Requests, NEW u \in PathIds, DeleteUser(r, u) PROVE IdsOK'
  BY <1>t, <1>7, IdsDelete
<1>8. ASSUME NEW r \in Requests, BeginList(r) \/ Health(r) PROVE IdsOK'
  BY <1>5, <1>8 DEF BeginList, Health
<1>9. ASSUME UNCHANGED <<nextUserId, users, job, stage>> PROVE IdsOK'
  BY <1>t, <1>9 DEF IdsOK, IdsTaken, IdsUnique, StoreMatchesAnswers, Created, Deleted,
                    Confirmed, Answered
<1>10. ASSUME NEW r \in Requests, ListShard(r) PROVE IdsOK'
  BY <1>9, <1>10 DEF ListShard
<1>11. QED
  BY <1>1, <1>2, <1>3, <1>4, <1>6, <1>7, <1>8, <1>9, <1>10 DEF Next, Idle, vars

LEMMA IInvHolds == Spec => []IInv
<1>1. IInv /\ [Next]_vars => IInv'
  BY TypeNext, StagesNext, ListsNext, IdsNext DEF IInv, IdsOK
<1>2. QED
  BY <1>1, IInvInit, PTL DEF Spec

-----------------------------------------------------------------------------
(* Theorems                                                                *)

\* The inductive invariant holds, and with it the types of all variables.
THEOREM StoreInvariant == Spec => []IInv
  BY IInvHolds

\* The store holds the users whose creation was confirmed and whose deletion
\* was not: hashing with no lock held, an update that works on a clone and
\* creates that fail lose no user and bring none back.
THEOREM StoreIsWhatWasAnswered == Spec => []StoreMatchesAnswers
<1>1. IInv => StoreMatchesAnswers
  BY DEF IInv
<1>2. QED
  BY <1>1, IInvHolds, PTL

\* Ids are never used twice.
THEOREM NoIdTwice == Spec => []IdsUnique
<1>1. IInv => IdsUnique
  BY DEF IInv
<1>2. QED
  BY <1>1, IInvHolds, PTL

\* A list holds all that stayed and nothing that was never there, whatever the
\* number of shards and however users are spread over them.
THEOREM ListsAreSound == Spec => []ListSound
<1>1. IInv => ListSound
  <2>1. SUFFICES ASSUME IInv, NEW r \in Answered("list")
                 PROVE  steady[r] \subseteq listed[r] /\ listed[r] \subseteq met[r]
    BY DEF ListSound
  <2>2. r \in Requests /\ ListAgrees(r) /\ shard[r] > NumShards
    BY <2>1 DEF Answered, IInv, ListsAgree, ListAgrees, AllListed
  <2>3. ASSUME NEW u \in steady[r] PROVE ShardOf[u] < shard[r]
    <3>1. ShardOf[u] \in 1 .. NumShards /\ shard[r] \in Nat
      BY <2>1, <2>2, UserStoreAssumption DEF IInv, TypeOK, Ids
    <3>2. QED
      BY <2>2, <3>1, UserStoreAssumption
  <2>4. QED
    BY <2>2, <2>3 DEF ListAgrees
<1>2. QED
  BY <1>1, IInvHolds, PTL

=============================================================================
