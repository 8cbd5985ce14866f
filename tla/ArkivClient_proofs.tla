-------------------------- MODULE ArkivClient_proofs ---------------------------
(* Theorems about ArkivClient, for any tasks, addresses and chains, any         *)
(* numbers of entries and any number of operations and calls: the registry,    *)
(* the queues of the workers, the blocks of the node and the answers.          *)
EXTENDS ArkivClient, FiniteSetTheorems, TLAPS

PCs == {"idle", "validating", "listing", "syncing", "checking", "inserting", "sending", "waiting"}
Ops == {"register", "load", "sync", "create", "remove", None}

(* What a task can be; CallOf says which worker and which call. *)
Jobs(S) ==
    [pc : PCs, op : Ops, address : Addresses \union {None}, chain : Chains \union {None},
     listed : SUBSET Addresses, worker : S, call : S]

(* A task that is past the check has the chain it checked. *)
Sound(r) ==
    /\ IsFiniteSet(r.listed)
    /\ r.pc \in {"validating", "listing", "syncing", "checking", "inserting"} =>
        r.op = "sync" \/ r.address \in Addresses
    /\ r.pc = "inserting" => r.op = "register"
    /\ r.pc = "checking" => r.op = "load"
    /\ r.pc \in {"listing", "syncing", "inserting"} =>
        r.chain \in Chains /\ Configured \in {r.chain, None}

TaskInv ==
    /\ \E S : task \in [Tasks -> Jobs(S)]
    /\ \A t \in Tasks : Sound(task[t])

(* Every account is of the configured chain. *)
RegistryInv ==
    /\ chain \in Chains
    /\ managed \in SUBSET Addresses /\ IsFiniteSet(managed)
    /\ workers \in Seq(Workers)
    /\ accounts \in [Addresses -> 0 .. Len(workers)]
    /\ \A w \in 1 .. Len(workers) : Configured \in {workers[w].chain, None}

RInv == TaskInv /\ RegistryInv

LEMMA IdleSound == Idle.pc = "idle" /\ Sound(Idle) /\ \E S : Idle \in Jobs(S)
<1>1. Idle \in Jobs({0}) /\ Idle.pc = "idle" /\ Idle.listed = {}
  BY DEF Idle, Jobs, PCs, Ops
<1>2. Sound(Idle)
  BY <1>1, FS_EmptySet DEF Sound
<1> QED
  BY <1>1, <1>2

LEMMA InitRInv == Init => RInv
<1> SUFFICES ASSUME Init PROVE RInv
  OBVIOUS
<1>1. TaskInv
  <2>1. PICK S : Idle \in Jobs(S)
    BY IdleSound
  <2>2. task \in [Tasks -> Jobs(S)]
    BY <2>1 DEF Init
  <2>3. \A t \in Tasks : task[t] = Idle
    BY DEF Init
  <2> QED
    BY <2>2, <2>3, IdleSound DEF TaskInv
<1>2. RegistryInv
  BY FS_EmptySet DEF Init, RegistryInv
<1> QED
  BY <1>1, <1>2 DEF RInv

--------------------------------------------------------------------------------
(* Tasks *)

LEMMA JobsGrow ==
    ASSUME NEW S, NEW T, S \subseteq T
    PROVE  Jobs(S) \subseteq Jobs(T)
  BY DEF Jobs

(* One task changes. *)
LEMMA TaskStep ==
    ASSUME TaskInv, NEW t, NEW r, task' = [task EXCEPT ![t] = r],
           t \in Tasks => Sound(r) /\ \E S : r \in Jobs(S)
    PROVE  TaskInv'
<1>1. PICK S : task \in [Tasks -> Jobs(S)]
  BY DEF TaskInv
<1>2. CASE t \in Tasks
  <2>1. PICK T : r \in Jobs(T)
    BY <1>2
  <2>2. r \in Jobs(S \union T) /\ Jobs(S) \subseteq Jobs(S \union T)
    BY <2>1, JobsGrow
  <2>3. task' \in [Tasks -> Jobs(S \union T)]
    BY <1>1, <1>2, <2>2
  <2>4. \A u \in Tasks : task'[u] = IF u = t THEN r ELSE task[u]
    BY <1>1
  <2> QED
    BY <1>2, <2>3, <2>4 DEF TaskInv
<1>3. CASE t \notin Tasks
  <2>1. task' \in [Tasks -> Jobs(S)] /\ \A u \in Tasks : task'[u] = task[u]
    BY <1>1, <1>3
  <2> QED
    BY <2>1 DEF TaskInv
<1> QED
  BY <1>2, <1>3

LEMMA ReturnStep ==
    ASSUME TaskInv, NEW t, Return(t)
    PROVE  TaskInv'
  BY IdleSound, TaskStep DEF Return

(* An operation starts, with an address unless it is a sync. *)
LEMMA StartStep ==
    ASSUME TaskInv, NEW t \in Tasks, NEW op \in {"register", "load", "sync"},
           NEW a \in Addresses \union {None}, op = "sync" \/ a \in Addresses,
           task' = [task EXCEPT ![t] = [Idle EXCEPT !.pc = "validating", !.op = op, !.address = a]]
    PROVE  TaskInv'
<1> DEFINE r == [Idle EXCEPT !.pc = "validating", !.op = op, !.address = a]
<1>1. r \in Jobs({0})
  BY DEF Idle, Jobs, PCs, Ops
<1>2. r.pc = "validating" /\ r.op = op /\ r.address = a /\ r.listed = {}
  BY DEF Idle
<1> HIDE DEF r
<1>3. Sound(r)
  BY <1>2, FS_EmptySet DEF Sound
<1> QED
  BY <1>1, <1>3, TaskStep DEF r

LEMMA ValidateStep ==
    ASSUME RInv, NEW t \in Tasks, ValidateChain(t)
    PROVE  TaskInv'
<1> DEFINE pc == IF task[t].op = "register" THEN "inserting" ELSE "listing"
           r == [task[t] EXCEPT !.chain = chain, !.pc = pc]
<1>1. PICK S : task \in [Tasks -> Jobs(S)]
  BY DEF RInv, TaskInv
<1>2. task[t] \in Jobs(S) /\ Sound(task[t]) /\ chain \in Chains /\ Configured \in {chain, None}
      /\ task[t].pc = "validating"
  BY <1>1 DEF RInv, RegistryInv, TaskInv, ValidateChain
<1>3. pc \in PCs /\ pc \in {"inserting", "listing"} /\ (pc = "inserting" => task[t].op = "register")
  BY DEF PCs
<1>4. task' = [task EXCEPT ![t] = r]
  BY DEF ValidateChain
<1> HIDE DEF pc
<1>5. r \in Jobs(S)
  BY <1>2, <1>3 DEF Jobs
<1>6. /\ r.pc = pc /\ r.chain = chain /\ r.op = task[t].op
      /\ r.address = task[t].address /\ r.listed = task[t].listed
  BY <1>2 DEF Jobs
<1> HIDE DEF r
<1>7. Sound(r)
  BY <1>2, <1>3, <1>6 DEF Sound
<1> QED
  BY <1>4, <1>5, <1>7, TaskStep DEF RInv

LEMMA ListStep ==
    ASSUME RInv, NEW t \in Tasks, ListAccounts(t)
    PROVE  TaskInv'
<1> DEFINE r == [task[t] EXCEPT !.pc = "syncing", !.listed = managed]
<1>1. PICK S : task \in [Tasks -> Jobs(S)]
  BY DEF RInv, TaskInv
<1>2. task[t] \in Jobs(S) /\ Sound(task[t]) /\ managed \in SUBSET Addresses
      /\ IsFiniteSet(managed) /\ task[t].pc = "listing"
  BY <1>1 DEF RInv, RegistryInv, TaskInv, ListAccounts
<1>3. task' = [task EXCEPT ![t] = r]
  BY DEF ListAccounts
<1>4. r \in Jobs(S)
  BY <1>2 DEF Jobs, PCs
<1>5. /\ r.pc = "syncing" /\ r.listed = managed /\ r.op = task[t].op
      /\ r.address = task[t].address /\ r.chain = task[t].chain
  BY <1>2 DEF Jobs
<1> HIDE DEF r
<1>6. Sound(r)
  BY <1>2, <1>5 DEF Sound
<1> QED
  BY <1>3, <1>4, <1>6, TaskStep DEF RInv

LEMMA SyncStep ==
    ASSUME RInv, NEW t \in Tasks, SyncInsert(t)
    PROVE  TaskInv'
<1> DEFINE r == [task[t] EXCEPT !.pc = "checking"]
<1>1. PICK S : task \in [Tasks -> Jobs(S)]
  BY DEF RInv, TaskInv
<1>2. task[t] \in Jobs(S) /\ Sound(task[t]) /\ task[t].pc = "syncing"
  BY <1>1 DEF RInv, TaskInv, SyncInsert
<1>3. task' = [task EXCEPT ![t] = IF task[t].op = "load" THEN r ELSE Idle]
  BY DEF SyncInsert
<1>4. r \in Jobs(S)
  BY <1>2 DEF Jobs, PCs
<1>5. /\ r.pc = "checking" /\ r.listed = task[t].listed /\ r.op = task[t].op
      /\ r.address = task[t].address /\ r.chain = task[t].chain
  BY <1>2 DEF Jobs
<1> HIDE DEF r
<1>6. task[t].op = "load" => Sound(r)
  BY <1>2, <1>5 DEF Sound
<1>7. CASE task[t].op = "load"
  BY <1>3, <1>4, <1>6, <1>7, TaskStep DEF RInv
<1>8. CASE task[t].op # "load"
  BY <1>3, <1>8, IdleSound, TaskStep DEF RInv
<1> QED
  BY <1>7, <1>8

LEMMA CheckStep ==
    ASSUME RInv, NEW t \in Tasks, CheckLoaded(t)
    PROVE  TaskInv'
<1>1. Sound(task[t]) /\ task[t].pc = "checking"
  BY DEF RInv, TaskInv, CheckLoaded
<1>2. task[t].address \in Addresses
  BY <1>1 DEF Sound
<1>3. CASE Return(t)
  BY <1>3, ReturnStep DEF RInv
<1>4. CASE task' = [task EXCEPT ![t] = [Idle EXCEPT !.pc = "validating", !.op = "register",
                                                    !.address = task[t].address]]
  BY <1>2, <1>4, StartStep DEF RInv
<1> QED
  BY <1>3, <1>4 DEF CheckLoaded

LEMMA CallStep ==
    ASSUME RInv, NEW t \in Tasks, NEW a, NEW op \in {"create", "remove"}, NEW keys,
           StartCall(t, a, op, keys)
    PROVE  TaskInv'
<1> DEFINE n == Len(requests) + 1
           w == accounts[a]
           r == [Idle EXCEPT !.pc = "sending", !.op = op, !.worker = w, !.call = n]
<1>1. task' = [task EXCEPT ![t] = r]
  BY DEF StartCall
<1> HIDE DEF n, w
<1>2. r \in Jobs({w, n})
  BY DEF Idle, Jobs, PCs, Ops
<1>3. r.pc = "sending" /\ r.listed = {}
  BY DEF Idle
<1> HIDE DEF r
<1>4. Sound(r)
  BY <1>3, FS_EmptySet DEF Sound
<1> QED
  BY <1>1, <1>2, <1>4, TaskStep DEF RInv

LEMMA WaitStep ==
    ASSUME RInv, NEW t \in Tasks, task[t].pc = "sending", Become(t, "waiting")
    PROVE  TaskInv'
<1> DEFINE r == [task[t] EXCEPT !.pc = "waiting"]
<1>1. PICK S : task \in [Tasks -> Jobs(S)]
  BY DEF RInv, TaskInv
<1>2. task[t] \in Jobs(S) /\ Sound(task[t])
  BY <1>1 DEF RInv, TaskInv
<1>3. task' = [task EXCEPT ![t] = r]
  BY DEF Become
<1>4. r \in Jobs(S)
  BY <1>2 DEF Jobs, PCs
<1>5. r.pc = "waiting" /\ r.listed = task[t].listed
  BY <1>2 DEF Jobs
<1> HIDE DEF r
<1>6. Sound(r)
  BY <1>2, <1>5 DEF Sound
<1> QED
  BY <1>3, <1>4, <1>6, TaskStep DEF RInv

--------------------------------------------------------------------------------
(* Workers *)

(* No worker is added, and none gets another address, signer or chain. *)
SameWorkers ==
    /\ workers' \in Seq(Workers)
    /\ Len(workers') = Len(workers)
    /\ \A w \in 1 .. Len(workers) :
        /\ workers'[w].signer = workers[w].signer /\ workers'[w].chain = workers[w].chain
        /\ workers'[w].address = workers[w].address

Alike(v, w) == v.signer = w.signer /\ v.chain = w.chain /\ v.address = w.address

LEMMA OneWorker ==
    ASSUME workers \in Seq(Workers), NEW w, NEW r, workers' = [workers EXCEPT ![w] = r],
           w \in 1 .. Len(workers) =>
              r \in Workers /\ Alike(r, workers[w])
    PROVE  SameWorkers
<1>1. CASE w \in 1 .. Len(workers)
  <2>1. r \in Workers
    BY <1>1
  <2>2. workers' \in Seq(Workers) /\ Len(workers') = Len(workers)
    BY <1>1, <2>1
  <2>3. \A v \in 1 .. Len(workers) : workers'[v] = IF v = w THEN r ELSE workers[v]
    BY <1>1
  <2> QED
    BY <1>1, <2>2, <2>3 DEF SameWorkers, Alike
<1>2. CASE w \notin 1 .. Len(workers)
  <2>1. workers' = workers
    BY <1>2
  <2> QED
    BY <2>1 DEF SameWorkers
<1> QED
  BY <1>1, <1>2

(* A task is added to a queue, or the first one taken. *)
LEMMA QueueStep ==
    ASSUME workers \in Seq(Workers), NEW t \in Tasks, NEW w,
           workers' = [workers EXCEPT ![w].queue = Append(@, t)]
    PROVE  SameWorkers
<1> DEFINE q == Append(workers[w].queue, t)
           r == [workers[w] EXCEPT !.queue = q]
<1>1. workers' = [workers EXCEPT ![w] = r]
  OBVIOUS
<1>2. ASSUME w \in 1 .. Len(workers)
      PROVE  r \in Workers /\ Alike(r, workers[w])
  <2>1. workers[w] \in Workers
    BY <1>2
  <2>2. workers[w].queue \in Seq(Tasks)
    BY <2>1 DEF Workers
  <2>3. q \in Seq(Tasks)
    BY <2>2
  <2> HIDE DEF q
  <2> QED
    BY <2>1, <2>3 DEF Workers, Alike
<1> HIDE DEF r
<1> QED
  BY <1>1, <1>2, OneWorker

LEMMA FinishStep ==
    ASSUME RInv, NEW w \in DOMAIN workers, Working(w), NEW answer, Finish(w, answer)
    PROVE  SameWorkers /\ TaskInv'
<1> DEFINE q == Tail(workers[w].queue)
           r == [workers[w] EXCEPT !.queue = q]
<1>1. workers \in Seq(Workers) /\ w \in 1 .. Len(workers)
  BY DEF RInv, RegistryInv
<1>2. workers' = [workers EXCEPT ![w] = r]
  BY DEF Finish
<1>3. workers[w] \in Workers
  BY <1>1
<1>4. workers[w].queue \in Seq(Tasks) /\ workers[w].queue # <<>>
  BY <1>3 DEF Workers, Working
<1>5. q \in Seq(Tasks)
  BY <1>4
<1> HIDE DEF q
<1>6. r \in Workers /\ Alike(r, workers[w])
  BY <1>3, <1>5 DEF Workers, Alike
<1> HIDE DEF r
<1>7. SameWorkers
  BY <1>1, <1>2, <1>6, OneWorker
<1>8. TaskInv'
  BY ReturnStep DEF RInv, Finish, Answered
<1> QED
  BY <1>7, <1>8

LEMMA PanicStep ==
    ASSUME RInv, NEW w \in DOMAIN workers, SignerPanics(w)
    PROVE  SameWorkers /\ TaskInv'
<1> DEFINE r == [workers[w] EXCEPT !.alive = FALSE, !.queue = <<>>]
           lost == ToSet(workers[w].queue)
<1>1. workers \in Seq(Workers) /\ w \in 1 .. Len(workers)
  BY DEF RInv, RegistryInv
<1>2. workers' = [workers EXCEPT ![w] = r]
  BY DEF SignerPanics
<1>3. workers[w] \in Workers
  BY <1>1
<1>4. r \in Workers /\ Alike(r, workers[w])
  <2>1. <<>> \in Seq(Tasks) /\ FALSE \in BOOLEAN
    OBVIOUS
  <2>2. r \in Workers
    BY <1>3, <2>1 DEF Workers
  <2>3. r.signer = workers[w].signer
    BY <1>3 DEF Workers
  <2>4. r.chain = workers[w].chain /\ r.address = workers[w].address
    BY <1>3 DEF Workers
  <2> HIDE DEF r
  <2> QED
    BY <2>2, <2>3, <2>4 DEF Alike
<1>5. task' = [t \in Tasks |-> IF t \in lost THEN Idle ELSE task[t]]
  BY DEF SignerPanics
<1> HIDE DEF r, lost
<1>6. SameWorkers
  BY <1>1, <1>2, <1>4, OneWorker
<1>7. PICK S : task \in [Tasks -> Jobs(S)]
  BY DEF RInv, TaskInv
<1>8. PICK T : Idle \in Jobs(T)
  BY IdleSound
<1>9. Idle \in Jobs(S \union T) /\ Jobs(S) \subseteq Jobs(S \union T)
  BY <1>8, JobsGrow
<1>10. task' \in [Tasks -> Jobs(S \union T)]
  BY <1>5, <1>7, <1>9
<1>11. \A t \in Tasks : Sound(task'[t])
  BY <1>5, IdleSound DEF RInv, TaskInv
<1> QED
  BY <1>6, <1>10, <1>11 DEF TaskInv

(* The worker behind an address that has one stays, or is replaced by one of  *)
(* the user; new workers are of the configured chain.                        *)
Kept ==
    /\ workers' \in Seq(Workers)
    /\ accounts' \in [Addresses -> 0 .. Len(workers')]
    /\ \A w \in 1 .. Len(workers') : Configured \in {workers'[w].chain, None}
    /\ \A a \in Addresses :
        accounts[a] # 0 /\ workers[accounts[a]].signer = "user" =>
            accounts'[a] # 0 /\ workers'[accounts'[a]].signer = "user"

LEMMA SameKept ==
    ASSUME RegistryInv, SameWorkers, UNCHANGED accounts
    PROVE  Kept
<1>1. \A a \in Addresses : accounts[a] \in 0 .. Len(workers)
  BY DEF RegistryInv
<1>2. Len(workers) \in Nat
  BY DEF RegistryInv
<1> QED
  BY <1>1, <1>2 DEF RegistryInv, SameWorkers, Kept

LEMMA Joined ==
    ASSUME NEW S, NEW s \in Seq(S), NEW u \in Seq(S)
    PROVE  /\ s \o u \in Seq(S) /\ Len(s \o u) = Len(s) + Len(u)
           /\ \A i \in 1 .. Len(s) : (s \o u)[i] = s[i]
           /\ \A i \in Len(s) + 1 .. Len(s) + Len(u) : (s \o u)[i] = u[i - Len(s)]
  OBVIOUS

Fresh(w, signer, c) == w.signer = signer /\ w.chain = c /\ w.queue = <<>>

(* accounts.insert adds a worker for each address and leaves the others. *)
LEMMA InsertFacts ==
    ASSUME RegistryInv, NEW as \in SUBSET Addresses, IsFiniteSet(as), NEW signer \in Signers,
           NEW c \in Chains, Insert(as, signer, c)
    PROVE  /\ workers' \in Seq(Workers) /\ Len(workers') >= Len(workers)
           /\ accounts' \in [Addresses -> 0 .. Len(workers')]
           /\ \A w \in 1 .. Len(workers) : workers'[w] = workers[w]
           /\ \A w \in Len(workers) + 1 .. Len(workers') : Fresh(workers'[w], signer, c)
           /\ \A a \in as : /\ accounts'[a] \in Len(workers) + 1 .. Len(workers')
                            /\ workers'[accounts'[a]].address = a
           /\ \A a \in Addresses \ as : accounts'[a] = accounts[a]
<1>1. PICK order \in SetToSeqs(as) :
        /\ workers' = workers \o [j \in DOMAIN order |-> NewAccount(order[j], signer, c)]
        /\ accounts' = [a \in Addresses |->
                IF a \in as THEN Len(workers) + CHOOSE j \in DOMAIN order : order[j] = a
                            ELSE accounts[a]]
  BY DEF Insert
<1> DEFINE n == Cardinality(as)
           new == [j \in DOMAIN order |-> NewAccount(order[j], signer, c)]
           old == Len(workers)
           place(a) == CHOOSE j \in DOMAIN order : order[j] = a
<1> HIDE DEF n, new, old, place
<1>2. n \in Nat
  BY FS_CardinalityType DEF n
<1>3. order \in Injection(1 .. n, as)
  BY DEF SetToSeqs, Injection, IsInjective, n
<1>4. IsFiniteSet(1 .. n) /\ Cardinality(1 .. n) = n
  BY <1>2, FS_Interval
<1>5. order \in Surjection(1 .. n, as)
  BY <1>2, <1>3, <1>4, FS_Injection DEF n
<1>6. order \in [1 .. n -> as] /\ DOMAIN order = 1 .. n
  BY <1>3 DEF Injection
<1>7. \A a \in as : \E j \in DOMAIN order : order[j] = a
  BY <1>5, <1>6 DEF Surjection
<1>8. \A a \in as : place(a) \in 1 .. n /\ order[place(a)] = a
  BY <1>6, <1>7 DEF place
<1>9. \A j \in 1 .. n : /\ NewAccount(order[j], signer, c) \in Workers
                        /\ Fresh(NewAccount(order[j], signer, c), signer, c)
                        /\ NewAccount(order[j], signer, c).address = order[j]
  <2> TAKE j \in 1 .. n
  <2>1. order[j] \in Addresses
    BY <1>6
  <2>2. <<>> \in Seq(Tasks)
    OBVIOUS
  <2> QED
    BY <2>1, <2>2 DEF NewAccount, Workers, Fresh
<1>10. /\ new \in Seq(Workers) /\ Len(new) = n
       /\ \A j \in 1 .. n : Fresh(new[j], signer, c) /\ new[j].address = order[j]
  <2>1. new \in [1 .. n -> Workers] /\ \A j \in 1 .. n : new[j] = NewAccount(order[j], signer, c)
    BY <1>6, <1>9 DEF new
  <2>2. \A j \in 1 .. n : Fresh(new[j], signer, c) /\ new[j].address = order[j]
    BY <1>9, <2>1
  <2>3. new \in Seq(Workers) /\ Len(new) = n
    BY <1>2, <2>1
  <2> QED
    BY <2>2, <2>3
<1>11. workers' = workers \o new
  BY <1>1 DEF new
<1>a. \A a \in Addresses : accounts'[a] = IF a \in as THEN old + place(a) ELSE accounts[a]
  BY <1>1 DEF place, old
<1>d. accounts' = [a \in Addresses |-> accounts'[a]]
  BY <1>1
<1>12. workers \in Seq(Workers) /\ old \in Nat /\ old = Len(workers)
       /\ accounts \in [Addresses -> 0 .. old]
  BY DEF RegistryInv, old
<1>13. workers' \in Seq(Workers) /\ Len(workers') = old + n
  <2>1. Len(new) = n
    BY <1>10
  <2> QED
    BY <1>10, <1>11, <1>12, <2>1, Joined
<1>14. \A w \in 1 .. old : workers'[w] = workers[w]
  BY <1>10, <1>11, <1>12, Joined
<1>n. \A w \in old + 1 .. old + n : workers'[w] = new[w - old] /\ w - old \in 1 .. n
  BY <1>2, <1>10, <1>11, <1>12
<1>15. \A w \in old + 1 .. old + n : Fresh(workers'[w], signer, c)
  BY <1>10, <1>n
<1>16. \A a \in as : accounts'[a] \in old + 1 .. old + n /\ workers'[accounts'[a]].address = a
  <2> TAKE a \in as
  <2>1. accounts'[a] = old + place(a)
    BY <1>a
  <2>2. place(a) \in 1 .. n
    BY <1>8
  <2>3. accounts'[a] \in old + 1 .. old + n /\ accounts'[a] - old = place(a)
    BY <1>2, <1>12, <2>1, <2>2
  <2>4. order[place(a)] = a
    BY <1>8
  <2> QED
    BY <1>10, <1>n, <2>2, <2>3, <2>4
<1>17. \A a \in Addresses : accounts'[a] \in 0 .. old + n
  <2> TAKE a \in Addresses
  <2>1. CASE a \in as
    <3>1. accounts'[a] \in old + 1 .. old + n
      BY <1>16, <2>1
    <3> QED
      BY <1>2, <1>12, <3>1
  <2>2. CASE a \notin as
    <3>1. accounts'[a] \in 0 .. old
      BY <1>a, <1>12, <2>2
    <3> QED
      BY <1>2, <1>12, <3>1
  <2> QED
    BY <2>1, <2>2
<1>18. accounts' \in [Addresses -> 0 .. Len(workers')]
  BY <1>d, <1>13, <1>17
<1>19. \A a \in Addresses \ as : accounts'[a] = accounts[a]
  BY <1>a
<1>20. old + n >= old
  BY <1>2, <1>12
<1> QED
  BY <1>12, <1>13, <1>14, <1>15, <1>16, <1>18, <1>19, <1>20

LEMMA InsertKept ==
    ASSUME RegistryInv, NEW as \in SUBSET Addresses, IsFiniteSet(as), NEW signer \in Signers,
           NEW c \in Chains, Configured \in {c, None}, Insert(as, signer, c),
           signer = "user" \/ \A a \in as : accounts[a] = 0
    PROVE  Kept
<1>1. /\ workers' \in Seq(Workers) /\ Len(workers') >= Len(workers)
      /\ accounts' \in [Addresses -> 0 .. Len(workers')]
      /\ \A w \in 1 .. Len(workers) : workers'[w] = workers[w]
      /\ \A w \in Len(workers) + 1 .. Len(workers') : Fresh(workers'[w], signer, c)
      /\ \A a \in as : accounts'[a] \in Len(workers) + 1 .. Len(workers')
      /\ \A a \in Addresses \ as : accounts'[a] = accounts[a]
  BY InsertFacts
<1>2. Len(workers) \in Nat /\ Len(workers') \in Nat /\ accounts \in [Addresses -> 0 .. Len(workers)]
  BY <1>1 DEF RegistryInv
<1>3. \A w \in 1 .. Len(workers') : Configured \in {workers'[w].chain, None}
  <2> SUFFICES ASSUME NEW w \in 1 .. Len(workers')
               PROVE  Configured \in {workers'[w].chain, None}
    OBVIOUS
  <2>1. w \in 1 .. Len(workers) \/ w \in Len(workers) + 1 .. Len(workers')
    BY <1>2
  <2> QED
    BY <1>1, <2>1 DEF RegistryInv, Fresh
<1>4. ASSUME NEW a \in Addresses, accounts[a] # 0, workers[accounts[a]].signer = "user"
      PROVE  accounts'[a] # 0 /\ workers'[accounts'[a]].signer = "user"
  <2>1. CASE a \in as
    <3>1. accounts'[a] \in Len(workers) + 1 .. Len(workers')
      BY <1>1, <2>1
    <3>2. workers'[accounts'[a]].signer = signer
      BY <1>1, <3>1 DEF Fresh
    <3>3. signer = "user"
      BY <1>4, <2>1
    <3> QED
      BY <1>2, <3>1, <3>2, <3>3
  <2>2. CASE a \notin as
    <3>1. accounts'[a] = accounts[a] /\ accounts[a] \in 1 .. Len(workers)
      <4>1. accounts'[a] = accounts[a]
        BY <1>1, <2>2
      <4>2. accounts[a] \in 0 .. Len(workers) /\ accounts[a] # 0
        BY <1>2, <1>4
      <4> QED
        BY <1>2, <4>1, <4>2
    <3> QED
      BY <1>1, <1>4, <3>1
  <2> QED
    BY <2>1, <2>2
<1> QED
  BY <1>1, <1>3, <1>4 DEF Kept

--------------------------------------------------------------------------------
(* Every step *)

LEMMA StepKept == RInv /\ [Next]_vars => TaskInv' /\ Kept
<1> SUFFICES ASSUME RInv, [Next]_vars PROVE TaskInv' /\ Kept
  OBVIOUS
<1>0. TaskInv /\ RegistryInv /\ workers \in Seq(Workers)
  BY DEF RInv, RegistryInv
<1>s. workers' = workers => SameWorkers
  BY <1>0 DEF SameWorkers
<1>t. task' = task => TaskInv'
  BY <1>0 DEF TaskInv
<1>k. UNCHANGED <<accounts, workers>> => Kept
  BY <1>0, <1>s, SameKept
<1>1. CASE UNCHANGED vars
  BY <1>1, <1>t, <1>k DEF vars, registryVars
<1>2. ASSUME NEW t \in Tasks, NEW a \in Addresses, Register(t, a) \/ Generate(t, a) \/ Load(t, a)
      PROVE  TaskInv' /\ Kept
  <2>1. \E op \in {"register", "load"} : StartOperation(t, op, a)
    BY <1>2 DEF Register, Generate, Load
  <2>2. TaskInv'
    BY <1>0, <2>1, StartStep DEF StartOperation
  <2>3. UNCHANGED <<accounts, workers>>
    BY <1>2 DEF Register, Generate, Load, registryVars
  <2> QED
    BY <1>k, <2>2, <2>3
<1>3. ASSUME NEW t \in Tasks, SyncAccounts(t)
      PROVE  TaskInv' /\ Kept
  <2>1. TaskInv'
    BY <1>0, <1>3, StartStep DEF SyncAccounts, StartOperation
  <2> QED
    BY <1>3, <1>k, <2>1 DEF SyncAccounts, registryVars
<1>4. ASSUME NEW t \in Tasks, ValidateChain(t)
      PROVE  TaskInv' /\ Kept
  BY <1>4, <1>k, ValidateStep DEF ValidateChain, registryVars
<1>5. ASSUME NEW t \in Tasks, FailOperation(t)
      PROVE  TaskInv' /\ Kept
  BY <1>0, <1>5, <1>k, ReturnStep DEF FailOperation, registryVars
<1>6. ASSUME NEW t \in Tasks, ListAccounts(t)
      PROVE  TaskInv' /\ Kept
  BY <1>6, <1>k, ListStep DEF ListAccounts, registryVars
<1>7. ASSUME NEW t \in Tasks, InsertAccount(t)
      PROVE  TaskInv' /\ Kept
  <2>1. Sound(task[t]) /\ task[t].pc = "inserting"
    BY <1>0, <1>7 DEF TaskInv, InsertAccount
  <2>2. task[t].address \in Addresses /\ task[t].chain \in Chains
        /\ Configured \in {task[t].chain, None}
    BY <2>1 DEF Sound
  <2>3. IsFiniteSet({task[t].address}) /\ {task[t].address} \in SUBSET Addresses
    BY <2>2, FS_Singleton
  <2>4. Insert({task[t].address}, "user", task[t].chain)
    BY <1>7 DEF InsertAccount
  <2>5. Kept
    BY <1>0, <2>2, <2>3, <2>4, InsertKept DEF Signers
  <2>6. TaskInv'
    BY <1>0, <1>7, ReturnStep DEF InsertAccount
  <2> QED
    BY <2>5, <2>6
<1>8. ASSUME NEW t \in Tasks, SyncInsert(t)
      PROVE  TaskInv' /\ Kept
  <2> DEFINE as == {a \in task[t].listed : accounts[a] = 0}
  <2>1. Sound(task[t]) /\ task[t].pc = "syncing"
    BY <1>0, <1>8 DEF TaskInv, SyncInsert
  <2>2. task[t].chain \in Chains /\ Configured \in {task[t].chain, None}
        /\ IsFiniteSet(task[t].listed)
    BY <2>1 DEF Sound
  <2>3. PICK S : task \in [Tasks -> Jobs(S)]
    BY <1>0 DEF TaskInv
  <2>4. task[t].listed \in SUBSET Addresses
    BY <2>3 DEF Jobs
  <2>5. as \in SUBSET task[t].listed
    OBVIOUS
  <2>6. as \in SUBSET Addresses /\ IsFiniteSet(as)
    BY <2>2, <2>4, <2>5, FS_Subset
  <2>7. Insert(as, "node", task[t].chain) /\ \A a \in as : accounts[a] = 0
    BY <1>8 DEF SyncInsert
  <2> HIDE DEF as
  <2>8. Kept
    BY <1>0, <2>2, <2>6, <2>7, InsertKept DEF Signers
  <2> QED
    BY <1>8, <2>8, SyncStep
<1>9. ASSUME NEW t \in Tasks, CheckLoaded(t)
      PROVE  TaskInv' /\ Kept
  BY <1>9, <1>k, CheckStep DEF CheckLoaded, registryVars
<1>10. ASSUME NEW t \in Tasks, NEW a \in Addresses, CreateEntries(t, a) \/ RemoveEntries(t, a)
       PROVE  TaskInv' /\ Kept
  <2>1. PICK op \in {"create", "remove"} : \E keys : StartCall(t, a, op, keys)
    BY <1>10 DEF CreateEntries, RemoveEntries
  <2> QED
    BY <1>k, <2>1, CallStep DEF StartCall, registryVars
<1>11. ASSUME NEW t \in Tasks, Queue(t)
       PROVE  TaskInv' /\ Kept
  <2>1. CASE workers' = [workers EXCEPT ![task[t].worker].queue = Append(@, t)]
             /\ Become(t, "waiting")
    <3>1. SameWorkers
      BY <1>0, <2>1, QueueStep
    <3> QED
      BY <1>0, <1>11, <2>1, <3>1, SameKept, WaitStep DEF Queue
  <2>2. CASE Answered(t, Failed) /\ UNCHANGED workers
    BY <1>0, <1>11, <1>k, <2>2, ReturnStep DEF Queue, Answered
  <2> QED
    BY <1>11, <2>1, <2>2 DEF Queue
<1>12. ASSUME NEW w \in DOMAIN workers, WorkerStep(w)
       PROVE  TaskInv' /\ Kept
  <2>1. CASE CheckFirst(w) \/ SendFirst(w)
    BY <1>t, <1>k, <2>1 DEF CheckFirst, SendFirst, registryVars
  <2>2. ASSUME NEW answer, Working(w), Finish(w, answer)
        PROVE  TaskInv' /\ Kept
    BY <1>0, <2>2, FinishStep, SameKept DEF Finish
  <2>3. CASE SignerPanics(w)
    BY <1>0, <2>3, PanicStep, SameKept DEF SignerPanics
  <2> QED
    BY <1>12, <2>1, <2>2, <2>3 DEF WorkerStep, FailFirst, GotReceipt
<1>13. ASSUME (\E b \in SUBSET pool : BeginBlock(b)) \/ (\E c \in DOMAIN requests : Execute(c))
                 \/ AddBlock
       PROVE  TaskInv' /\ Kept
  BY <1>13, <1>t, <1>k DEF BeginBlock, Execute, AddBlock, registryVars
<1>14. ASSUME SwitchChain \/ \E a \in Addresses : ManageAccount(a)
       PROVE  TaskInv' /\ Kept
  BY <1>14, <1>t, <1>k DEF SwitchChain, ManageAccount, registryVars
<1> QED
  BY <1>1, <1>2, <1>3, <1>4, <1>5, <1>6, <1>7, <1>8, <1>9, <1>10, <1>11, <1>12, <1>13, <1>14
     DEF Next, RegistryStep

LEMMA NextRInv == RInv /\ [Next]_vars => RInv'
<1> SUFFICES ASSUME RInv, [Next]_vars PROVE RInv'
  OBVIOUS
<1>1. TaskInv' /\ Kept
  BY StepKept
<1>2. chain \in Chains /\ managed \in SUBSET Addresses /\ IsFiniteSet(managed)
  BY DEF RInv, RegistryInv
<1>3. chain' \in Chains
  BY <1>2 DEF Next, vars, nodeVars, RegistryStep, WorkerStep, Register, Generate, Load,
     SyncAccounts, ValidateChain, FailOperation, ListAccounts, InsertAccount, SyncInsert,
     CheckLoaded, CreateEntries, RemoveEntries, StartCall, Queue, CheckFirst, SendFirst,
     FailFirst, SignerPanics, GotReceipt, Finish, BeginBlock, Execute, AddBlock, SwitchChain, ManageAccount
<1>4. managed' = managed \/ \E a \in Addresses : managed' = managed \union {a}
  BY DEF Next, vars, nodeVars, RegistryStep, WorkerStep, Register, Generate, Load,
     SyncAccounts, ValidateChain, FailOperation, ListAccounts, InsertAccount, SyncInsert,
     CheckLoaded, CreateEntries, RemoveEntries, StartCall, Queue, CheckFirst, SendFirst,
     FailFirst, SignerPanics, GotReceipt, Finish, BeginBlock, Execute, AddBlock, SwitchChain, ManageAccount
<1>5. managed' \in SUBSET Addresses /\ IsFiniteSet(managed')
  BY <1>2, <1>4, FS_AddElement
<1> QED
  BY <1>1, <1>3, <1>5 DEF RInv, RegistryInv, Kept

--------------------------------------------------------------------------------
(* Queues.  A call that is on its way has a request and a worker, and the     *)
(* queue of a worker has the tasks that wait for it, each once.               *)

CallRecords == [op : {"create", "remove"}, from : Addresses, keys : Seq(Keys)]

CallOf(t) ==
    /\ task[t].call \in 0 .. Len(requests) /\ task[t].worker \in 0 .. Len(workers)
    /\ task[t].pc \in {"sending", "waiting"} =>
        task[t].call \in 1 .. Len(requests) /\ task[t].worker \in 1 .. Len(workers)

CallInv == requests \in Seq(CallRecords) /\ \A t \in Tasks : CallOf(t)

Waits(t, w) == task[t].pc = "waiting" /\ task[t].worker = w

QueueOf(w) ==
    /\ \A i \in DOMAIN workers[w].queue : Waits(workers[w].queue[i], w)
    /\ \A i, j \in DOMAIN workers[w].queue : workers[w].queue[i] = workers[w].queue[j] => i = j
    /\ \A t \in Tasks : Waits(t, w) => \E i \in DOMAIN workers[w].queue : workers[w].queue[i] = t

AddressInv == \A a \in Addresses : accounts[a] # 0 => workers[accounts[a]].address = a

WaitInv == CallInv /\ AddressInv /\ \A w \in 1 .. Len(workers) : QueueOf(w)

(* A task in no queue does something with no call, or less than it had. *)
Moves(t) ==
    /\ \A u \in Tasks \ {t} : task'[u] = task[u]
    /\ task[t].pc # "waiting"
    /\ task'[t].pc \notin {"sending", "waiting"}
    /\ task'[t].call \in {0, task[t].call} /\ task'[t].worker \in {0, task[t].worker}
    /\ UNCHANGED requests

(* Workers are added, with empty queues. *)
AddsWorkers ==
    /\ workers' \in Seq(Workers) /\ Len(workers) <= Len(workers')
    /\ \A w \in 1 .. Len(workers) : workers'[w] = workers[w]
    /\ \A w \in Len(workers) + 1 .. Len(workers') : workers'[w].queue = <<>>

LEMMA IdleFacts ==
    Idle.pc = "idle" /\ Idle.call = 0 /\ Idle.worker = 0
  BY DEF Idle

LEMMA TaskIs ==
    ASSUME RInv, NEW t \in Tasks
    PROVE  /\ \A r : LET task2 == [task EXCEPT ![t] = r]
                     IN task2[t] = r /\ \A u \in Tasks \ {t} : task2[u] = task[u]
           /\ \E S : task[t] \in Jobs(S)
<1>1. PICK S : task \in [Tasks -> Jobs(S)]
  BY DEF RInv, TaskInv
<1> QED
  BY <1>1

LEMMA RegistryMoves ==
    ASSUME RInv, NEW t \in Tasks,
           \/ RegistryStep(t) \/ SyncAccounts(t)
           \/ \E a \in Addresses : Register(t, a) \/ Generate(t, a) \/ Load(t, a)
    PROVE  Moves(t)
<1>1. PICK S : task[t] \in Jobs(S)
  BY TaskIs
<1>2. ASSUME NEW r, task' = [task EXCEPT ![t] = r], task[t].pc # "waiting",
             r.pc \notin {"sending", "waiting"}, r.call \in {0, task[t].call},
             r.worker \in {0, task[t].worker}, UNCHANGED requests
      PROVE  Moves(t)
  <2>1. task'[t] = r /\ \A u \in Tasks \ {t} : task'[u] = task[u]
    BY <1>2, TaskIs
  <2> QED
    BY <1>2, <2>1 DEF Moves
<1>3. ASSUME Return(t), task[t].pc # "waiting", UNCHANGED requests
      PROVE  Moves(t)
  BY <1>2, <1>3, IdleFacts DEF Return
<1>4. ASSUME NEW op, NEW a, StartOperation(t, op, a), UNCHANGED requests
      PROVE  Moves(t)
  <2> DEFINE r == [Idle EXCEPT !.pc = "validating", !.op = op, !.address = a]
  <2>1. task' = [task EXCEPT ![t] = r] /\ task[t].pc # "waiting"
    BY <1>4 DEF StartOperation
  <2>2. r.pc = "validating" /\ r.call = 0 /\ r.worker = 0
    BY DEF Idle
  <2> HIDE DEF r
  <2> QED
    BY <1>2, <1>4, <2>1, <2>2
<1>5. CASE ValidateChain(t)
  <2> DEFINE pc == IF task[t].op = "register" THEN "inserting" ELSE "listing"
             r == [task[t] EXCEPT !.chain = chain, !.pc = pc]
  <2>1. task' = [task EXCEPT ![t] = r] /\ task[t].pc # "waiting" /\ UNCHANGED requests
    BY <1>5 DEF ValidateChain
  <2>2. r.pc = pc /\ r.call = task[t].call /\ r.worker = task[t].worker
    BY <1>1 DEF Jobs
  <2>3. pc \in {"inserting", "listing"}
    OBVIOUS
  <2> HIDE DEF r, pc
  <2> QED
    BY <1>2, <2>1, <2>2, <2>3
<1>6. CASE ListAccounts(t)
  <2> DEFINE r == [task[t] EXCEPT !.pc = "syncing", !.listed = managed]
  <2>1. task' = [task EXCEPT ![t] = r] /\ task[t].pc # "waiting" /\ UNCHANGED requests
    BY <1>6 DEF ListAccounts
  <2>2. r.pc = "syncing" /\ r.call = task[t].call /\ r.worker = task[t].worker
    BY <1>1 DEF Jobs
  <2> HIDE DEF r
  <2> QED
    BY <1>2, <2>1, <2>2
<1>7. CASE SyncInsert(t)
  <2> DEFINE s == [task[t] EXCEPT !.pc = "checking"]
             r == IF task[t].op = "load" THEN s ELSE Idle
  <2>1. task' = [task EXCEPT ![t] = r] /\ task[t].pc # "waiting" /\ UNCHANGED requests
    BY <1>7 DEF SyncInsert
  <2>2. s.pc = "checking" /\ s.call = task[t].call /\ s.worker = task[t].worker
    BY <1>1 DEF Jobs
  <2> HIDE DEF s
  <2>3. r.pc \in {"checking", "idle"} /\ r.call \in {0, task[t].call}
        /\ r.worker \in {0, task[t].worker}
    BY <2>2, IdleFacts
  <2> HIDE DEF r
  <2> QED
    BY <1>2, <2>1, <2>3
<1>8. CASE CheckLoaded(t)
  <2> DEFINE r == [Idle EXCEPT !.pc = "validating", !.op = "register", !.address = task[t].address]
  <2>1. task[t].pc # "waiting" /\ UNCHANGED requests
    BY <1>8 DEF CheckLoaded
  <2>2. Return(t) \/ task' = [task EXCEPT ![t] = r]
    BY <1>8 DEF CheckLoaded
  <2>3. r.pc = "validating" /\ r.call = 0 /\ r.worker = 0
    BY DEF Idle
  <2> HIDE DEF r
  <2> QED
    BY <1>2, <1>3, <2>1, <2>2, <2>3
<1>9. CASE FailOperation(t) \/ InsertAccount(t)
  BY <1>3, <1>9 DEF FailOperation, InsertAccount
<1>10. CASE SyncAccounts(t) \/ \E a \in Addresses : Register(t, a) \/ Generate(t, a) \/ Load(t, a)
  BY <1>4, <1>10 DEF SyncAccounts, Register, Generate, Load
<1> QED
  BY <1>5, <1>6, <1>7, <1>8, <1>9, <1>10 DEF RegistryStep

LEMMA QueueType ==
    ASSUME RInv, NEW w \in 1 .. Len(workers)
    PROVE  workers[w] \in Workers /\ workers[w].queue \in Seq(Tasks)
<1>1. workers[w] \in Workers
  BY DEF RInv, RegistryInv
<1> QED
  BY <1>1 DEF Workers

(* A queue that stays, with tasks that wait as before. *)
LEMMA QueueStays ==
    ASSUME RInv, NEW w \in 1 .. Len(workers), QueueOf(w),
           workers'[w].queue = workers[w].queue,
           \A u \in Tasks : Waits(u, w)' <=> Waits(u, w)
    PROVE  QueueOf(w)'
<1>1. workers[w].queue \in Seq(Tasks)
  BY QueueType
<1>2. \A i \in DOMAIN workers[w].queue : workers[w].queue[i] \in Tasks
  BY <1>1
<1> QED
  BY <1>2 DEF QueueOf

LEMMA MoveWaits ==
    ASSUME RInv, WaitInv, NEW t \in Tasks, Moves(t), AddsWorkers, AddressInv'
    PROVE  WaitInv'
<1> DEFINE n == Len(workers)
<1>1. n \in Nat /\ Len(workers') \in Nat /\ n <= Len(workers')
  BY DEF RInv, RegistryInv, AddsWorkers
<1>2. \A u \in Tasks \ {t} : task'[u] = task[u]
  BY DEF Moves
<1>3. CallInv'
  <2>1. requests' = requests /\ requests \in Seq(CallRecords) /\ Len(requests) \in Nat
    BY DEF WaitInv, CallInv, Moves
  <2>2. ASSUME NEW u \in Tasks
        PROVE  CallOf(u)'
    <3>1. CallOf(u)
      BY DEF WaitInv, CallInv
    <3>2. CASE u # t
      BY <1>1, <1>2, <2>1, <3>1, <3>2 DEF CallOf
    <3>3. CASE u = t
      <4>1. task'[t].pc \notin {"sending", "waiting"} /\ task'[t].call \in {0, task[t].call}
            /\ task'[t].worker \in {0, task[t].worker}
        BY DEF Moves
      <4>2. task[t].call \in 0 .. Len(requests) /\ task[t].worker \in 0 .. n
        BY <3>1, <3>3 DEF CallOf
      <4>3. task'[t].call \in 0 .. Len(requests) /\ task'[t].worker \in 0 .. Len(workers')
        BY <1>1, <2>1, <4>1, <4>2
      <4> QED
        BY <2>1, <3>3, <4>1, <4>3 DEF CallOf
    <3> QED
      BY <3>2, <3>3
  <2> QED
    BY <2>1, <2>2 DEF CallInv
<1>4. ASSUME NEW w \in 1 .. n
      PROVE  QueueOf(w)'
  <2>1. workers'[w] = workers[w] /\ QueueOf(w)
    BY DEF AddsWorkers, WaitInv
  <2>2. \A u \in Tasks : Waits(u, w)' <=> Waits(u, w)
    BY <1>2 DEF Moves, Waits
  <2> QED
    BY <2>1, <2>2, QueueStays
<1>5. ASSUME NEW w \in n + 1 .. Len(workers')
      PROVE  QueueOf(w)'
  <2>1. workers'[w].queue = <<>>
    BY DEF AddsWorkers
  <2>2. ASSUME NEW u \in Tasks, Waits(u, w)'
        PROVE  FALSE
    <3>1. u # t
      BY <2>2 DEF Moves, Waits
    <3>2. task[u].pc = "waiting" /\ task[u].worker = w
      BY <1>2, <2>2, <3>1 DEF Waits
    <3>3. task[u].worker \in 1 .. n
      BY <3>2 DEF WaitInv, CallInv, CallOf
    <3> QED
      BY <1>1, <3>2, <3>3
  <2> QED
    BY <2>1, <2>2 DEF QueueOf
<1>6. \A w \in 1 .. Len(workers') : QueueOf(w)'
  <2> SUFFICES ASSUME NEW w \in 1 .. Len(workers')
               PROVE  QueueOf(w)'
    OBVIOUS
  <2>1. w \in 1 .. n \/ w \in n + 1 .. Len(workers')
    BY <1>1
  <2> QED
    BY <1>4, <1>5, <2>1
<1> QED
  BY <1>3, <1>6 DEF WaitInv

LEMMA WorkersStay ==
    ASSUME RInv, AddressInv, UNCHANGED <<accounts, workers>>
    PROVE  AddsWorkers /\ AddressInv'
<1>1. workers \in Seq(Workers) /\ Len(workers) \in Nat
  BY DEF RInv, RegistryInv
<1>2. AddsWorkers
  BY <1>1 DEF AddsWorkers
<1> QED
  BY <1>2 DEF AddressInv

LEMMA InsertAdds ==
    ASSUME RInv, AddressInv, NEW as \in SUBSET Addresses, IsFiniteSet(as), NEW signer \in Signers,
           NEW c \in Chains, Insert(as, signer, c)
    PROVE  AddsWorkers /\ AddressInv'
<1>1. /\ workers' \in Seq(Workers) /\ Len(workers') >= Len(workers)
      /\ \A w \in 1 .. Len(workers) : workers'[w] = workers[w]
      /\ \A w \in Len(workers) + 1 .. Len(workers') : Fresh(workers'[w], signer, c)
      /\ \A a \in as : workers'[accounts'[a]].address = a
      /\ \A a \in Addresses \ as : accounts'[a] = accounts[a]
  BY InsertFacts DEF RInv
<1>2. Len(workers) \in Nat /\ Len(workers') \in Nat
  BY <1>1 DEF RInv, RegistryInv
<1>3. AddsWorkers
  BY <1>1, <1>2 DEF AddsWorkers, Fresh
<1>4. ASSUME NEW a \in Addresses, accounts'[a] # 0
      PROVE  workers'[accounts'[a]].address = a
  <2>1. CASE a \in as
    BY <1>1, <2>1
  <2>2. CASE a \notin as
    <3>1. accounts'[a] = accounts[a] /\ accounts[a] \in 0 .. Len(workers)
      BY <1>1, <2>2 DEF RInv, RegistryInv
    <3>2. accounts[a] \in 1 .. Len(workers)
      BY <1>2, <1>4, <3>1
    <3>3. workers'[accounts[a]] = workers[accounts[a]]
      BY <1>1, <3>2
    <3>4. accounts[a] # 0
      BY <1>4, <3>1
    <3>5. workers[accounts[a]].address = a
      BY <3>4 DEF AddressInv
    <3> QED
      BY <3>1, <3>3, <3>5
  <2> QED
    BY <2>1, <2>2
<1>5. AddressInv'
  BY <1>4 DEF AddressInv
<1> QED
  BY <1>3, <1>5

(* What SyncInsert and InsertAccount insert. *)
LEMMA RegistryAdds ==
    ASSUME RInv, AddressInv, NEW t \in Tasks,
           \/ RegistryStep(t) \/ SyncAccounts(t)
           \/ \E a \in Addresses : Register(t, a) \/ Generate(t, a) \/ Load(t, a)
    PROVE  AddsWorkers /\ AddressInv'
<1>1. Sound(task[t])
  BY DEF RInv, TaskInv
<1>2. CASE InsertAccount(t)
  <2>1. task[t].pc = "inserting" /\ Insert({task[t].address}, "user", task[t].chain)
    BY <1>2 DEF InsertAccount
  <2>2. task[t].address \in Addresses /\ task[t].chain \in Chains
    BY <1>1, <2>1 DEF Sound
  <2>3. IsFiniteSet({task[t].address}) /\ {task[t].address} \in SUBSET Addresses
    BY <2>2, FS_Singleton
  <2>4. "user" \in Signers
    BY DEF Signers
  <2> QED
    BY <2>1, <2>2, <2>3, <2>4, InsertAdds
<1>3. CASE SyncInsert(t)
  <2> DEFINE as == {a \in task[t].listed : accounts[a] = 0}
  <2>1. task[t].pc = "syncing" /\ Insert(as, "node", task[t].chain)
    BY <1>3 DEF SyncInsert
  <2>2. task[t].chain \in Chains /\ IsFiniteSet(task[t].listed)
    BY <1>1, <2>1 DEF Sound
  <2>3. PICK S : task[t] \in Jobs(S)
    BY TaskIs
  <2>4. task[t].listed \in SUBSET Addresses
    BY <2>3 DEF Jobs
  <2>5. as \in SUBSET task[t].listed
    OBVIOUS
  <2>6. as \in SUBSET Addresses /\ IsFiniteSet(as)
    BY <2>2, <2>4, <2>5, FS_Subset
  <2>7. "node" \in Signers
    BY DEF Signers
  <2> HIDE DEF as
  <2> QED
    BY <2>1, <2>2, <2>6, <2>7, InsertAdds
<1>4. CASE ~InsertAccount(t) /\ ~SyncInsert(t)
  <2>1. UNCHANGED <<accounts, workers>>
    BY <1>4 DEF RegistryStep, ValidateChain, FailOperation, ListAccounts, CheckLoaded,
       SyncAccounts, Register, Generate, Load, registryVars
  <2> QED
    BY <2>1, WorkersStay
<1> QED
  BY <1>2, <1>3, <1>4

LEMMA RegistryWaits ==
    ASSUME RInv, WaitInv, NEW t \in Tasks,
           \/ RegistryStep(t) \/ SyncAccounts(t)
           \/ \E a \in Addresses : Register(t, a) \/ Generate(t, a) \/ Load(t, a)
    PROVE  WaitInv'
<1>1. Moves(t)
  BY RegistryMoves
<1>2. AddsWorkers /\ AddressInv'
  BY RegistryAdds DEF WaitInv
<1> QED
  BY <1>1, <1>2, MoveWaits

LEMMA TaskBecomes ==
    ASSUME RInv, NEW t \in Tasks, NEW r, task' = [task EXCEPT ![t] = r]
    PROVE  task'[t] = r /\ \A u \in Tasks \ {t} : task'[u] = task[u]
<1>1. PICK S : task \in [Tasks -> Jobs(S)]
  BY DEF RInv, TaskInv
<1> QED
  BY <1>1

LEMMA CallWaits ==
    ASSUME RInv, WaitInv, NEW t \in Tasks, NEW a \in Addresses, NEW op \in {"create", "remove"},
           NEW keys \in Seq(Keys), StartCall(t, a, op, keys)
    PROVE  /\ WaitInv'
           /\ requests' = Append(requests, [op |-> op, from |-> a, keys |-> keys])
           /\ \A u \in Tasks \ {t} : task'[u] = task[u]
           /\ task'[t].call = Len(requests) + 1 /\ task'[t].pc = "sending"
<1> DEFINE w == accounts[a]
           n == Len(requests) + 1
           r == [Idle EXCEPT !.pc = "sending", !.op = op, !.worker = w, !.call = n]
           q == [op |-> op, from |-> a, keys |-> keys]
<1>1. /\ task[t].pc = "idle" /\ w # 0 /\ requests' = Append(requests, q)
      /\ task' = [task EXCEPT ![t] = r] /\ UNCHANGED <<accounts, workers>>
  BY DEF StartCall, registryVars
<1>2. r.pc = "sending" /\ r.worker = w /\ r.call = n
  BY DEF Idle
<1>3. q \in CallRecords
  BY DEF CallRecords
<1> HIDE DEF r, q
<1>4. task'[t] = r /\ \A u \in Tasks \ {t} : task'[u] = task[u]
  BY <1>1, TaskBecomes
<1>5. requests \in Seq(CallRecords) /\ Len(requests) \in Nat
  BY DEF WaitInv, CallInv
<1>6. requests' \in Seq(CallRecords) /\ Len(requests') = n
  BY <1>1, <1>3, <1>5
<1>7. w \in 1 .. Len(workers) /\ Len(workers) \in Nat
  <2>1. w \in 0 .. Len(workers) /\ Len(workers) \in Nat
    BY DEF RInv, RegistryInv
  <2> QED
    BY <1>1, <2>1
<1>8. ASSUME NEW u \in Tasks
      PROVE  CallOf(u)'
  <2>1. CASE u = t
    BY <1>1, <1>2, <1>4, <1>5, <1>6, <1>7, <2>1 DEF CallOf
  <2>2. CASE u # t
    <3>1. CallOf(u)
      BY DEF WaitInv, CallInv
    <3> QED
      BY <1>1, <1>4, <1>5, <1>6, <2>2, <3>1 DEF CallOf
  <2> QED
    BY <2>1, <2>2
<1>9. ASSUME NEW v \in 1 .. Len(workers)
      PROVE  QueueOf(v)'
  <2>1. \A u \in Tasks : Waits(u, v)' <=> Waits(u, v)
    BY <1>1, <1>2, <1>4 DEF Waits
  <2> QED
    BY <1>1, <2>1, QueueStays DEF WaitInv
<1>10. WaitInv'
  BY <1>1, <1>6, <1>8, <1>9 DEF WaitInv, CallInv, AddressInv
<1> QED
  BY <1>1, <1>2, <1>4, <1>10 DEF q

(* The accounts of the map keep their workers, and these their addresses. *)
LEMMA AddressStays ==
    ASSUME RInv, AddressInv, SameWorkers, UNCHANGED accounts
    PROVE  AddressInv'
<1> SUFFICES ASSUME NEW a \in Addresses, accounts'[a] # 0
             PROVE  workers'[accounts'[a]].address = a
  BY DEF AddressInv
<1>1. accounts[a] \in 0 .. Len(workers) /\ Len(workers) \in Nat /\ accounts'[a] = accounts[a]
  BY DEF RInv, RegistryInv
<1>2. accounts[a] \in 1 .. Len(workers)
  BY <1>1
<1>3. workers[accounts[a]].address = a
  BY <1>1 DEF AddressInv
<1> QED
  BY <1>1, <1>2, <1>3 DEF SameWorkers

(* queue_transaction, of a worker that is alive. *)
LEMMA QueueWaits ==
    ASSUME RInv, WaitInv, NEW t \in Tasks, task[t].pc = "sending", UNCHANGED <<accounts, requests>>,
           workers' = [workers EXCEPT ![task[t].worker].queue = Append(@, t)], Become(t, "waiting")
    PROVE  WaitInv'
<1>a. PICK w : w = task[t].worker
  OBVIOUS
<1>b. PICK s : s = workers[w].queue
  OBVIOUS
<1> DEFINE q == Append(s, t)
           r == [task[t] EXCEPT !.pc = "waiting"]
           v2 == [workers[w] EXCEPT !.queue = q]
<1>1. w \in 1 .. Len(workers) /\ task[t].call \in 1 .. Len(requests)
      /\ workers \in Seq(Workers) /\ Len(workers) \in Nat
  BY <1>a DEF WaitInv, CallInv, CallOf, RInv, RegistryInv
<1>2. SameWorkers
  BY <1>1, <1>a, QueueStep
<1>3. workers[w] \in Workers /\ s \in Seq(Tasks)
  BY <1>1, <1>b, QueueType
<1>4. v2.queue = q
  BY <1>3 DEF Workers
<1>5. workers' = [workers EXCEPT ![w] = v2]
  <2>1. workers' = [workers EXCEPT ![w] = [workers[w] EXCEPT !.queue = Append(workers[w].queue, t)]]
    BY <1>a
  <2> QED
    BY <2>1, <1>b
<1> HIDE DEF v2
<1>6. workers'[w].queue = q /\ \A v \in 1 .. Len(workers) \ {w} : workers'[v] = workers[v]
  <2> HIDE DEF q
  <2>1. workers'[w] = v2 /\ \A v \in 1 .. Len(workers) \ {w} : workers'[v] = workers[v]
    BY <1>1, <1>5
  <2> QED
    BY <1>4, <2>1
<1>7. PICK S : task[t] \in Jobs(S)
  BY TaskIs
<1>8. r.pc = "waiting" /\ r.worker = w /\ r.call = task[t].call
  BY <1>7, <1>a DEF Jobs
<1>9. task' = [task EXCEPT ![t] = r]
  BY DEF Become
<1> HIDE DEF r
<1>10. task'[t] = r /\ \A u \in Tasks \ {t} : task'[u] = task[u]
  BY <1>9, TaskBecomes
<1>11. Len(workers') = Len(workers) /\ requests' = requests
  BY <1>2 DEF SameWorkers
<1>12. ASSUME NEW u \in Tasks
       PROVE  CallOf(u)'
  <2>1. CallOf(u)
    BY DEF WaitInv, CallInv
  <2> QED
    BY <1>1, <1>8, <1>10, <1>11, <2>1 DEF CallOf
<1>13. ASSUME NEW v \in 1 .. Len(workers), v # w
       PROVE  QueueOf(v)'
  <2>1. \A u \in Tasks : Waits(u, v)' <=> Waits(u, v)
    BY <1>8, <1>10, <1>13 DEF Waits
  <2> QED
    BY <1>6, <1>13, <2>1, QueueStays DEF WaitInv
<1>14. QueueOf(w)'
  <2>1. /\ \A i \in 1 .. Len(s) : s[i] \in Tasks /\ Waits(s[i], w)
        /\ \A i, j \in 1 .. Len(s) : s[i] = s[j] => i = j
        /\ \A u \in Tasks : Waits(u, w) => \E i \in 1 .. Len(s) : s[i] = u
    BY <1>1, <1>3, <1>b DEF WaitInv, QueueOf
  <2>2. /\ Len(q) = Len(s) + 1 /\ q[Len(s) + 1] = t /\ Len(s) \in Nat /\ DOMAIN q = 1 .. Len(q)
        /\ \A i \in 1 .. Len(s) : q[i] = s[i]
    BY <1>3
  <2>3. ~Waits(t, w) /\ Waits(t, w)'
    BY <1>8, <1>10 DEF Waits
  <2>4. \A u \in Tasks \ {t} : Waits(u, w)' <=> Waits(u, w)
    BY <1>10 DEF Waits
  <2> HIDE DEF q
  <2>5. \A i \in 1 .. Len(q) : q[i] \in Tasks /\ Waits(q[i], w)'
    <3> SUFFICES ASSUME NEW i \in 1 .. Len(q)
                 PROVE  q[i] \in Tasks /\ Waits(q[i], w)'
      OBVIOUS
    <3>1. CASE i \in 1 .. Len(s)
      BY <2>1, <2>2, <2>3, <2>4, <3>1
    <3>2. CASE i = Len(s) + 1
      BY <2>2, <2>3, <3>2
    <3> QED
      BY <2>2, <3>1, <3>2
  <2>6. \A i, j \in 1 .. Len(q) : q[i] = q[j] => i = j
    BY <2>1, <2>2, <2>3
  <2>7. ASSUME NEW u \in Tasks, Waits(u, w)'
        PROVE  \E i \in 1 .. Len(q) : q[i] = u
    <3>1. CASE u = t
      BY <2>2, <3>1
    <3>2. CASE u # t
      <4>1. PICK i \in 1 .. Len(s) : s[i] = u
        BY <2>1, <2>4, <2>7, <3>2
      <4> QED
        BY <2>2, <4>1
    <3> QED
      BY <3>1, <3>2
  <2> QED
    BY <1>6, <2>2, <2>5, <2>6, <2>7 DEF QueueOf
<1>15. AddressInv'
  BY <1>2, AddressStays DEF WaitInv
<1>16. requests' \in Seq(CallRecords)
  BY DEF WaitInv, CallInv
<1> QED
  BY <1>11, <1>12, <1>13, <1>14, <1>15, <1>16 DEF WaitInv, CallInv

(* Tasks that wait for a worker are answered, and leave its queue. *)
LEMMA LeaveWaits ==
    ASSUME RInv, WaitInv, NEW w \in 1 .. Len(workers), SameWorkers,
           UNCHANGED <<accounts, requests>>,
           \A v \in 1 .. Len(workers) \ {w} : workers'[v] = workers[v],
           \A u \in Tasks : task'[u] = task[u] \/ (Waits(u, w) /\ task'[u] = Idle),
           QueueOf(w)'
    PROVE  WaitInv'
<1>1. Len(workers') = Len(workers) /\ requests' = requests /\ Len(workers) \in Nat
  BY DEF SameWorkers, RInv, RegistryInv
<1>2. requests \in Seq(CallRecords) /\ Len(requests) \in Nat
  BY DEF WaitInv, CallInv
<1>3. ASSUME NEW u \in Tasks
      PROVE  CallOf(u)'
  <2>1. CallOf(u)
    BY DEF WaitInv, CallInv
  <2> QED
    BY <1>1, <1>2, <2>1, IdleFacts DEF CallOf
<1>4. ASSUME NEW v \in 1 .. Len(workers), v # w
      PROVE  QueueOf(v)'
  <2>1. \A u \in Tasks : Waits(u, v)' <=> Waits(u, v)
    BY <1>4, IdleFacts DEF Waits
  <2> QED
    BY <1>4, <2>1, QueueStays DEF WaitInv
<1>5. AddressInv'
  BY AddressStays DEF WaitInv
<1> QED
  BY <1>1, <1>2, <1>3, <1>4, <1>5 DEF WaitInv, CallInv

LEMMA FirstWaits ==
    ASSUME RInv, WaitInv, NEW w \in 1 .. Len(workers), Working(w)
    PROVE  /\ First(w) \in Tasks /\ Waits(First(w), w)
           /\ task[First(w)].call \in 1 .. Len(requests)
<1>1. workers[w].queue \in Seq(Tasks) /\ workers[w].queue # <<>>
  BY QueueType DEF Working
<1>2. 1 \in DOMAIN workers[w].queue /\ First(w) \in Tasks
  BY <1>1 DEF First
<1>3. Waits(First(w), w)
  BY <1>2 DEF WaitInv, QueueOf, First
<1> QED
  BY <1>2, <1>3 DEF Waits, WaitInv, CallInv, CallOf

LEMMA FinishWaits ==
    ASSUME RInv, WaitInv, NEW w \in DOMAIN workers, Working(w), NEW answer, Finish(w, answer)
    PROVE  WaitInv'
<1>a. PICK s : s = workers[w].queue
  OBVIOUS
<1>b. PICK t : t = First(w)
  OBVIOUS
<1> DEFINE q == Tail(s)
           r == [workers[w] EXCEPT !.queue = q]
<1>1. workers \in Seq(Workers) /\ w \in 1 .. Len(workers) /\ UNCHANGED <<accounts, requests>>
  BY DEF RInv, RegistryInv, Finish
<1>2. SameWorkers
  BY FinishStep
<1>3. workers[w] \in Workers /\ s \in Seq(Tasks) /\ s # <<>>
  BY <1>1, <1>a, QueueType DEF Working
<1>4. workers' = [workers EXCEPT ![w] = r]
  BY <1>a DEF Finish
<1>5. r.queue = q
  BY <1>3 DEF Workers
<1> HIDE DEF r
<1>6. workers'[w].queue = q /\ \A v \in 1 .. Len(workers) \ {w} : workers'[v] = workers[v]
  BY <1>1, <1>4, <1>5
<1>7. t \in Tasks /\ Waits(t, w) /\ t = s[1]
  BY <1>1, <1>a, <1>b, FirstWaits DEF First
<1>8. task'[t] = Idle /\ \A u \in Tasks \ {t} : task'[u] = task[u]
  BY <1>7, <1>b, TaskBecomes DEF Finish, Answered, Return
<1>9. /\ \A i \in 1 .. Len(s) : s[i] \in Tasks /\ Waits(s[i], w)
      /\ \A i, j \in 1 .. Len(s) : s[i] = s[j] => i = j
      /\ \A u \in Tasks : Waits(u, w) => \E i \in 1 .. Len(s) : s[i] = u
  BY <1>1, <1>3, <1>a DEF WaitInv, QueueOf
<1>10. /\ Len(s) \in Nat \ {0} /\ Len(q) = Len(s) - 1 /\ DOMAIN q = 1 .. Len(q)
       /\ \A i \in 1 .. Len(q) : q[i] = s[i + 1]
  BY <1>3
<1> HIDE DEF q
<1>11. QueueOf(w)'
  <2>1. ASSUME NEW i \in 1 .. Len(q)
        PROVE  Waits(q[i], w)'
    <3>1. i + 1 \in 1 .. Len(s) /\ 1 \in 1 .. Len(s) /\ i + 1 # 1
      BY <1>10
    <3>2. q[i] = s[i + 1] /\ s[i + 1] # t /\ s[i + 1] \in Tasks /\ Waits(s[i + 1], w)
      BY <1>7, <1>9, <1>10, <3>1
    <3> QED
      BY <1>8, <3>2 DEF Waits
  <2>2. ASSUME NEW i \in 1 .. Len(q), NEW j \in 1 .. Len(q), q[i] = q[j]
        PROVE  i = j
    <3>1. i + 1 \in 1 .. Len(s) /\ j + 1 \in 1 .. Len(s) /\ s[i + 1] = s[j + 1]
      BY <1>10, <2>2
    <3> QED
      BY <1>9, <3>1
  <2>3. ASSUME NEW u \in Tasks, Waits(u, w)'
        PROVE  \E i \in 1 .. Len(q) : q[i] = u
    <3>1. u # t
      BY <1>8, <2>3, IdleFacts DEF Waits
    <3>2. PICK j \in 1 .. Len(s) : s[j] = u
      BY <1>8, <1>9, <2>3, <3>1 DEF Waits
    <3>3. j # 1
      BY <1>7, <3>1, <3>2
    <3>4. j - 1 \in 1 .. Len(q) /\ q[j - 1] = s[j]
      BY <1>10, <3>3
    <3> QED
      BY <3>2, <3>4
  <2> QED
    BY <1>6, <1>10, <2>1, <2>2, <2>3 DEF QueueOf
<1> QED
  BY <1>1, <1>2, <1>6, <1>7, <1>8, <1>11, LeaveWaits

LEMMA PanicWaits ==
    ASSUME RInv, WaitInv, NEW w \in DOMAIN workers, SignerPanics(w)
    PROVE  /\ WaitInv'
           /\ \A u \in Tasks : IF u \in ToSet(workers[w].queue)
                               THEN Waits(u, w) /\ task'[u] = Idle ELSE task'[u] = task[u]
<1> DEFINE s == workers[w].queue
           r == [workers[w] EXCEPT !.alive = FALSE, !.queue = <<>>]
<1>1. workers \in Seq(Workers) /\ w \in 1 .. Len(workers) /\ UNCHANGED <<accounts, requests>>
  BY DEF RInv, RegistryInv, SignerPanics
<1>2. SameWorkers
  BY PanicStep
<1>3. workers[w] \in Workers /\ s \in Seq(Tasks)
  BY <1>1, QueueType
<1>4. workers' = [workers EXCEPT ![w] = r]
  BY DEF SignerPanics
<1>5. r.queue = <<>>
  BY <1>3 DEF Workers
<1> HIDE DEF r
<1>6. workers'[w].queue = <<>> /\ \A v \in 1 .. Len(workers) \ {w} : workers'[v] = workers[v]
  BY <1>1, <1>4, <1>5
<1>7. \A u \in Tasks : task'[u] = IF u \in ToSet(s) THEN Idle ELSE task[u]
  BY DEF SignerPanics
<1>8. \A u \in Tasks : u \in ToSet(s) <=> Waits(u, w)
  BY <1>1, <1>3 DEF ToSet, WaitInv, QueueOf
<1>9. QueueOf(w)'
  <2>1. \A u \in Tasks : ~Waits(u, w)'
    BY <1>7, <1>8, IdleFacts DEF Waits
  <2> QED
    BY <1>6, <2>1 DEF QueueOf
<1> QED
  BY <1>1, <1>2, <1>6, <1>7, <1>8, <1>9, LeaveWaits

--------------------------------------------------------------------------------
(* Blocks.  A transaction is in the pool, then in the chain; while its block   *)
(* is added it is either still to run or has run.                             *)

BlockInv ==
    /\ pool \subseteq DOMAIN requests
    /\ batch \subseteq pool /\ block \subseteq pool /\ batch \intersect block = {}
    /\ pool \intersect DOMAIN logs = {}
    /\ DOMAIN logs \subseteq DOMAIN requests
    /\ DOMAIN answers \subseteq DOMAIN requests

(* The keys that a call creates are its own; those that it removes are of     *)
(* calls that are in the chain.                                               *)
KeyInv ==
    \A c \in DOMAIN requests :
        /\ requests[c].op = "create" => \A j \in 1 .. Len(Own(c)) : Own(c)[j][1] = c
        /\ requests[c].op = "remove" => \A k \in ToSet(Own(c)) : k[1] \in DOMAIN logs

Run == block \union DOMAIN logs

(* What a transaction removed is gone for good: nobody creates it again. *)
StoreInv ==
    /\ store \subseteq Keys
    /\ \A k \in store : k[1] \in Run
    /\ \A c \in Run : requests[c].op = "remove" => ToSet(Own(c)) \intersect store = {}

(* A list of keys that creates of a set of calls made. *)
Tells(list, calls, reqs) ==
    /\ list \in Seq(Keys)
    /\ \A j \in 1 .. Len(list) :
        /\ list[j][1] \in calls /\ reqs[list[j][1]].op = "create"
        /\ list[j] \in ToSet(reqs[list[j][1]].keys)

OneRun(own, c, list) ==
    \E i \in 0 .. Len(list) - Len(own) : \A j \in 1 .. Len(list) :
        IF j \in i + 1 .. i + Len(own) THEN list[j] = own[j - i] ELSE list[j][1] # c

Created(c, list, calls, reqs) ==
    Tells(list, calls, reqs) /\ (reqs[c].op = "create" => OneRun(reqs[c].keys, c, list))

(* The keys in the logs of a call are of calls of its block. *)
OfItsBlock(c) ==
    \A j \in 1 .. Len(logs[c]) : logs[c][j][1] \in DOMAIN logs /\ logs[logs[c][j][1]] = logs[c]

LogInv ==
    /\ Tells(made, block, requests)
    /\ \A c \in block : Created(c, made, block, requests)
    /\ \A c \in DOMAIN logs : Created(c, logs[c], DOMAIN logs, requests) /\ OfItsBlock(c)

AnswerInv ==
    \A c \in DOMAIN answers :
        \/ answers[c] = Failed
        \/ c \in DOMAIN logs /\ answers[c] = [ok |-> TRUE, keys |-> ReturnIds(c)]

NodeInv == BlockInv /\ KeyInv /\ StoreInv /\ LogInv /\ AnswerInv

LEMMA RunGrows ==
    ASSUME NEW S, NEW list \in Seq(S), NEW more \in Seq(S), NEW own \in Seq(S), NEW c,
           OneRun(own, c, list), \A j \in 1 .. Len(more) : more[j][1] # c
    PROVE  OneRun(own, c, list \o more)
<1> DEFINE all == list \o more
<1>1. /\ all \in Seq(S) /\ Len(all) = Len(list) + Len(more)
      /\ Len(list) \in Nat /\ Len(more) \in Nat /\ Len(own) \in Nat
      /\ \A j \in 1 .. Len(list) : all[j] = list[j]
      /\ \A j \in Len(list) + 1 .. Len(list) + Len(more) : all[j] = more[j - Len(list)]
  BY Joined
<1>2. PICK i \in 0 .. Len(list) - Len(own) : \A j \in 1 .. Len(list) :
        IF j \in i + 1 .. i + Len(own) THEN list[j] = own[j - i] ELSE list[j][1] # c
  BY DEF OneRun
<1> HIDE DEF all
<1>3. i \in 0 .. Len(all) - Len(own)
  BY <1>1, <1>2
<1>4. ASSUME NEW j \in 1 .. Len(all)
      PROVE  IF j \in i + 1 .. i + Len(own) THEN all[j] = own[j - i] ELSE all[j][1] # c
  <2>1. CASE j \in 1 .. Len(list)
    BY <1>1, <1>2, <2>1
  <2>2. CASE j \in Len(list) + 1 .. Len(list) + Len(more)
    <3>1. j \notin i + 1 .. i + Len(own)
      BY <1>1, <1>2, <2>2
    <3>2. j - Len(list) \in 1 .. Len(more) /\ all[j] = more[j - Len(list)]
      BY <1>1, <2>2
    <3> QED
      BY <3>1, <3>2
  <2> QED
    BY <1>1, <2>1, <2>2
<1>5. OneRun(own, c, all)
  BY <1>3, <1>4 DEF OneRun
<1> QED
  BY <1>5 DEF all

LEMMA RunAdded ==
    ASSUME NEW S, NEW list \in Seq(S), NEW own \in Seq(S), NEW c,
           \A j \in 1 .. Len(list) : list[j][1] # c
    PROVE  OneRun(own, c, list \o own)
<1> DEFINE all == list \o own
           i == Len(list)
<1>1. /\ Len(all) = i + Len(own) /\ i \in Nat /\ Len(own) \in Nat
      /\ \A j \in 1 .. i : all[j] = list[j]
      /\ \A j \in i + 1 .. i + Len(own) : all[j] = own[j - i]
  BY Joined
<1> HIDE DEF all, i
<1>2. i \in 0 .. Len(all) - Len(own)
  BY <1>1
<1>3. \A j \in 1 .. i : list[j][1] # c
  BY DEF i
<1>4. \A j \in 1 .. Len(all) :
        IF j \in i + 1 .. i + Len(own) THEN all[j] = own[j - i] ELSE all[j][1] # c
  BY <1>1, <1>3
<1> QED
  BY <1>2, <1>4 DEF OneRun, all

(* More calls tell, and the requests only grow. *)
LEMMA TellsMore ==
    ASSUME NEW list, NEW calls, NEW calls2, calls \subseteq calls2, NEW reqs, NEW reqs2,
           Tells(list, calls, reqs), \A c \in calls : reqs2[c] = reqs[c]
    PROVE  Tells(list, calls2, reqs2)
  BY DEF Tells

LEMMA CreatedMore ==
    ASSUME NEW list, NEW calls, NEW calls2, calls \subseteq calls2, NEW reqs, NEW reqs2,
           NEW c \in calls, Created(c, list, calls, reqs), \A d \in calls : reqs2[d] = reqs[d]
    PROVE  Created(c, list, calls2, reqs2)
  BY TellsMore DEF Created

(* A transaction that creates entities puts its keys behind the others. *)
LEMMA TellsAdded ==
    ASSUME NEW list, NEW calls, NEW reqs, NEW c, Tells(list, calls, reqs), reqs[c].op = "create",
           reqs[c].keys \in Seq(Keys), \A j \in 1 .. Len(reqs[c].keys) : reqs[c].keys[j][1] = c
    PROVE  Tells(list \o reqs[c].keys, calls \union {c}, reqs)
<1> DEFINE own == reqs[c].keys
           all == list \o own
<1>1. list \in Seq(Keys) /\ own \in Seq(Keys)
  BY DEF Tells
<1>2. \A k : k \in ToSet(own) <=> \E j \in 1 .. Len(own) : own[j] = k
  BY <1>1 DEF ToSet
<1> HIDE DEF own
<1>3. /\ all \in Seq(Keys) /\ Len(all) = Len(list) + Len(own)
      /\ Len(list) \in Nat /\ Len(own) \in Nat
      /\ \A j \in 1 .. Len(list) : all[j] = list[j]
      /\ \A j \in Len(list) + 1 .. Len(list) + Len(own) : all[j] = own[j - Len(list)]
  BY <1>1, Joined
<1> HIDE DEF all
<1>4. ASSUME NEW j \in 1 .. Len(all)
      PROVE  /\ all[j][1] \in calls \union {c} /\ reqs[all[j][1]].op = "create"
             /\ all[j] \in ToSet(reqs[all[j][1]].keys)
  <2>1. CASE j \in 1 .. Len(list)
    BY <1>3, <2>1 DEF Tells
  <2>2. CASE j \in Len(list) + 1 .. Len(list) + Len(own)
    <3>1. j - Len(list) \in 1 .. Len(own) /\ all[j] = own[j - Len(list)]
      BY <1>3, <2>2
    <3>2. all[j][1] = c
      BY <3>1 DEF own
    <3>3. all[j] \in ToSet(own)
      BY <1>2, <3>1
    <3> QED
      BY <3>2, <3>3 DEF own
  <2> QED
    BY <1>3, <2>1, <2>2
<1>5. Tells(all, calls \union {c}, reqs)
  BY <1>3, <1>4 DEF Tells
<1> QED
  BY <1>5 DEF all, own

LEMMA CreatedAdded ==
    ASSUME NEW list, NEW calls, NEW reqs, NEW c, c \notin calls, Tells(list, calls, reqs),
           reqs[c].op = "create", reqs[c].keys \in Seq(Keys), \A j \in 1 .. Len(reqs[c].keys) : reqs[c].keys[j][1] = c,
           NEW d \in calls \union {c}, reqs[d].keys \in Seq(Keys),
           d \in calls => Created(d, list, calls, reqs)
    PROVE  Created(d, list \o reqs[c].keys, calls \union {c}, reqs)
<1>1. list \in Seq(Keys) /\ \A j \in 1 .. Len(list) : list[j][1] \in calls
  BY DEF Tells
<1>2. Tells(list \o reqs[c].keys, calls \union {c}, reqs)
  BY TellsAdded
<1>3. CASE d = c
  <2>1. OneRun(reqs[c].keys, c, list \o reqs[c].keys)
    BY <1>1, RunAdded
  <2> QED
    BY <1>2, <1>3, <2>1 DEF Created
<1>4. CASE d # c
  <2>1. reqs[d].op = "create" => OneRun(reqs[d].keys, d, list)
    BY <1>4 DEF Created
  <2>2. \A j \in 1 .. Len(reqs[c].keys) : reqs[c].keys[j][1] # d
    BY <1>4
  <2>3. reqs[d].op = "create" => OneRun(reqs[d].keys, d, list \o reqs[c].keys)
    BY <1>1, <2>1, <2>2, RunGrows
  <2> QED
    BY <1>2, <2>3 DEF Created
<1> QED
  BY <1>3, <1>4

--------------------------------------------------------------------------------
(* Steps of the node and of the calls *)

LEMMA CallFacts ==
    ASSUME CallInv, NEW c \in DOMAIN requests
    PROVE  /\ requests[c] \in CallRecords /\ c \in 1 .. Len(requests) /\ Len(requests) \in Nat
           /\ requests[c].keys \in Seq(Keys) /\ requests[c].op \in {"create", "remove"}
<1>1. requests \in Seq(CallRecords)
  BY DEF CallInv
<1>2. requests[c] \in CallRecords /\ c \in 1 .. Len(requests) /\ Len(requests) \in Nat
  BY <1>1
<1> QED
  BY <1>2 DEF CallRecords

LEMMA NodeStays ==
    ASSUME NodeInv, UNCHANGED <<requests, pool, blockVars, logs, store, answers>>
    PROVE  NodeInv'
<1>1. UNCHANGED <<requests, pool, batch, block, made, logs, store, answers>>
  BY DEF blockVars
<1>2. BlockInv'
  BY <1>1 DEF NodeInv, BlockInv
<1>3. KeyInv'
  BY <1>1 DEF NodeInv, KeyInv, Own
<1>4. StoreInv'
  BY <1>1 DEF NodeInv, StoreInv, Own, Run
<1>5. LogInv'
  BY <1>1 DEF NodeInv, LogInv, OfItsBlock
<1>6. AnswerInv'
  BY <1>1 DEF NodeInv, AnswerInv, ReturnIds
<1> QED
  BY <1>2, <1>3, <1>4, <1>5, <1>6 DEF NodeInv

(* Every answer names keys that calls in the chain created. *)
LEMMA AnswerKeys ==
    ASSUME CallInv, NodeInv, NEW c \in DOMAIN answers
    PROVE  \A k \in ToSet(answers[c].keys) : <<k>> \in Seq(Keys) /\ k[1] \in DOMAIN logs
<1>1. CASE answers[c] = Failed
  BY <1>1 DEF Failed, ToSet
<1>2. CASE c \in DOMAIN logs /\ answers[c].keys = ReturnIds(c)
  <2>1. CASE requests[c].op = "create"
    <3>1. Tells(logs[c], DOMAIN logs, requests) /\ answers[c].keys = logs[c]
      BY <1>2, <2>1 DEF NodeInv, LogInv, Created, ReturnIds
    <3>2. logs[c] \in Seq(Keys) /\ \A j \in 1 .. Len(logs[c]) : logs[c][j][1] \in DOMAIN logs
      BY <3>1 DEF Tells
    <3>3. \A k \in ToSet(logs[c]) : k \in Keys /\ k[1] \in DOMAIN logs
      BY <3>2 DEF ToSet
    <3> QED
      BY <3>1, <3>3
  <2>2. CASE requests[c].op # "create"
    BY <1>2, <2>2 DEF ReturnIds, ToSet
  <2> QED
    BY <2>1, <2>2
<1> QED
  BY <1>1, <1>2 DEF NodeInv, AnswerInv

LEMMA CallNode ==
    ASSUME CallInv, NodeInv, NEW a, NEW op \in {"create", "remove"}, NEW keys \in Seq(Keys),
           requests' = Append(requests, [op |-> op, from |-> a, keys |-> keys]),
           op = "create" => \A j \in 1 .. Len(keys) : keys[j][1] = Len(requests) + 1,
           op = "remove" => \A k \in ToSet(keys) : k[1] \in DOMAIN logs,
           UNCHANGED <<pool, blockVars, logs, store, answers>>
    PROVE  NodeInv'
<1> DEFINE n == Len(requests) + 1
<1>1. /\ requests \in Seq(CallRecords) /\ Len(requests) \in Nat /\ DOMAIN requests = 1 .. Len(requests)
      /\ DOMAIN requests' = 1 .. n
      /\ \A c \in DOMAIN requests : requests'[c] = requests[c]
      /\ requests'[n] = [op |-> op, from |-> a, keys |-> keys]
  BY DEF CallInv
<1>2. UNCHANGED <<pool, batch, block, made, logs, store, answers>>
  BY DEF blockVars
<1>3. BlockInv
  BY DEF NodeInv
<1>4. DOMAIN requests \subseteq DOMAIN requests'
  BY <1>1
<1>5. block \subseteq DOMAIN requests /\ DOMAIN logs \subseteq DOMAIN requests
      /\ DOMAIN answers \subseteq DOMAIN requests
  BY <1>3 DEF BlockInv
<1>6. BlockInv'
  BY <1>2, <1>3, <1>4 DEF BlockInv
<1>7. KeyInv'
  <2> SUFFICES ASSUME NEW c \in DOMAIN requests'
               PROVE  /\ requests'[c].op = "create" =>
                            \A j \in 1 .. Len(requests'[c].keys) : requests'[c].keys[j][1] = c
                      /\ requests'[c].op = "remove" =>
                            \A k \in ToSet(requests'[c].keys) : k[1] \in DOMAIN logs'
    BY DEF KeyInv, Own
  <2>1. CASE c \in DOMAIN requests
    BY <1>1, <1>2, <2>1 DEF NodeInv, KeyInv, Own
  <2>2. CASE c = n
    <3>1. requests'[c].op = op /\ requests'[c].keys = keys
      BY <1>1, <2>2
    <3> QED
      BY <1>2, <2>2, <3>1
  <2> QED
    BY <1>1, <2>1, <2>2
<1>8. StoreInv'
  BY <1>1, <1>2, <1>5 DEF NodeInv, StoreInv, Own, Run
<1>9. LogInv'
  <2>1. /\ Tells(made, block, requests)
        /\ \A c \in block : Created(c, made, block, requests)
        /\ \A c \in DOMAIN logs : Created(c, logs[c], DOMAIN logs, requests) /\ OfItsBlock(c)
    BY DEF NodeInv, LogInv
  <2>2. PICK reqs : reqs = requests'
    OBVIOUS
  <2>a. /\ \A c \in block : reqs[c] = requests[c]
        /\ \A c \in DOMAIN logs : reqs[c] = requests[c]
    BY <1>1, <1>5, <2>2
  <2>3. Tells(made, block, reqs)
    BY <2>1, <2>a, TellsMore
  <2>4. \A c \in block : Created(c, made, block, reqs)
    BY <2>1, <2>a, CreatedMore
  <2>5. \A c \in DOMAIN logs : Created(c, logs[c], DOMAIN logs, reqs)
    BY <2>1, <2>a, CreatedMore
  <2> QED
    BY <1>2, <2>1, <2>2, <2>3, <2>4, <2>5 DEF LogInv, OfItsBlock
<1>10. AnswerInv'
  BY <1>1, <1>2, <1>5 DEF NodeInv, AnswerInv, ReturnIds
<1> QED
  BY <1>6, <1>7, <1>8, <1>9, <1>10 DEF NodeInv

(* The pool gains a call, or some of the pool is taken for a block. *)
LEMMA PoolNode ==
    ASSUME NodeInv, UNCHANGED <<requests, block, made, logs, store, answers>>,
           pool \subseteq pool', pool' \subseteq DOMAIN requests, pool' \intersect DOMAIN logs = {},
           batch' \subseteq pool', batch' \intersect block = {}
    PROVE  NodeInv'
<1>2. BlockInv'
  BY DEF NodeInv, BlockInv
<1>3. KeyInv'
  BY DEF NodeInv, KeyInv, Own
<1>4. StoreInv'
  BY DEF NodeInv, StoreInv, Own, Run
<1>5. LogInv'
  BY DEF NodeInv, LogInv, OfItsBlock
<1>6. AnswerInv'
  BY DEF NodeInv, AnswerInv, ReturnIds
<1> QED
  BY <1>2, <1>3, <1>4, <1>5, <1>6 DEF NodeInv

(* Some calls are answered. *)
LEMMA AnswerNode ==
    ASSUME NodeInv, UNCHANGED <<requests, pool, blockVars, logs, store>>,
           NEW cs, cs \subseteq DOMAIN requests, NEW answer,
           \/ answer = Failed
           \/ \A c \in cs : c \in DOMAIN logs /\ answer = [ok |-> TRUE, keys |-> ReturnIds(c)],
           answers' = [c \in DOMAIN answers \union cs |-> IF c \in cs THEN answer ELSE answers[c]]
    PROVE  NodeInv'
<1>1. UNCHANGED <<requests, pool, batch, block, made, logs, store>>
  BY DEF blockVars
<1>2. BlockInv'
  BY <1>1 DEF NodeInv, BlockInv
<1>3. KeyInv'
  BY <1>1 DEF NodeInv, KeyInv, Own
<1>4. StoreInv'
  BY <1>1 DEF NodeInv, StoreInv, Own, Run
<1>5. LogInv'
  BY <1>1 DEF NodeInv, LogInv, OfItsBlock
<1>6. AnswerInv'
  <2> SUFFICES ASSUME NEW c \in DOMAIN answers'
               PROVE  \/ answers'[c] = Failed'
                      \/ c \in DOMAIN logs' /\ answers'[c] = [ok |-> TRUE, keys |-> ReturnIds(c)']
    BY DEF AnswerInv
  <2>1. Failed' = Failed /\ ReturnIds(c)' = ReturnIds(c)
    BY <1>1 DEF Failed, ReturnIds
  <2> QED
    BY <1>1, <2>1 DEF NodeInv, AnswerInv
<1> QED
  BY <1>2, <1>3, <1>4, <1>5, <1>6 DEF NodeInv

LEMMA ExecuteNode ==
    ASSUME CallInv, NodeInv, NEW c \in DOMAIN requests, Execute(c)
    PROVE  NodeInv'
<1>1. /\ c \in batch /\ batch' = batch \ {c} /\ block' = block \union {c}
      /\ UNCHANGED <<requests, pool, logs, answers>>
  BY DEF Execute
<1>2. BlockInv /\ KeyInv /\ StoreInv /\ LogInv /\ AnswerInv
  BY DEF NodeInv
<1>3. /\ c \in pool /\ c \notin block /\ c \notin DOMAIN logs /\ c \notin Run
      /\ block \subseteq DOMAIN requests /\ DOMAIN logs \subseteq DOMAIN requests
  BY <1>1, <1>2 DEF BlockInv, Run
<1>4. requests[c].keys \in Seq(Keys) /\ requests[c].op \in {"create", "remove"}
  BY CallFacts
<1>5. /\ requests[c].op = "create" => \A j \in 1 .. Len(requests[c].keys) : requests[c].keys[j][1] = c
      /\ requests[c].op = "remove" => \A k \in ToSet(requests[c].keys) : k[1] \in DOMAIN logs
  BY <1>2 DEF KeyInv, Own
<1>6. requests[c].op = "create" => \A k \in ToSet(requests[c].keys) : k[1] = c /\ k \in Keys
  BY <1>4, <1>5 DEF ToSet
<1>7. BlockInv'
  BY <1>1, <1>2 DEF BlockInv
<1>8. KeyInv'
  BY <1>1, <1>2 DEF KeyInv, Own
<1>9. AnswerInv'
  BY <1>1, <1>2 DEF AnswerInv, ReturnIds
<1>10. Run' = Run \union {c}
  BY <1>1 DEF Run
<1>11. CASE requests[c].op = "create"
  <2>1. made' = made \o requests[c].keys /\ store' = store \union ToSet(requests[c].keys)
    BY <1>11 DEF Execute
  <2>2. store' \subseteq Keys /\ \A k \in store' : k[1] \in Run'
    BY <1>2, <1>6, <1>10, <1>11, <2>1 DEF StoreInv
  <2>3. ASSUME NEW d \in Run', requests[d].op = "remove"
        PROVE  ToSet(requests[d].keys) \intersect store' = {}
    <3>1. d \in Run /\ d \in DOMAIN requests
      BY <1>3, <1>10, <1>11, <2>3 DEF Run
    <3>2. ToSet(requests[d].keys) \intersect store = {}
      BY <1>2, <2>3, <3>1 DEF StoreInv, Own
    <3>3. \A k \in ToSet(requests[d].keys) : k[1] # c
      BY <1>2, <1>3, <2>3, <3>1 DEF KeyInv, Own
    <3> QED
      BY <1>6, <1>11, <2>1, <3>2, <3>3
  <2>4. StoreInv'
    BY <1>1, <2>2, <2>3 DEF StoreInv, Own
  <2>5. Tells(made', block', requests)
    BY <1>1, <1>2, <1>4, <1>5, <1>11, <2>1, TellsAdded DEF LogInv
  <2>6. ASSUME NEW d \in block'
        PROVE  Created(d, made', block', requests)
    <3>1. requests[d].keys \in Seq(Keys)
      BY <1>1, <1>3, <1>4, CallFacts
    <3>2. d \in block => Created(d, made, block, requests)
      BY <1>2 DEF LogInv
    <3>3. Tells(made, block, requests) /\ d \in block \union {c}
      BY <1>1, <1>2 DEF LogInv
    <3> QED
      BY <1>1, <1>3, <1>4, <1>5, <1>11, <2>1, <3>1, <3>2, <3>3, CreatedAdded
  <2>7. LogInv'
    BY <1>1, <1>2, <2>5, <2>6 DEF LogInv, OfItsBlock
  <2> QED
    BY <1>7, <1>8, <1>9, <2>4, <2>7 DEF NodeInv
<1>12. CASE requests[c].op = "remove"
  <2>1. made' = made /\ store' = store \ ToSet(requests[c].keys)
    BY <1>12 DEF Execute
  <2>2. StoreInv'
    BY <1>1, <1>2, <1>10, <2>1 DEF StoreInv, Own
  <2>3. Tells(made', block', requests)
    BY <1>1, <1>2, <2>1, TellsMore DEF LogInv
  <2>4. ASSUME NEW d \in block'
        PROVE  Created(d, made', block', requests)
    <3>1. CASE d \in block
      BY <1>1, <1>2, <2>1, <3>1, CreatedMore DEF LogInv
    <3>2. CASE d = c
      BY <1>12, <2>3, <3>2 DEF Created
    <3> QED
      BY <1>1, <3>1, <3>2
  <2>5. LogInv'
    BY <1>1, <1>2, <2>3, <2>4 DEF LogInv, OfItsBlock
  <2> QED
    BY <1>7, <1>8, <1>9, <2>2, <2>5 DEF NodeInv
<1> QED
  BY <1>4, <1>11, <1>12

LEMMA AddNode ==
    ASSUME NodeInv, AddBlock
    PROVE  NodeInv'
<1>1. /\ batch = {} /\ pool' = pool \ block /\ block' = {} /\ made' = <<>> /\ batch' = batch
      /\ logs' = [c \in DOMAIN logs \union block |-> IF c \in block THEN made ELSE logs[c]]
      /\ UNCHANGED <<requests, store, answers>>
  BY DEF AddBlock
<1>2. BlockInv /\ KeyInv /\ StoreInv /\ LogInv /\ AnswerInv
  BY DEF NodeInv
<1>3. block \subseteq pool /\ pool \subseteq DOMAIN requests /\ pool \intersect DOMAIN logs = {}
  BY <1>2 DEF BlockInv
<1>4. DOMAIN logs' = DOMAIN logs \union block /\ \A c \in DOMAIN logs : logs'[c] = logs[c]
  BY <1>1, <1>3
<1>5. BlockInv'
  BY <1>1, <1>2, <1>4 DEF BlockInv
<1>6. KeyInv'
  BY <1>1, <1>2, <1>4 DEF KeyInv, Own
<1>7. Run' = Run
  BY <1>1, <1>4 DEF Run
<1>8. StoreInv'
  BY <1>1, <1>2, <1>7 DEF StoreInv, Own
<1>9. LogInv'
  <2>1. Tells(made', block', requests')
    BY <1>1 DEF Tells
  <2>2. ASSUME NEW c \in DOMAIN logs'
        PROVE  Created(c, logs'[c], DOMAIN logs', requests')
    <3>1. CASE c \in block
      <4>1. logs'[c] = made /\ Created(c, made, block, requests) /\ block \subseteq DOMAIN logs'
        BY <1>1, <1>2, <1>4, <3>1 DEF LogInv
      <4> QED
        BY <1>1, <3>1, <4>1, CreatedMore
    <3>2. CASE c \in DOMAIN logs
      <4>1. logs'[c] = logs[c] /\ Created(c, logs[c], DOMAIN logs, requests)
            /\ DOMAIN logs \subseteq DOMAIN logs'
        BY <1>2, <1>4, <3>2 DEF LogInv
      <4> QED
        BY <1>1, <3>2, <4>1, CreatedMore
    <3> QED
      BY <1>4, <3>1, <3>2
  <2>3. ASSUME NEW c \in DOMAIN logs'
        PROVE  OfItsBlock(c)'
    <3>1. CASE c \in block
      <4>1. \A j \in 1 .. Len(made) : made[j][1] \in block
        BY <1>2 DEF LogInv, Tells
      <4>2. \A d \in block : d \in DOMAIN logs' /\ logs'[d] = made
        BY <1>1
      <4> QED
        BY <3>1, <4>1, <4>2 DEF OfItsBlock
    <3>2. CASE c \in DOMAIN logs
      <4>1. OfItsBlock(c) /\ logs'[c] = logs[c]
        BY <1>2, <1>4, <3>2 DEF LogInv
      <4> QED
        BY <1>4, <4>1 DEF OfItsBlock
    <3> QED
      BY <1>4, <3>1, <3>2
  <2> QED
    BY <1>1, <2>1, <2>2, <2>3 DEF LogInv
<1>10. AnswerInv'
  BY <1>1, <1>2, <1>4 DEF AnswerInv, ReturnIds, Failed
<1> QED
  BY <1>5, <1>6, <1>8, <1>9, <1>10 DEF NodeInv

--------------------------------------------------------------------------------
(* Every step, for the calls *)

AInv == RInv /\ WaitInv /\ NodeInv

LEMMA InitAInv == Init => AInv
<1> SUFFICES ASSUME Init PROVE AInv
  OBVIOUS
<1>1. RInv
  BY InitRInv
<1>2. WaitInv
  <2>1. \A t \in Tasks : task[t] = Idle
    BY DEF Init
  <2>2. CallInv
    BY <2>1, IdleFacts DEF Init, CallInv, CallOf
  <2>3. AddressInv /\ workers = <<>>
    BY DEF Init, AddressInv
  <2> QED
    BY <2>2, <2>3 DEF WaitInv
<1>3. NodeInv
  <2>1. BlockInv /\ KeyInv /\ StoreInv /\ AnswerInv
    BY DEF Init, BlockInv, KeyInv, StoreInv, AnswerInv, Run
  <2>2. Tells(<<>>, {}, requests)
    BY DEF Tells
  <2>3. LogInv
    BY <2>2 DEF Init, LogInv
  <2> QED
    BY <2>1, <2>3 DEF NodeInv
<1> QED
  BY <1>1, <1>2, <1>3 DEF AInv

LEMMA WaitStays ==
    ASSUME WaitInv, UNCHANGED <<accounts, workers, task, requests>>
    PROVE  WaitInv'
<1>1. CallInv'
  BY DEF WaitInv, CallInv, CallOf
<1>2. AddressInv'
  BY DEF WaitInv, AddressInv
<1>3. ASSUME NEW w \in 1 .. Len(workers)
      PROVE  QueueOf(w)'
  BY DEF WaitInv, QueueOf, Waits
<1> QED
  BY <1>1, <1>2, <1>3 DEF WaitInv

(* A task gets an answer for its call. *)
LEMMA AnsweredNode ==
    ASSUME NodeInv, UNCHANGED <<requests, nodeVars>>, NEW t, task[t].call \in DOMAIN requests,
           NEW answer,
           \/ answer = Failed
           \/ task[t].call \in DOMAIN logs
              /\ answer = [ok |-> TRUE, keys |-> ReturnIds(task[t].call)],
           Answered(t, answer)
    PROVE  NodeInv'
<1>1. UNCHANGED <<requests, pool, blockVars, logs, store>>
  BY DEF nodeVars
<1>2. answers' = [c \in DOMAIN answers \union {task[t].call} |->
                    IF c \in {task[t].call} THEN answer ELSE answers[c]]
  BY DEF Answered
<1> QED
  BY <1>1, <1>2, AnswerNode

LEMMA NextCall ==
    ASSUME AInv, NEW t \in Tasks, NEW a \in Addresses, CreateEntries(t, a) \/ RemoveEntries(t, a)
    PROVE  WaitInv' /\ NodeInv'
<1>1. RInv /\ WaitInv /\ NodeInv /\ CallInv /\ Len(requests) \in Nat
  BY DEF AInv, WaitInv, CallInv
<1>2. ASSUME NEW op \in {"create", "remove"}, NEW keys \in Seq(Keys), StartCall(t, a, op, keys),
             op = "create" => \A j \in 1 .. Len(keys) : keys[j][1] = Len(requests) + 1,
             op = "remove" => \A k \in ToSet(keys) : k[1] \in DOMAIN logs
      PROVE  WaitInv' /\ NodeInv'
  <2>1. WaitInv' /\ requests' = Append(requests, [op |-> op, from |-> a, keys |-> keys])
    BY <1>1, <1>2, CallWaits
  <2>2. UNCHANGED <<pool, blockVars, logs, store, answers>>
    BY <1>2 DEF StartCall, nodeVars
  <2>3. NodeInv'
    BY <1>1, <1>2, <2>1, <2>2, CallNode
  <2> QED
    BY <2>1, <2>3
<1>3. CASE CreateEntries(t, a)
  <2>1. PICK n \in Batches : StartCall(t, a, "create", [j \in 1 .. n |-> <<Len(requests) + 1, j>>])
    BY <1>3 DEF CreateEntries
  <2> DEFINE keys == [j \in 1 .. n |-> <<Len(requests) + 1, j>>]
  <2>2. n \in Nat /\ Len(requests) + 1 \in Calls
    BY <1>1, <2>1, ConfigurationAssumption DEF StartCall, Calls
  <2>3. \A j \in 1 .. n : <<Len(requests) + 1, j>> \in Keys
    BY <2>2 DEF Keys
  <2>4. keys \in Seq(Keys) /\ Len(keys) = n /\ \A j \in 1 .. Len(keys) : keys[j][1] = Len(requests) + 1
    BY <2>2, <2>3
  <2> HIDE DEF keys
  <2>5. StartCall(t, a, "create", keys)
    BY <2>1 DEF keys
  <2> QED
    BY <1>2, <2>4, <2>5
<1>4. CASE RemoveEntries(t, a)
  <2>1. PICK c \in DOMAIN answers : \E k \in ToSet(answers[c].keys) : StartCall(t, a, "remove", <<k>>)
    BY <1>4 DEF RemoveEntries
  <2>2. PICK k \in ToSet(answers[c].keys) : StartCall(t, a, "remove", <<k>>)
    BY <2>1
  <2>3. <<k>> \in Seq(Keys) /\ k[1] \in DOMAIN logs
    BY <1>1, AnswerKeys
  <2>4. \A l \in ToSet(<<k>>) : l[1] \in DOMAIN logs
    BY <2>3 DEF ToSet
  <2> QED
    BY <1>2, <2>2, <2>3, <2>4
<1> QED
  BY <1>3, <1>4

LEMMA NextQueue ==
    ASSUME AInv, NEW t \in Tasks, Queue(t)
    PROVE  WaitInv' /\ NodeInv'
<1>1. RInv /\ WaitInv /\ NodeInv /\ task[t].pc = "sending"
      /\ UNCHANGED <<accounts, nodeVars, requests>>
  BY DEF AInv, Queue
<1>2. task[t].call \in DOMAIN requests
  BY <1>1 DEF WaitInv, CallInv, CallOf
<1>3. UNCHANGED <<pool, blockVars, logs, store>>
  BY <1>1 DEF nodeVars
<1>4. CASE workers[task[t].worker].alive
  <2>1. /\ workers' = [workers EXCEPT ![task[t].worker].queue = Append(@, t)]
        /\ Become(t, "waiting") /\ UNCHANGED answers
    BY <1>4 DEF Queue
  <2>2. WaitInv'
    BY <1>1, <2>1, QueueWaits
  <2>3. NodeInv'
    BY <1>1, <1>3, <2>1, NodeStays
  <2> QED
    BY <2>2, <2>3
<1>5. CASE ~workers[task[t].worker].alive
  <2>1. Answered(t, Failed) /\ UNCHANGED workers
    BY <1>5 DEF Queue
  <2>2. NodeInv'
    BY <1>1, <1>2, <2>1, AnsweredNode
  <2>3. task'[t] = Idle /\ \A u \in Tasks \ {t} : task'[u] = task[u]
    BY <1>1, <2>1, TaskBecomes DEF Answered, Return
  <2>4. Moves(t)
    BY <1>1, <2>3, IdleFacts DEF Moves
  <2>5. AddsWorkers /\ AddressInv'
    BY <1>1, <2>1, WorkersStay DEF WaitInv
  <2> QED
    BY <1>1, <2>2, <2>4, <2>5, MoveWaits
<1> QED
  BY <1>4, <1>5

LEMMA NextWorker ==
    ASSUME AInv, NEW w \in DOMAIN workers, WorkerStep(w)
    PROVE  WaitInv' /\ NodeInv'
<1>1. RInv /\ WaitInv /\ NodeInv /\ w \in 1 .. Len(workers)
  BY DEF AInv, RInv, RegistryInv
<1>2. ASSUME Working(w)
      PROVE  task[First(w)].call \in DOMAIN requests /\ First(w) \in Tasks
  BY <1>1, <1>2, FirstWaits DEF WaitInv, CallInv
<1>3. CASE SendFirst(w)
  <2>1. WaitInv'
    BY <1>1, <1>3, WaitStays DEF SendFirst, registryVars
  <2>2. /\ Working(w) /\ ~Sent(w) /\ pool' = pool \union {task[First(w)].call}
        /\ UNCHANGED <<requests, batch, block, made, logs, store, answers>>
    BY <1>3 DEF SendFirst, blockVars
  <2>3. BlockInv /\ task[First(w)].call \notin DOMAIN logs
    BY <1>1, <2>2 DEF Sent, NodeInv
  <2>4. /\ pool \subseteq pool' /\ pool' \subseteq DOMAIN requests
        /\ pool' \intersect DOMAIN logs = {} /\ batch' \subseteq pool' /\ batch' \intersect block = {}
    BY <1>2, <2>2, <2>3 DEF BlockInv
  <2> QED
    BY <1>1, <2>1, <2>2, <2>4, PoolNode
<1>4. ASSUME Working(w), NEW answer, Finish(w, answer),
             \/ answer = Failed
             \/ task[First(w)].call \in DOMAIN logs
                /\ answer = [ok |-> TRUE, keys |-> ReturnIds(task[First(w)].call)]
      PROVE  WaitInv' /\ NodeInv'
  <2>1. WaitInv'
    BY <1>1, <1>4, FinishWaits
  <2>2. Answered(First(w), answer) /\ UNCHANGED <<requests, nodeVars>>
    BY <1>4 DEF Finish
  <2>3. NodeInv'
    BY <1>1, <1>2, <1>4, <2>2, AnsweredNode
  <2> QED
    BY <2>1, <2>3
<1>5. CASE FailFirst(w)
  BY <1>4, <1>5 DEF FailFirst
<1>6. CASE GotReceipt(w)
  BY <1>4, <1>6 DEF GotReceipt
<1>7. CASE SignerPanics(w)
  <2> DEFINE calls == {task[t].call : t \in ToSet(workers[w].queue)}
  <2>1. WaitInv'
    BY <1>1, <1>7, PanicWaits
  <2>2. \A t \in ToSet(workers[w].queue) : t \in Tasks /\ task[t].call \in DOMAIN requests
    <3>1. workers[w].queue \in Seq(Tasks)
      BY <1>1, QueueType
    <3>2. \A t \in ToSet(workers[w].queue) : t \in Tasks
      BY <3>1 DEF ToSet
    <3>3. \A t \in ToSet(workers[w].queue) : Waits(t, w)
      BY <1>1, <1>7, <3>2, PanicWaits
    <3> QED
      BY <1>1, <3>2, <3>3 DEF Waits, WaitInv, CallInv, CallOf
  <2>3. calls \subseteq DOMAIN requests
    BY <2>2
  <2>4. /\ answers' = [c \in DOMAIN answers \union calls |-> IF c \in calls THEN Failed ELSE answers[c]]
        /\ UNCHANGED <<requests, pool, blockVars, logs, store>>
    BY <1>7 DEF SignerPanics, nodeVars
  <2> HIDE DEF calls
  <2>5. NodeInv'
    BY <1>1, <2>3, <2>4, AnswerNode
  <2> QED
    BY <2>1, <2>5
<1>8. CASE CheckFirst(w)
  BY <1>1, <1>8, WaitStays, NodeStays DEF CheckFirst, registryVars
<1> QED
  BY <1>3, <1>5, <1>6, <1>7, <1>8 DEF WorkerStep

LEMMA NextAInv == AInv /\ [Next]_vars => AInv'
<1> SUFFICES ASSUME AInv, [Next]_vars PROVE AInv'
  OBVIOUS
<1>1. RInv /\ WaitInv /\ NodeInv /\ CallInv
  BY DEF AInv, WaitInv
<1>2. RInv'
  BY <1>1, NextRInv
<1>3. CASE UNCHANGED vars
  BY <1>1, <1>2, <1>3, WaitStays, NodeStays DEF vars, registryVars, nodeVars, AInv
<1>4. ASSUME NEW t \in Tasks,
             \/ RegistryStep(t) \/ SyncAccounts(t)
             \/ \E a \in Addresses : Register(t, a) \/ Generate(t, a) \/ Load(t, a)
      PROVE  WaitInv' /\ NodeInv'
  <2>1. WaitInv'
    BY <1>1, <1>4, RegistryWaits
  <2>2. UNCHANGED <<requests, nodeVars, answers>>
    BY <1>4 DEF RegistryStep, ValidateChain, FailOperation, ListAccounts, InsertAccount, SyncInsert,
       CheckLoaded, SyncAccounts, Register, Generate, Load
  <2> QED
    BY <1>1, <2>1, <2>2, NodeStays DEF nodeVars
<1>5. ASSUME NEW t \in Tasks, NEW a \in Addresses, CreateEntries(t, a) \/ RemoveEntries(t, a)
      PROVE  WaitInv' /\ NodeInv'
  BY <1>5, NextCall
<1>6. ASSUME NEW t \in Tasks, Queue(t)
      PROVE  WaitInv' /\ NodeInv'
  BY <1>6, NextQueue
<1>7. ASSUME NEW w \in DOMAIN workers, WorkerStep(w)
      PROVE  WaitInv' /\ NodeInv'
  BY <1>7, NextWorker
<1>8. ASSUME NEW b \in SUBSET pool, BeginBlock(b)
      PROVE  WaitInv' /\ NodeInv'
  <2>1. WaitInv'
    BY <1>1, <1>8, WaitStays DEF BeginBlock, registryVars
  <2>2. UNCHANGED <<requests, pool, block, made, logs, store, answers>> /\ block = {} /\ batch' = b
    BY <1>8 DEF BeginBlock
  <2>3. NodeInv'
    BY <1>1, <2>2, PoolNode DEF NodeInv, BlockInv
  <2> QED
    BY <2>1, <2>3
<1>9. ASSUME NEW c \in DOMAIN requests, Execute(c)
      PROVE  WaitInv' /\ NodeInv'
  BY <1>1, <1>9, WaitStays, ExecuteNode DEF Execute, registryVars
<1>10. ASSUME AddBlock
       PROVE  WaitInv' /\ NodeInv'
  BY <1>1, <1>10, WaitStays, AddNode DEF AddBlock, registryVars
<1>11. ASSUME SwitchChain \/ \E a \in Addresses : ManageAccount(a)
       PROVE  WaitInv' /\ NodeInv'
  <2>1. UNCHANGED <<accounts, workers, task, requests, pool, blockVars, logs, store, answers>>
    BY <1>11 DEF SwitchChain, ManageAccount, registryVars
  <2> QED
    BY <1>1, <2>1, WaitStays, NodeStays
<1>12. CASE Next
  <2>1. WaitInv' /\ NodeInv'
    BY <1>4, <1>5, <1>6, <1>7, <1>8, <1>9, <1>10, <1>11, <1>12 DEF Next
  <2> QED
    BY <1>2, <2>1 DEF AInv
<1> QED
  BY <1>3, <1>12

LEMMA AlwaysAInv == Spec => []AInv
  BY InitAInv, NextAInv, PTL DEF Spec

(* A list with one run of the keys of a call and no others. *)
LEMMA OnlyRun ==
    ASSUME NEW S, NEW list \in Seq(S), NEW own \in Seq(S), NEW c, OneRun(own, c, list),
           \A j \in 1 .. Len(list) : list[j][1] = c
    PROVE  list = own
<1>1. PICK i \in 0 .. Len(list) - Len(own) : \A j \in 1 .. Len(list) :
        IF j \in i + 1 .. i + Len(own) THEN list[j] = own[j - i] ELSE list[j][1] # c
  BY DEF OneRun
<1>2. Len(list) \in Nat /\ Len(own) \in Nat /\ i \in Nat /\ i + Len(own) <= Len(list)
  BY <1>1
<1>3. \A j \in 1 .. Len(list) : j \in i + 1 .. i + Len(own) /\ list[j] = own[j - i]
  BY <1>1
<1>4. CASE Len(list) = 0
  BY <1>2, <1>4
<1>5. CASE Len(list) # 0
  <2>1. 1 \in 1 .. Len(list) /\ Len(list) \in 1 .. Len(list)
    BY <1>2, <1>5
  <2>2. i = 0
    BY <1>2, <1>3, <2>1
  <2>3. Len(list) = Len(own)
    BY <1>2, <1>3, <2>1, <2>2
  <2>4. \A j \in 1 .. Len(list) : list[j] = own[j]
    BY <1>3, <2>2
  <2> QED
    BY <2>3, <2>4
<1> QED
  BY <1>4, <1>5

(* What create_entries and remove_entries answer is true, of any number of     *)
(* calls and however the node puts them into blocks: the keys are the created  *)
(* ones, and no others unless another create is in the block.                  *)
THEOREM AnswersAreTrue == Spec => []AnswersTrue
<1>1. AInv => AnswersTrue
  <2> SUFFICES ASSUME AInv, NEW c \in DOMAIN answers, answers[c].ok
               PROVE  IF requests[c].op = "create"
                      THEN /\ InOneRun(c, answers[c].keys)
                           /\ OtherCreates(c) = {} => answers[c].keys = Own(c)
                      ELSE ToSet(Own(c)) \intersect store = {}
    BY DEF AnswersTrue
  <2>1. CallInv /\ BlockInv /\ KeyInv /\ StoreInv /\ LogInv /\ AnswerInv
    BY DEF AInv, WaitInv, NodeInv
  <2>2. answers[c] # Failed
    BY DEF Failed
  <2>3. c \in DOMAIN logs /\ answers[c].keys = ReturnIds(c)
    BY <2>1, <2>2 DEF AnswerInv
  <2>4. requests[c].op \in {"create", "remove"} /\ Own(c) \in Seq(Keys)
    BY <2>1, CallFacts DEF BlockInv, Own
  <2>5. CASE requests[c].op = "create"
    <3>1. PICK list : list = logs[c] /\ answers[c].keys = list
      BY <2>3, <2>5 DEF ReturnIds
    <3>2. Created(c, list, DOMAIN logs, requests) /\ OfItsBlock(c)
      BY <2>1, <2>3, <3>1 DEF LogInv
    <3>3. list \in Seq(Keys) /\ OneRun(Own(c), c, list)
      BY <2>5, <3>2 DEF Created, Tells, Own
    <3>4. InOneRun(c, list)
      <4>1. DOMAIN list = 1 .. Len(list)
        BY <3>3
      <4> QED
        BY <3>3, <4>1, Zenon DEF InOneRun, OneRun
    <3>5. ASSUME OtherCreates(c) = {}
          PROVE  list = Own(c)
      <4>1. ASSUME NEW j \in 1 .. Len(list)
            PROVE  list[j][1] = c
        <5>1. list[j][1] \in DOMAIN logs /\ logs[list[j][1]] = logs[c]
          BY <3>1, <3>2 DEF OfItsBlock
        <5>2. requests[list[j][1]].op = "create"
          BY <3>2 DEF Created, Tells
        <5> QED
          BY <3>5, <5>1, <5>2 DEF OtherCreates
      <4> QED
        BY <2>4, <3>3, <4>1, OnlyRun
    <3> QED
      BY <2>5, <3>1, <3>4, <3>5
  <2>6. CASE requests[c].op = "remove"
    BY <2>1, <2>3, <2>6 DEF StoreInv, Run
  <2> QED
    BY <2>4, <2>5, <2>6
<1> QED
  BY <1>1, AlwaysAInv, PTL

--------------------------------------------------------------------------------
BoundInv == local \in SUBSET Addresses /\ started \in 0 .. MaxOperations

LEMMA NextBound == BoundInv /\ [Next]_vars => BoundInv'
<1> SUFFICES ASSUME BoundInv, [Next]_vars PROVE BoundInv'
  OBVIOUS
<1>1. UNCHANGED local \/ \E a \in Addresses : local' = local \union {a}
  BY DEF Next, vars, registryVars, RegistryStep, WorkerStep, Register, Generate, Load,
     SyncAccounts, ValidateChain, FailOperation, ListAccounts, InsertAccount, SyncInsert,
     CheckLoaded, CreateEntries, RemoveEntries, StartCall, Queue, CheckFirst, SendFirst,
     FailFirst, SignerPanics, GotReceipt, Finish, BeginBlock, Execute, AddBlock, SwitchChain, ManageAccount
<1>2. UNCHANGED started \/ (started < MaxOperations /\ started' = started + 1)
  BY DEF Next, vars, RegistryStep, WorkerStep, Register, Generate, Load, StartOperation,
     SyncAccounts, ValidateChain, FailOperation, ListAccounts, InsertAccount, SyncInsert,
     CheckLoaded, CreateEntries, RemoveEntries, StartCall, Queue, CheckFirst, SendFirst,
     FailFirst, SignerPanics, GotReceipt, Finish, BeginBlock, Execute, AddBlock, SwitchChain, ManageAccount
<1>3. local' \in SUBSET Addresses
  BY <1>1 DEF BoundInv
<1>4. started' \in 0 .. MaxOperations
  BY <1>2, ConfigurationAssumption DEF BoundInv
<1> QED
  BY <1>3, <1>4 DEF BoundInv

(* What a worker has checked is a request. *)
PassedInv == passed \subseteq DOMAIN requests

LEMMA NextPassed == AInv /\ PassedInv /\ [Next]_vars => PassedInv'
<1> SUFFICES ASSUME AInv, PassedInv, [Next]_vars PROVE PassedInv'
  OBVIOUS
<1>1. RInv /\ WaitInv /\ requests \in Seq(CallRecords)
  BY DEF AInv, WaitInv, CallInv
<1>2. UNCHANGED requests \/ \E r : requests' = Append(requests, r)
  BY DEF Next, vars, RegistryStep, WorkerStep, Register, Generate, Load,
     SyncAccounts, ValidateChain, FailOperation, ListAccounts, InsertAccount, SyncInsert,
     CheckLoaded, CreateEntries, RemoveEntries, StartCall, Queue, CheckFirst, SendFirst,
     FailFirst, SignerPanics, GotReceipt, Finish, BeginBlock, Execute, AddBlock, SwitchChain,
     ManageAccount
<1>3. DOMAIN requests \subseteq DOMAIN requests'
  BY <1>1, <1>2
<1>4. \/ passed' \subseteq passed
      \/ \E w \in DOMAIN workers : Working(w) /\ passed' = passed \union {task[First(w)].call}
  BY DEF Next, vars, nodeVars, RegistryStep, WorkerStep, Register, Generate, Load,
     SyncAccounts, ValidateChain, FailOperation, ListAccounts, InsertAccount, SyncInsert,
     CheckLoaded, CreateEntries, RemoveEntries, StartCall, Queue, CheckFirst, SendFirst,
     FailFirst, SignerPanics, GotReceipt, Finish, BeginBlock, Execute, AddBlock, SwitchChain,
     ManageAccount
<1>5. ASSUME NEW w \in DOMAIN workers, Working(w)
      PROVE  task[First(w)].call \in DOMAIN requests
  <2>1. w \in 1 .. Len(workers)
    BY <1>1 DEF RInv, RegistryInv
  <2> QED
    BY <1>1, <1>5, <2>1, FirstWaits
<1> QED
  BY <1>3, <1>4, <1>5 DEF PassedInv

(* The registry, the queues, the blocks and the answers keep their types, the *)
(* worker of an address is of that address, and a task waits exactly while it *)
(* stands in the queue of a worker.                                           *)
THEOREM TypeCorrect == Spec => []TypeOK
<1>1. Init => BoundInv
  BY ConfigurationAssumption DEF Init, BoundInv
<1>2. Spec => []BoundInv
  BY <1>1, NextBound, PTL DEF Spec
<1>a. Init => PassedInv
  BY DEF Init, PassedInv
<1>b. Spec => []PassedInv
  BY <1>a, NextPassed, AlwaysAInv, PTL DEF Spec
<1>3. AInv /\ BoundInv /\ PassedInv => TypeOK
  <2> SUFFICES ASSUME AInv, BoundInv, PassedInv PROVE TypeOK
    OBVIOUS
  <2>1. RInv /\ TaskInv /\ RegistryInv /\ WaitInv /\ CallInv
        /\ BlockInv /\ StoreInv /\ LogInv
    BY DEF AInv, RInv, WaitInv, NodeInv
  <2>2. /\ accounts \in [Addresses -> 0 .. Len(workers)] /\ workers \in Seq(Workers)
        /\ chain \in Chains /\ managed \in SUBSET Addresses
    BY <2>1 DEF RegistryInv
  <2>3. task \in [Tasks ->
        [pc : {"idle", "validating", "listing", "syncing", "checking", "inserting", "sending",
               "waiting"},
         op : {"register", "load", "sync", "create", "remove", None},
         address : Addresses \union {None}, chain : Chains \union {None},
         listed : SUBSET Addresses, worker : 0 .. Len(workers), call : 0 .. Len(requests)]]
    <3>1. PICK S : task \in [Tasks -> Jobs(S)]
      BY <2>1 DEF TaskInv
    <3> SUFFICES ASSUME NEW t \in Tasks
                 PROVE  task[t] \in
        [pc : {"idle", "validating", "listing", "syncing", "checking", "inserting", "sending",
               "waiting"},
         op : {"register", "load", "sync", "create", "remove", None},
         address : Addresses \union {None}, chain : Chains \union {None},
         listed : SUBSET Addresses, worker : 0 .. Len(workers), call : 0 .. Len(requests)]
      BY <3>1
    <3>2. task[t] \in Jobs(S)
      BY <3>1
    <3>3. task[t].call \in 0 .. Len(requests) /\ task[t].worker \in 0 .. Len(workers)
      BY <2>1 DEF CallInv, CallOf
    <3> QED
      BY <3>2, <3>3 DEF Jobs, PCs, Ops
  <2>4. requests \in Seq([op : {"create", "remove"}, from : Addresses, keys : Seq(Keys)])
    BY <2>1 DEF CallInv, CallRecords
  <2>5. /\ pool \in SUBSET DOMAIN requests /\ batch \union block \in SUBSET pool
        /\ DOMAIN logs \in SUBSET DOMAIN requests /\ DOMAIN answers \in SUBSET DOMAIN requests
    BY <2>1 DEF BlockInv
  <2>6. made \in Seq(Keys) /\ \A c \in DOMAIN logs : logs[c] \in Seq(Keys)
    BY <2>1 DEF LogInv, Created, Tells
  <2>7. store \in SUBSET Keys
    BY <2>1 DEF StoreInv
  <2>8. \A a \in Addresses : accounts[a] # 0 => workers[accounts[a]].address = a
    BY <2>1 DEF WaitInv, AddressInv
  <2>9. ASSUME NEW t \in Tasks
        PROVE  task[t].pc = "waiting" <=>
                \E w \in DOMAIN workers : \E j \in DOMAIN workers[w].queue : workers[w].queue[j] = t
    <3>1. DOMAIN workers = 1 .. Len(workers)
      BY <2>2
    <3>2. ASSUME task[t].pc = "waiting"
          PROVE  \E w \in DOMAIN workers : \E j \in DOMAIN workers[w].queue : workers[w].queue[j] = t
      <4>1. task[t].worker \in DOMAIN workers /\ Waits(t, task[t].worker)
        BY <2>1, <3>1, <3>2 DEF CallInv, CallOf, Waits
      <4> QED
        BY <2>1, <3>1, <4>1 DEF WaitInv, QueueOf
    <3>3. ASSUME NEW w \in DOMAIN workers, NEW j \in DOMAIN workers[w].queue, workers[w].queue[j] = t
          PROVE  task[t].pc = "waiting"
      BY <2>1, <3>1, <3>3 DEF WaitInv, QueueOf, Waits
    <3> QED
      BY <3>2, <3>3
  <2> QED
    BY <2>2, <2>3, <2>4, <2>5, <2>6, <2>7, <2>8, <2>9 DEF TypeOK, BoundInv, PassedInv
<1> QED
  BY <1>2, <1>b, <1>3, AlwaysAInv, PTL

(* An account that the user registered is never replaced by one that the node *)
(* should sign for, and every account is of the configured chain, whatever    *)
(* happens between the check of the chain, the list of the node's accounts    *)
(* and the lock of the map.                                                   *)
THEOREM RegisteredAccountsKept == Spec => UserAccountsKept
<1>1. Spec => []RInv
  BY InitRInv, NextRInv, PTL DEF Spec
<1>2. RInv /\ [Next]_vars =>
        [/\ \A a \in Addresses :
              accounts[a] # 0 /\ workers[accounts[a]].signer = "user" =>
                  accounts'[a] # 0 /\ workers'[accounts'[a]].signer = "user"
         /\ \A w \in DOMAIN workers' : Configured \in {workers'[w].chain, None}]_vars
  <2> SUFFICES ASSUME RInv, [Next]_vars
               PROVE  /\ \A a \in Addresses :
                          accounts[a] # 0 /\ workers[accounts[a]].signer = "user" =>
                              accounts'[a] # 0 /\ workers'[accounts'[a]].signer = "user"
                      /\ \A w \in DOMAIN workers' : Configured \in {workers'[w].chain, None}
    OBVIOUS
  <2>1. Kept
    BY StepKept
  <2>2. DOMAIN workers' = 1 .. Len(workers')
    BY <2>1 DEF Kept
  <2> QED
    BY <2>1, <2>2 DEF Kept
<1> QED
  BY <1>1, <1>2, PTL DEF Spec, UserAccountsKept
================================================================================
