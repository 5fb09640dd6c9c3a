------------------------- MODULE AccountFilesProofs -------------------------
(***************************************************************************)
(* What the runs of AccountFiles check for a few tokens, for any tokens,   *)
(* files, requests and chains of rotations: the state keeps its types, no  *)
(* request loses the record of the account it uses, and no account goes    *)
(* back to an old refresh token.  While clients stay, a deleted account    *)
(* stays deleted; while the directory is in order as well (Orderly), every *)
(* account in service has its token there, no two share one, and a merge   *)
(* loses none.                                                             *)
(***************************************************************************)
EXTENDS AccountFiles, FiniteSetTheorems, TLAPS

Contents == Tokens \cup {Unreadable}

-----------------------------------------------------------------------------
(* Types, and who holds the lock *)

StateType ==
  /\ DOMAIN files \subseteq Tokens /\ files \in [DOMAIN files -> Contents]
  /\ DOMAIN store \subseteq Tokens /\ \A i \in DOMAIN store : store[i] \in Record
  /\ live \subseteq Tokens
  /\ task \in [Workers -> Task]
  /\ orphans \subseteq DiskOp /\ \A d \in orphans : d.kind = "write" => d.token \in Tokens

\* A request at work has an account; one that refreshes has captured its token.
TaskInv ==
  \A w \in Workers :
    /\ task[w].pc \notin {"idle", "gone"} => task[w].id \in Tokens
    /\ task[w].pc = "refresh" => task[w].sent \in Tokens

\* What an operation that acts on one file is about to do to it.
DiskOpOf(kind) ==
  CASE kind \in {"persist", "import"} -> {"write"}
    [] kind = "trash" -> {"move", "none"}
    [] kind = "delete" -> {"remove"}

OnOneFile == {"persist", "trash", "import", "delete"}

Proper(o) ==
  /\ o \in Operation
  /\ o.kind \in OnOneFile =>
       /\ o.disk.kind \in DiskOpOf(o.kind)
       /\ o.disk.kind = "write" => o.disk.token \in Tokens
  /\ o.kind = "sync" => \A p \in o.writes \cup o.upserts : p[2] \in o.found

OpInv == op # Nothing => Proper(op)

\* A request that writes or moves a file holds the lock, and the lock knows it.
LockInv ==
  /\ \A w \in Workers : task[w].pc \in {"persist", "trash"} =>
       op # Nothing /\ op.kind = task[w].pc /\ op.by = w
  /\ op # Nothing /\ op.kind \in {"persist", "trash"} =>
       task[op.by].pc = op.kind /\ task[op.by].id = op.disk.id

TypeInv == StateType /\ TaskInv /\ OpInv /\ LockInv

-----------------------------------------------------------------------------
(* Files and records *)

\* What a disk operation leaves: the other files, and in its own at most what it
\* writes.
LEMMA ExecuteIs ==
  ASSUME NEW d \in DiskOp
  PROVE  /\ DOMAIN Execute(d) \ {d.id} = DOMAIN files \ {d.id}
         /\ \A j \in DOMAIN files \ {d.id} : Execute(d)[j] = files[j]
         /\ d.kind = "write" => d.id \in DOMAIN Execute(d) /\ Execute(d)[d.id] = d.token
         /\ d.kind \in {"move", "remove"} => d.id \notin DOMAIN Execute(d)
         /\ d.kind = "none" => Execute(d) = files
<1>1. d.kind \in {"write", "move", "remove", "none"}
  BY DEF DiskOp
<1>2. CASE d.kind = "write"
  BY <1>2 DEF Execute, Put
<1>3. CASE d.kind \in {"move", "remove"}
  BY <1>3 DEF Execute, Drop
<1>4. CASE d.kind = "none"
  BY <1>4 DEF Execute
<1> QED
  BY <1>1, <1>2, <1>3, <1>4

LEMMA ExecuteType ==
  ASSUME StateType, NEW d \in DiskOp, d.kind = "write" => d.token \in Tokens
  PROVE  DOMAIN Execute(d) \subseteq Tokens /\ Execute(d) \in [DOMAIN Execute(d) -> Contents]
<1>1. d.id \in Tokens /\ d.kind \in {"write", "move", "remove", "none"}
  BY DEF DiskOp
<1>2. CASE d.kind = "write"
  BY <1>1, <1>2 DEF Execute, Put, StateType, Contents
<1>3. CASE d.kind \in {"move", "remove"}
  BY <1>1, <1>3 DEF Execute, Drop, StateType
<1>4. CASE d.kind = "none"
  BY <1>1, <1>4 DEF Execute, StateType
<1> QED
  BY <1>1, <1>2, <1>3, <1>4

\* A settled record stays as it was settled, unless nobody needs it any more.
LEMMA SettledIs ==
  ASSUME NEW i, NEW rec
  PROVE  /\ DOMAIN Settled(i, rec) \subseteq DOMAIN store
         /\ DOMAIN store \ {i} \subseteq DOMAIN Settled(i, rec)
         /\ \A j \in DOMAIN Settled(i, rec) \ {i} : Settled(i, rec)[j] = store[j]
         /\ i \in DOMAIN Settled(i, rec) => Settled(i, rec)[i] = rec
         /\ i \in DOMAIN store \ DOMAIN Settled(i, rec) => rec.detached /\ ~InUse(rec)
  BY DEF Settled, Stored, Drop

LEMMA StoredIsSettled ==
  ASSUME NEW i \in DOMAIN store, NEW rec
  PROVE  Stored(i, rec) = Settled(i, rec)
  BY DEF Settled

LEMMA SettledType ==
  ASSUME StateType, NEW i, NEW rec, i \in DOMAIN store => rec \in Record
  PROVE  /\ DOMAIN Settled(i, rec) \subseteq Tokens
         /\ \A j \in DOMAIN Settled(i, rec) : Settled(i, rec)[j] \in Record
  BY SettledIs DEF StateType

LEMMA UnheldIs ==
  ASSUME NEW rec \in Record
  PROVE  /\ Unheld(rec) \in Record
         /\ Unheld(rec).users = IF rec.users = 0 THEN 0 ELSE rec.users - 1
         /\ Unheld(rec).token = rec.token /\ Unheld(rec).detached = rec.detached
         /\ Unheld(rec).tombstone = rec.tombstone
         /\ ~Unheld(rec).refreshing
<1> DEFINE n == IF rec.users = 0 THEN 0 ELSE rec.users - 1
<1>1. n \in Nat
  BY DEF Record
<1>2. Unheld(rec) = [rec EXCEPT !.users = n, !.refreshing = FALSE]
  BY DEF Unheld
<1> HIDE DEF n
<1>3. Unheld(rec) \in Record /\ Unheld(rec).users = n
  BY <1>1, <1>2 DEF Record
<1>4. /\ Unheld(rec).token = rec.token /\ Unheld(rec).detached = rec.detached
      /\ Unheld(rec).tombstone = rec.tombstone /\ Unheld(rec).refreshing = FALSE
  BY <1>2 DEF Record
<1> QED
  BY <1>3, <1>4 DEF n

LEMMA NewIs ==
  ASSUME NEW t \in Tokens
  PROVE  New(t) \in Record /\ New(t).token = t /\ New(t).users = 0
         /\ ~New(t).detached /\ ~New(t).tombstone
  BY DEF New, Record

LEMMA UpsertedIs ==
  ASSUME StateType, NEW i, NEW t \in Tokens
  PROVE  /\ Upserted(i, t) \in Record
         /\ i \in DOMAIN store =>
              /\ Upserted(i, t).token = store[i].token /\ Upserted(i, t).users = store[i].users
              /\ Upserted(i, t).tombstone = store[i].tombstone
              /\ Upserted(i, t).detached <=> store[i].detached /\ store[i].tombstone
         /\ i \notin DOMAIN store => Upserted(i, t) = New(t)
  BY NewIs DEF Upserted, StateType, Record

\* What the fields of an operation are.
LEMMA OperationIs ==
  ASSUME NEW o \in Operation
  PROVE  /\ o.kind \in OnOneFile \cup {"scan", "sync"}
         /\ o.kind \in OnOneFile => o.disk \in DiskOp
         /\ o.kind \in {"persist", "trash"} => o.by \in Workers
         /\ o.kind \in {"import", "delete"} =>
              /\ o.insert \in BOOLEAN /\ o.done \in BOOLEAN
              /\ [o EXCEPT !.done = TRUE] \in Operation
              /\ [o EXCEPT !.done = TRUE].kind = o.kind
              /\ [o EXCEPT !.done = TRUE].disk = o.disk
         /\ o.kind = "scan" => /\ o.mode \in Modes
                               /\ DOMAIN o.found \subseteq Tokens
                               /\ o.found \in [DOMAIN o.found -> Contents]
         /\ o.kind = "sync" => /\ o.mode \in Modes
                               /\ o.found \in SUBSET Tokens /\ o.failed \in SUBSET Tokens
                               /\ o.removals \in SUBSET Tokens
                               /\ o.writes \in SUBSET (Tokens \X Tokens)
                               /\ o.upserts \in SUBSET (Tokens \X Tokens)
<1>1. CASE o \in [kind : {"persist", "trash"}, by : Workers, disk : DiskOp]
  BY <1>1 DEF OnOneFile
<1>2. CASE o \in [kind : {"import", "delete"}, insert : BOOLEAN, done : BOOLEAN, disk : DiskOp]
  <2> DEFINE done == [o EXCEPT !.done = TRUE]
  <2>1. o.kind \in {"import", "delete"} /\ o.insert \in BOOLEAN /\ o.disk \in DiskOp
    BY <1>2
  <2>2. o.done \in BOOLEAN
    BY <1>2
  <2>3. done \in Operation
    BY <1>2 DEF Operation
  <2>4. done.kind = o.kind /\ done.disk = o.disk
    BY <1>2
  <2> QED
    BY <2>1, <2>2, <2>3, <2>4 DEF OnOneFile
<1>3. CASE o \in [kind : {"scan"}, mode : Modes,
                  found : UNION {[D -> Contents] : D \in SUBSET Tokens}]
  BY <1>3 DEF OnOneFile
<1>4. CASE o \in [kind : {"sync"}, mode : Modes, found : SUBSET Tokens,
                  failed : SUBSET Tokens, writes : SUBSET (Tokens \X Tokens),
                  removals : SUBSET Tokens, upserts : SUBSET (Tokens \X Tokens)]
  BY <1>4 DEF OnOneFile
<1> QED
  BY <1>1, <1>2, <1>3, <1>4 DEF Operation, Contents

LEMMA ScanIs ==
  ASSUME StateType, NEW mode \in Modes
  PROVE  Scan(mode) \in Operation
  BY DEF Scan, Operation, StateType, Contents

\* An operation on one file, as an operation holds it.
LEMMA OnOneFileIs ==
  ASSUME NEW d \in DiskOp
  PROVE  /\ \A kind \in {"persist", "trash"}, w \in Workers :
              [kind |-> kind, by |-> w, disk |-> d] \in Operation
         /\ \A kind \in {"import", "delete"}, insert, done \in BOOLEAN :
              [kind |-> kind, insert |-> insert, done |-> done, disk |-> d] \in Operation
  BY DEF Operation

-----------------------------------------------------------------------------
(* Every action keeps the types *)

LEMMA TypeInit == Init => TypeInv
<1> SUFFICES ASSUME Init
             PROVE  TypeInv
  OBVIOUS
<1>1. StateType
  BY FilesAssumption DEF Init, StateType, Contents, Idle, Task
<1>2. op \in Operation /\ op.kind = "scan"
  BY <1>1, ScanIs DEF Init, Scan, Modes
<1> QED
  BY <1>1, <1>2 DEF Init, TypeInv, TaskInv, OpInv, Proper, LockInv, OnOneFile, Idle

\* A step of one request that leaves the disk and the lock alone.
LEMMA TypeOfRequest ==
  ASSUME TypeInv, NEW w \in Workers, NEW t \in Task,
         t.pc \notin {"persist", "trash"}, task[w].pc \notin {"persist", "trash"},
         t.pc \notin {"idle", "gone"} => t.id \in Tokens,
         t.pc = "refresh" => t.sent \in Tokens,
         task' = [task EXCEPT ![w] = t],
         DOMAIN store' \subseteq Tokens, \A i \in DOMAIN store' : store'[i] \in Record,
         live' \subseteq Tokens, UNCHANGED <<files, op, orphans>>
  PROVE  TypeInv'
<1>1. StateType'
  BY DEF TypeInv, StateType
<1>2. TaskInv' /\ LockInv' /\ OpInv'
  BY DEF TypeInv, StateType, TaskInv, LockInv, OpInv
<1> QED
  BY <1>1, <1>2 DEF TypeInv

LEMMA SelectType ==
  ASSUME TypeInv, NEW w \in Workers, Select(w)
  PROVE  TypeInv'
<1>1. PICK i \in DOMAIN store, refresh \in BOOLEAN :
        /\ store' = [store EXCEPT ![i].users = @ + 1, ![i].refreshing = refresh]
        /\ task' = [task EXCEPT ![w] =
             IF refresh
             THEN [pc |-> "refresh", id |-> i, sent |-> store[i].token, got |-> Nothing]
             ELSE [pc |-> "use", id |-> i, sent |-> Nothing, got |-> Nothing]]
  BY DEF Select
<1>2. i \in Tokens /\ store[i] \in Record
  BY DEF TypeInv, StateType
<1>3. DOMAIN store' \subseteq Tokens /\ \A j \in DOMAIN store' : store'[j] \in Record
  BY <1>1, <1>2 DEF TypeInv, StateType, Record
<1>4. /\ [pc |-> "refresh", id |-> i, sent |-> store[i].token, got |-> Nothing] \in Task
      /\ [pc |-> "use", id |-> i, sent |-> Nothing, got |-> Nothing] \in Task
      /\ store[i].token \in Tokens
  BY <1>2 DEF Task, Record
<1>5. live \subseteq Tokens
  BY DEF TypeInv, StateType
<1> QED
  BY <1>1, <1>2, <1>3, <1>4, <1>5, TypeOfRequest DEF Select

LEMMA IdleType == Idle \in Task /\ [Idle EXCEPT !.pc = "gone"] \in Task
  BY DEF Idle, Task

LEMMA SettleType ==
  ASSUME TypeInv, NEW w \in Workers, Settle(w)
  PROVE  TypeInv'
<1> DEFINE i == task[w].id
<1>1. PICK rec : store' = Settled(i, rec) /\ (i \in DOMAIN store => rec \in Record)
  <2>1. i \in DOMAIN store => store[i] \in Record
    BY DEF TypeInv, StateType
  <2>2. i \in DOMAIN store => /\ Unheld(store[i]) \in Record
                              /\ [Unheld(store[i]) EXCEPT !.blocked = FALSE] \in Record
                              /\ [Unheld(store[i]) EXCEPT !.access = FALSE] \in Record
    BY <2>1, UnheldIs DEF Record
  <2> QED
    BY <2>2 DEF Settle
<1>2. DOMAIN store' \subseteq Tokens /\ \A j \in DOMAIN store' : store'[j] \in Record
  BY <1>1, SettledType DEF TypeInv
<1>3. live \subseteq Tokens
  BY DEF TypeInv, StateType
<1> QED
  BY <1>2, <1>3, IdleType, TypeOfRequest DEF Settle, Leave, Idle

LEMMA RotatedIs ==
  ASSUME TypeInv, NEW t, NEW after \in Rotated(t)
  PROVE  /\ after \subseteq Tokens
         /\ \/ after = live
            \/ /\ t \in live \cap DOMAIN Successor
               /\ after = (live \ {t}) \cup {Successor[t]}
  BY FilesAssumption DEF Rotated, TypeInv, StateType

LEMMA ExchangeType ==
  ASSUME TypeInv, NEW w \in Workers, Exchange(w)
  PROVE  TypeInv'
<1>1. task[w] \in Task /\ task[w].id \in Tokens /\ task[w].sent \in Tokens
  BY DEF TypeInv, StateType, TaskInv, Exchange
<1>2. DOMAIN store' \subseteq Tokens /\ \A j \in DOMAIN store' : store'[j] \in Record
  BY DEF TypeInv, StateType, Exchange
<1>3. CASE task[w].sent \in live
  <2>1. PICK after \in Rotated(task[w].sent) :
          /\ live' = after
          /\ task' = [task EXCEPT ![w].pc = "refreshed",
                        ![w].got = IF after = live THEN Nothing ELSE Successor[task[w].sent]]
    BY <1>3 DEF Exchange
  <2> DEFINE got == IF after = live THEN Nothing ELSE Successor[task[w].sent]
             t == [task[w] EXCEPT !.pc = "refreshed", !.got = got]
  <2>2. after \subseteq Tokens /\ got \in Tokens \cup {Nothing}
    BY RotatedIs, FilesAssumption
  <2>3. task' = [task EXCEPT ![w] = t]
    BY <2>1 DEF TypeInv, StateType
  <2>4. t \in Task /\ t.pc = "refreshed" /\ t.id = task[w].id
    BY <1>1, <2>2 DEF Task
  <2> HIDE DEF t
  <2> QED
    BY <1>1, <1>2, <2>1, <2>2, <2>3, <2>4, TypeOfRequest DEF Exchange
<1>4. CASE task[w].sent \notin live
  <2> DEFINE t == [task[w] EXCEPT !.pc = "retire"]
  <2>1. task' = [task EXCEPT ![w] = t] /\ live' = live
    BY <1>4 DEF Exchange, Become, TypeInv, StateType
  <2>2. t \in Task /\ t.pc = "retire" /\ t.id = task[w].id
    BY <1>1 DEF Task
  <2>3. live \subseteq Tokens
    BY DEF TypeInv, StateType
  <2> HIDE DEF t
  <2> QED
    BY <1>1, <1>2, <2>1, <2>2, <2>3, TypeOfRequest DEF Exchange
<1> QED
  BY <1>3, <1>4

LEMMA RefreshFailsType ==
  ASSUME TypeInv, NEW w \in Workers, RefreshFails(w)
  PROVE  TypeInv'
<1>1. task[w].id \in DOMAIN store => Unheld(store[task[w].id]) \in Record
  BY UnheldIs DEF TypeInv, StateType
<1>2. DOMAIN store' \subseteq Tokens /\ \A j \in DOMAIN store' : store'[j] \in Record
  BY <1>1, SettledType DEF TypeInv, RefreshFails
<1>3. live' \subseteq Tokens
  BY RotatedIs DEF RefreshFails
<1> QED
  BY <1>2, <1>3, IdleType, TypeOfRequest DEF RefreshFails, Leave, Idle

\* A step in which one request takes the lock.
LEMMA TypeOfLocking ==
  ASSUME TypeInv, NEW w \in Workers, NEW kind \in {"persist", "trash"}, NEW d \in DiskOp,
         d.kind \in DiskOpOf(kind), d.kind = "write" => d.token \in Tokens,
         d.id = task[w].id, task[w].pc \in {"refreshed", "retire"},
         Acquire([kind |-> kind, by |-> w, disk |-> d]), Become(w, kind),
         DOMAIN store' \subseteq Tokens, \A i \in DOMAIN store' : store'[i] \in Record,
         UNCHANGED <<files, live, orphans>>
  PROVE  TypeInv'
<1>1. /\ op = Nothing
      /\ op' = [kind |-> kind, by |-> w, disk |-> d] /\ op' \in Operation
  BY OnOneFileIs DEF Acquire
<1>2. task' = [task EXCEPT ![w].pc = kind] /\ task \in [Workers -> Task]
  BY DEF Become, TypeInv, StateType
<1>3. /\ task' \in [Workers -> Task]
      /\ task'[w].pc = kind /\ task'[w].id = task[w].id
      /\ \A v \in Workers \ {w} : task'[v] = task[v]
  BY <1>2 DEF Task
<1>4. StateType'
  BY <1>3 DEF TypeInv, StateType
<1>5. TaskInv'
  BY <1>3 DEF TypeInv, TaskInv
<1>6. OpInv'
  BY <1>1 DEF OpInv, Proper, OnOneFile
<1>7. LockInv'
  BY <1>1, <1>3, NothingAssumption DEF TypeInv, LockInv
<1> QED
  BY <1>4, <1>5, <1>6, <1>7 DEF TypeInv

LEMMA RefreshedRecordIs ==
  ASSUME NEW rec \in Record, NEW t \in Tokens \cup {Nothing}
  PROVE  /\ RefreshedRecord(rec, t) \in Record
         /\ RefreshedRecord(rec, t).token = IF t = Nothing THEN rec.token ELSE t
         /\ RefreshedRecord(rec, t).users = rec.users
         /\ RefreshedRecord(rec, t).detached = rec.detached
         /\ RefreshedRecord(rec, t).tombstone = rec.tombstone
  BY DEF RefreshedRecord, Record

LEMMA FinishRefreshType ==
  ASSUME TypeInv, NEW w \in Workers, FinishRefresh(w)
  PROVE  TypeInv'
<1> DEFINE i == task[w].id
           rec == RefreshedRecord(store[i], task[w].got)
           d == [kind |-> "write", id |-> i, token |-> rec.token]
<1>1. task[w] \in Task /\ i \in Tokens /\ task[w].got \in Tokens \cup {Nothing}
  BY DEF TypeInv, StateType, TaskInv, FinishRefresh, Task
<1>2. i \in DOMAIN store => rec \in Record /\ rec.token \in Tokens /\ d \in DiskOp
  BY <1>1, RefreshedRecordIs DEF TypeInv, StateType, Record, DiskOp
<1>3. DOMAIN store' \subseteq Tokens /\ \A j \in DOMAIN store' : store'[j] \in Record
  BY <1>2, StoredIsSettled, SettledType DEF TypeInv, StateType, FinishRefresh
<1>4. live \subseteq Tokens
  BY DEF TypeInv, StateType
<1>5. CASE op' = op /\ Leave(w)
  BY <1>3, <1>4, <1>5, IdleType, TypeOfRequest DEF FinishRefresh, Leave, Idle
<1>6. CASE op' = op /\ Become(w, "use")
  <2>1. [task[w] EXCEPT !.pc = "use"] \in Task /\ [task[w] EXCEPT !.pc = "use"].pc = "use"
        /\ [task[w] EXCEPT !.pc = "use"].id = i
    BY <1>1 DEF Task
  <2>2. task' = [task EXCEPT ![w] = [task[w] EXCEPT !.pc = "use"]]
    BY <1>6 DEF Become
  <2> QED
    BY <1>1, <1>3, <1>4, <1>6, <2>1, <2>2, TypeOfRequest DEF FinishRefresh
<1>7. CASE i \in DOMAIN store /\ ~rec.detached
  <2>1. Acquire([kind |-> "persist", by |-> w, disk |-> d]) /\ Become(w, "persist")
    BY <1>7 DEF FinishRefresh
  <2>2. d.kind \in DiskOpOf("persist") /\ d.kind = "write" /\ d.id = i /\ d.token = rec.token
    BY DEF DiskOpOf
  <2> HIDE DEF d, rec, i
  <2> QED
    BY <1>2, <1>3, <1>7, <2>1, <2>2, TypeOfLocking DEF FinishRefresh, i
<1> QED
  BY <1>5, <1>6, <1>7 DEF FinishRefresh

LEMMA PersistType ==
  ASSUME TypeInv, NEW w \in Workers, Persist(w)
  PROVE  TypeInv'
<1>1. op # Nothing /\ op.by = w /\ op.kind = "persist" /\ op \in Operation
  BY DEF TypeInv, LockInv, OpInv, Proper, Persist
<1>2. op.disk \in DiskOp /\ op.disk.kind = "write" => op.disk.token \in Tokens
  BY <1>1, OperationIs DEF TypeInv, OpInv, Proper, OnOneFile
<1>3. op.disk \in DiskOp
  BY <1>1, OperationIs DEF OnOneFile
<1>4. DOMAIN files' \subseteq Tokens /\ files' \in [DOMAIN files' -> Contents]
  BY <1>2, <1>3, ExecuteType DEF TypeInv, StateType, Persist
<1>5. /\ task' \in [Workers -> Task] /\ task'[w].pc = "use" /\ task'[w].id = task[w].id
      /\ \A v \in Workers \ {w} : task'[v] = task[v]
  BY DEF TypeInv, StateType, Persist, Become, Task
<1>6. StateType'
  BY <1>4, <1>5 DEF TypeInv, StateType, Persist
<1>7. TaskInv' /\ LockInv' /\ OpInv'
  BY <1>1, <1>5 DEF TypeInv, TaskInv, LockInv, OpInv, Persist, Release
<1> QED
  BY <1>6, <1>7 DEF TypeInv

LEMMA RetireType ==
  ASSUME TypeInv, NEW w \in Workers, Retire(w)
  PROVE  TypeInv'
<1> DEFINE i == task[w].id
           rec == [Unheld(store[i]) EXCEPT !.access = FALSE, !.blocked = TRUE, !.tombstone = TRUE]
           d == [kind |-> IF store[i].detached THEN "none" ELSE "move",
                 id |-> i, token |-> Nothing]
<1>1. i \in Tokens /\ live \subseteq Tokens
  BY DEF TypeInv, StateType, TaskInv, Retire
<1>2. CASE i \in DOMAIN store
  <2>1. rec \in Record
    <3>1. Unheld(store[i]) \in Record
      BY <1>2, UnheldIs DEF TypeInv, StateType
    <3>2. \A r \in Record :
            [r EXCEPT !.access = FALSE, !.blocked = TRUE, !.tombstone = TRUE] \in Record
      BY DEF Record
    <3> QED
      BY <3>1, <3>2
  <2>2. store' = [store EXCEPT ![i] = rec]
    BY <1>2 DEF Retire
  <2>3. DOMAIN store' \subseteq Tokens /\ \A j \in DOMAIN store' : store'[j] \in Record
    BY <2>1, <2>2 DEF TypeInv, StateType
  <2>4. /\ d \in DiskOp /\ d.kind \in DiskOpOf("trash") /\ d.kind # "write" /\ d.id = i
        /\ Acquire([kind |-> "trash", by |-> w, disk |-> d]) /\ Become(w, "trash")
    BY <1>1, <1>2 DEF Retire, DiskOpOf, DiskOp
  <2> HIDE DEF d, i
  <2> QED
    BY <2>3, <2>4, TypeOfLocking DEF Retire, i
<1>3. CASE i \notin DOMAIN store
  <2>1. DOMAIN store' \subseteq Tokens /\ \A j \in DOMAIN store' : store'[j] \in Record
    BY <1>3 DEF TypeInv, StateType, Retire
  <2> QED
    BY <1>1, <1>3, <2>1, IdleType, TypeOfRequest DEF Retire, Leave, Idle
<1> QED
  BY <1>2, <1>3

LEMMA TrashType ==
  ASSUME TypeInv, NEW w \in Workers, Trash(w)
  PROVE  TypeInv'
<1> DEFINE i == task[w].id
           rec == [store[i] EXCEPT !.access = FALSE, !.blocked = TRUE, !.detached = TRUE]
<1>1. op # Nothing /\ op.by = w /\ op.kind = "trash" /\ op \in Operation
  BY DEF TypeInv, LockInv, OpInv, Proper, Trash
<1>2. op.disk \in DiskOp /\ op.disk.kind # "write"
  BY <1>1, OperationIs DEF TypeInv, OpInv, Proper, OnOneFile, DiskOpOf
<1>3. DOMAIN files' \subseteq Tokens /\ files' \in [DOMAIN files' -> Contents]
  BY <1>2, ExecuteType DEF TypeInv, StateType, Trash
<1>4. i \in DOMAIN store => rec \in Record
  BY DEF TypeInv, StateType, Record
<1>5. store' = Settled(i, rec) \/ store' = store
  BY DEF Trash
<1>6. DOMAIN store' \subseteq Tokens /\ \A j \in DOMAIN store' : store'[j] \in Record
  BY <1>4, <1>5, SettledType DEF TypeInv, StateType
<1>7. /\ task' \in [Workers -> Task] /\ task'[w].pc = "idle"
      /\ \A v \in Workers \ {w} : task'[v] = task[v]
  BY IdleType DEF TypeInv, StateType, Trash, Leave, Idle
<1>8. StateType'
  BY <1>3, <1>6, <1>7 DEF TypeInv, StateType, Trash
<1>9. TaskInv' /\ LockInv' /\ OpInv'
  BY <1>1, <1>7 DEF TypeInv, TaskInv, LockInv, OpInv, Trash, Release
<1> QED
  BY <1>8, <1>9 DEF TypeInv

LEMMA DisconnectType ==
  ASSUME TypeInv, NEW w \in Workers, Disconnect(w)
  PROVE  TypeInv'
<1>1. /\ task' \in [Workers -> Task] /\ task'[w].pc = "gone"
      /\ \A v \in Workers \ {w} : task'[v] = task[v]
  BY IdleType DEF TypeInv, StateType, Disconnect, Idle
<1>2. CASE task[w].pc \in {"persist", "trash"}
  <2>1. op # Nothing /\ op.by = w /\ op.kind \in {"persist", "trash"} /\ op \in Operation
    BY <1>2 DEF TypeInv, LockInv, OpInv, Proper
  <2>2. op.disk \in DiskOp /\ op.disk.kind = "write" => op.disk.token \in Tokens
    BY <2>1, OperationIs DEF TypeInv, OpInv, Proper, OnOneFile
  <2>3. op.disk \in DiskOp
    BY <2>1, OperationIs DEF OnOneFile
  <2>4. StateType'
    BY <1>1, <1>2, <2>2, <2>3 DEF TypeInv, StateType, Disconnect
  <2>5. TaskInv' /\ LockInv' /\ OpInv'
    BY <1>1, <1>2, <2>1 DEF TypeInv, TaskInv, LockInv, OpInv, Disconnect, Release
  <2> QED
    BY <2>4, <2>5 DEF TypeInv
<1>3. CASE task[w].pc \notin {"persist", "trash"}
  <2>1. StateType'
    BY <1>1, <1>3 DEF TypeInv, StateType, Disconnect
  <2>2. TaskInv' /\ LockInv' /\ OpInv'
    BY <1>1, <1>3 DEF TypeInv, TaskInv, LockInv, OpInv, Disconnect
  <2> QED
    BY <2>1, <2>2 DEF TypeInv
<1> QED
  BY <1>2, <1>3

\* A step of the administration or of a sync, or an orphan's: no request moves, and
\* the lock is not a request's before or after it unless it stays as it is.
LEMMA TypeOfService ==
  ASSUME TypeInv, task' = task, live' = live, StateType',
         \/ op' = op
         \/ /\ op # Nothing => op.kind \notin {"persist", "trash"}
            /\ op' # Nothing => Proper(op') /\ op'.kind \notin {"persist", "trash"}
  PROVE  TypeInv'
<1>1. TaskInv'
  BY DEF TypeInv, TaskInv
<1>2. OpInv'
  BY DEF TypeInv, OpInv
<1>3. LockInv'
  BY DEF TypeInv, LockInv
<1> QED
  BY <1>1, <1>2, <1>3 DEF TypeInv

LEMMA OrphanType ==
  ASSUME TypeInv, Orphan
  PROVE  TypeInv'
<1>1. PICK d \in orphans : files' = Execute(d) /\ orphans' = orphans \ {d}
  BY DEF Orphan
<1>2. DOMAIN files' \subseteq Tokens /\ files' \in [DOMAIN files' -> Contents]
  BY <1>1, ExecuteType DEF TypeInv, StateType
<1>3. StateType'
  BY <1>1, <1>2 DEF TypeInv, StateType, Orphan
<1> QED
  BY <1>3, TypeOfService DEF Orphan

LEMMA ImportType ==
  ASSUME TypeInv, NEW t \in Tokens, Import(t)
  PROVE  TypeInv'
<1>1. PICK i \in Tokens, insert \in BOOLEAN :
        Acquire([kind |-> "import", insert |-> insert, done |-> FALSE,
                 disk |-> [kind |-> "write", id |-> i, token |-> t]])
  BY DEF Import, Attached, TypeInv, StateType
<1>2. [kind |-> "write", id |-> i, token |-> t] \in DiskOp
  BY DEF DiskOp
<1>3. op = Nothing /\ Proper(op') /\ op'.kind = "import"
  BY <1>1, <1>2, OnOneFileIs DEF Acquire, Proper, DiskOpOf
<1>4. StateType'
  BY DEF TypeInv, StateType, Import
<1> QED
  BY <1>3, <1>4, TypeOfService DEF Import

LEMMA DeleteType ==
  ASSUME TypeInv, NEW i \in Tokens, Delete(i)
  PROVE  TypeInv'
<1>1. [kind |-> "remove", id |-> i, token |-> Nothing] \in DiskOp
  BY DEF DiskOp
<1>2. op = Nothing /\ Proper(op') /\ op'.kind = "delete"
  BY <1>1, OnOneFileIs DEF Delete, Acquire, Proper, DiskOpOf
<1>3. StateType'
  BY DEF TypeInv, StateType, Delete
<1> QED
  BY <1>2, <1>3, TypeOfService DEF Delete

\* The operation of an administration, and what it holds.
LEMMA AdministeringIs ==
  ASSUME TypeInv, Administering
  PROVE  /\ Proper(op) /\ op.kind \in {"import", "delete"}
         /\ op.disk \in DiskOp /\ op.disk.id \in Tokens
         /\ op.disk.kind = IF op.kind = "import" THEN "write" ELSE "remove"
         /\ op.disk.kind = "write" => op.disk.token \in Tokens
         /\ op.insert \in BOOLEAN /\ op.done \in BOOLEAN
<1>1. Proper(op) /\ op.kind \in {"import", "delete"}
  BY DEF TypeInv, OpInv, Administering
<1>2. op.disk \in DiskOp /\ op.insert \in BOOLEAN /\ op.done \in BOOLEAN
  BY <1>1, OperationIs DEF Proper, OnOneFile
<1>3. op.disk.kind = IF op.kind = "import" THEN "write" ELSE "remove"
  BY <1>1 DEF Proper, OnOneFile, DiskOpOf
<1>4. op.disk.kind = "write" => op.disk.token \in Tokens
  BY <1>1 DEF Proper, OnOneFile
<1>5. op.disk.id \in Tokens
  BY <1>2 DEF DiskOp
<1> QED
  BY <1>1, <1>2, <1>3, <1>4, <1>5

LEMMA AdminDiskType ==
  ASSUME TypeInv, AdminDisk
  PROVE  TypeInv'
<1>1. Administering
  BY DEF AdminDisk
<1>2. DOMAIN files' \subseteq Tokens /\ files' \in [DOMAIN files' -> Contents]
  BY <1>1, AdministeringIs, ExecuteType DEF TypeInv, StateType, AdminDisk
<1>3. StateType'
  BY <1>2 DEF TypeInv, StateType, AdminDisk
<1>4. op' # Nothing => Proper(op') /\ op'.kind \notin {"persist", "trash"}
  <2>1. op.kind \in {"import", "delete"} /\ Proper(op)
    BY <1>1, AdministeringIs
  <2>2. CASE op' = [op EXCEPT !.done = TRUE]
    <3>1. op' \in Operation /\ op'.kind = op.kind /\ op'.disk = op.disk
      BY <2>1, <2>2, OperationIs DEF Proper
    <3> QED
      BY <2>1, <3>1 DEF Proper, OnOneFile
  <2> QED
    BY <2>2 DEF AdminDisk, Release
<1> QED
  BY <1>1, <1>3, <1>4, TypeOfService DEF AdminDisk, Administering

LEMMA AdminApplyType ==
  ASSUME TypeInv, AdminApply
  PROVE  TypeInv'
<1> DEFINE i == op.disk.id
           rec == [store[i] EXCEPT !.detached = TRUE]
<1>1. Administering /\ i \in Tokens
  BY AdministeringIs DEF AdminApply
<1>2. i \in DOMAIN store => rec \in Record
  BY DEF TypeInv, StateType, Record
<1>3. DOMAIN store' \subseteq Tokens /\ \A j \in DOMAIN store' : store'[j] \in Record
  <2>1. CASE op.kind = "delete"
    BY <1>2, <2>1, SettledType DEF TypeInv, AdminApply
  <2>2. CASE op.kind = "import" /\ op.insert
    <3>1. op.disk.token \in Tokens /\ store' = Put(store, i, Upserted(i, op.disk.token))
      BY <1>1, <2>2, AdministeringIs DEF AdminApply
    <3>2. Upserted(i, op.disk.token) \in Record
      BY <3>1, UpsertedIs DEF TypeInv
    <3> QED
      BY <1>1, <3>1, <3>2 DEF TypeInv, StateType, Put
  <2>3. CASE op.kind = "import" /\ ~op.insert
    BY <2>3 DEF TypeInv, StateType, AdminApply
  <2> QED
    BY <1>1, <2>1, <2>2, <2>3 DEF Administering
<1>4. StateType'
  BY <1>3 DEF TypeInv, StateType, AdminApply
<1> QED
  BY <1>1, <1>4, TypeOfService DEF AdminApply, Release, Administering

LEMMA AdminDisconnectType ==
  ASSUME TypeInv, AdminDisconnect
  PROVE  TypeInv'
<1>1. StateType'
  BY AdministeringIs DEF TypeInv, StateType, AdminDisconnect
<1> QED
  BY <1>1, TypeOfService DEF AdminDisconnect, Release, Administering

LEMMA RescanType ==
  ASSUME TypeInv, Rescan
  PROVE  TypeInv'
<1>1. Scan("rescan") \in Operation /\ Scan("rescan").kind = "scan"
  BY ScanIs DEF TypeInv, Modes, Scan
<1>2. op = Nothing /\ Proper(op') /\ op'.kind = "scan"
  BY <1>1 DEF Rescan, Acquire, Proper, OnOneFile
<1>3. StateType'
  BY DEF TypeInv, StateType, Rescan
<1> QED
  BY <1>2, <1>3, TypeOfService DEF Rescan

LEMMA ScanningIs ==
  ASSUME TypeInv, Scanning
  PROVE  /\ op \in Operation /\ op.mode \in Modes
         /\ DOMAIN op.found \subseteq Tokens /\ op.found \in [DOMAIN op.found -> Contents]
         /\ \A i \in Readable(op.found) : i \in DOMAIN op.found /\ op.found[i] \in Tokens
<1>1. op \in Operation /\ op.kind = "scan"
  BY DEF TypeInv, OpInv, Proper, Scanning
<1> QED
  BY <1>1, OperationIs DEF Readable, Contents

LEMMA PlanType ==
  ASSUME TypeInv, Plan
  PROVE  TypeInv'
<1> DEFINE found == {op.found[i] : i \in Readable(op.found)}
<1>1. PICK canonical \in [found -> Tokens] :
        \E merged \in SUBSET {t \in found : Group(t) \ {canonical[t]} # {}} :
          op' = [kind |-> "sync", mode |-> op.mode, found |-> found,
                 failed |-> DOMAIN op.found \ Readable(op.found),
                 writes |-> {<<canonical[t], t>> : t \in
                   merged \cup {t \in found : canonical[t] \notin DOMAIN op.found}},
                 removals |-> UNION {Group(t) \ {canonical[t]} : t \in found},
                 upserts |-> {<<canonical[t], t>> : t \in found}]
  BY DEF Plan
<1>2. PICK merged \in SUBSET {t \in found : Group(t) \ {canonical[t]} # {}} :
        op' = [kind |-> "sync", mode |-> op.mode, found |-> found,
               failed |-> DOMAIN op.found \ Readable(op.found),
               writes |-> {<<canonical[t], t>> : t \in
                 merged \cup {t \in found : canonical[t] \notin DOMAIN op.found}},
               removals |-> UNION {Group(t) \ {canonical[t]} : t \in found},
               upserts |-> {<<canonical[t], t>> : t \in found}]
  BY <1>1
<1> DEFINE failed == DOMAIN op.found \ Readable(op.found)
           writes == {<<canonical[t], t>> : t \in
                        merged \cup {t \in found : canonical[t] \notin DOMAIN op.found}}
           removals == UNION {Group(t) \ {canonical[t]} : t \in found}
           upserts == {<<canonical[t], t>> : t \in found}
<1>3. found \subseteq Tokens /\ failed \subseteq Tokens /\ op.mode \in Modes
  BY ScanningIs DEF Plan
<1>4. /\ writes \subseteq Tokens \X Tokens /\ upserts \subseteq Tokens \X Tokens
      /\ \A p \in writes \cup upserts : p[2] \in found
  BY <1>3
<1>5. removals \subseteq Tokens
  BY ScanningIs DEF Plan, Group
<1> HIDE DEF found, failed, writes, removals, upserts
<1>6. op' = [kind |-> "sync", mode |-> op.mode, found |-> found, failed |-> failed,
             writes |-> writes, removals |-> removals, upserts |-> upserts]
  BY <1>2 DEF found, failed, writes, removals, upserts
<1>7. op' \in Operation
  BY <1>3, <1>4, <1>5, <1>6 DEF Operation
<1>8. Proper(op') /\ op'.kind = "sync"
  BY <1>4, <1>6, <1>7 DEF Proper, OnOneFile
<1>9. StateType'
  BY DEF TypeInv, StateType, Plan
<1> QED
  BY <1>8, <1>9, TypeOfService DEF Plan, Scanning

LEMMA SyncingIs ==
  ASSUME TypeInv, Syncing
  PROVE  /\ op.kind = "sync" /\ op.mode \in Modes
         /\ op.found \in SUBSET Tokens /\ op.removals \in SUBSET Tokens
         /\ op.writes \in SUBSET (Tokens \X Tokens)
         /\ op.upserts \in SUBSET (Tokens \X Tokens)
         /\ \A p \in op.writes \cup op.upserts : p[2] \in op.found
<1>1. op.kind = "sync" /\ op \in Operation /\ Proper(op)
  BY DEF TypeInv, OpInv, Proper, Syncing
<1> QED
  BY <1>1, OperationIs DEF Proper

\* What SyncDisk leaves of a sync.
LEMMA LessToWrite ==
  ASSUME NEW o \in Operation, o.kind = "sync", NEW rest \in SUBSET o.writes
  PROVE  /\ [o EXCEPT !.writes = rest] \in Operation
         /\ [o EXCEPT !.writes = rest].kind = "sync" /\ [o EXCEPT !.writes = rest].mode = o.mode
         /\ [o EXCEPT !.writes = rest].found = o.found /\ [o EXCEPT !.writes = rest].failed = o.failed
         /\ [o EXCEPT !.writes = rest].writes = rest /\ [o EXCEPT !.writes = rest].removals = o.removals
         /\ [o EXCEPT !.writes = rest].upserts = o.upserts
<1>1. o \in [kind : {"sync"}, mode : Modes, found : SUBSET Tokens, failed : SUBSET Tokens,
             writes : SUBSET (Tokens \X Tokens), removals : SUBSET Tokens,
             upserts : SUBSET (Tokens \X Tokens)]
  BY DEF Operation
<1>2. [o EXCEPT !.writes = rest] \in Operation
  BY <1>1 DEF Operation
<1> QED
  BY <1>1, <1>2

LEMMA LessToRemove ==
  ASSUME NEW o \in Operation, o.kind = "sync", NEW rest \in SUBSET o.removals
  PROVE  /\ [o EXCEPT !.removals = rest] \in Operation
         /\ [o EXCEPT !.removals = rest].kind = "sync" /\ [o EXCEPT !.removals = rest].mode = o.mode
         /\ [o EXCEPT !.removals = rest].found = o.found /\ [o EXCEPT !.removals = rest].failed = o.failed
         /\ [o EXCEPT !.removals = rest].removals = rest /\ [o EXCEPT !.removals = rest].writes = o.writes
         /\ [o EXCEPT !.removals = rest].upserts = o.upserts
<1>1. o \in [kind : {"sync"}, mode : Modes, found : SUBSET Tokens, failed : SUBSET Tokens,
             writes : SUBSET (Tokens \X Tokens), removals : SUBSET Tokens,
             upserts : SUBSET (Tokens \X Tokens)]
  BY DEF Operation
<1>2. [o EXCEPT !.removals = rest] \in Operation
  BY <1>1 DEF Operation
<1> QED
  BY <1>1, <1>2

LEMMA SyncDiskIs ==
  ASSUME TypeInv, SyncDisk
  PROVE  /\ Syncing /\ op \in Operation /\ op.kind = "sync"
         /\ op' \in Operation /\ op'.kind = "sync" /\ op'.mode = op.mode
         /\ op'.found = op.found /\ op'.failed = op.failed /\ op'.upserts = op.upserts
         /\ \/ \E p \in op.writes :
                 /\ files' = Put(files, p[1], p[2]) /\ p[1] \in Tokens /\ p[2] \in op.found
                 /\ p \in Tokens \X Tokens
                 /\ op'.writes = op.writes \ {p} /\ op'.removals = op.removals
            \/ /\ op.writes = {} /\ op'.writes = {}
               /\ \E i \in op.removals : /\ files' = Drop(files, i)
                                         /\ op'.removals = op.removals \ {i}
<1>1. Syncing /\ op \in Operation /\ op.kind = "sync"
  BY DEF SyncDisk, Syncing, TypeInv, OpInv, Proper
<1>2. CASE \E p \in op.writes : /\ files' = Put(files, p[1], p[2])
                                /\ op' = [op EXCEPT !.writes = @ \ {p}]
  <2>1. PICK p \in op.writes : /\ files' = Put(files, p[1], p[2])
                               /\ op' = [op EXCEPT !.writes = @ \ {p}]
    BY <1>2
  <2> DEFINE rest == op.writes \ {p}
  <2>2. op' = [op EXCEPT !.writes = rest] /\ rest \in SUBSET op.writes
    BY <2>1
  <2>3. p \in Tokens \X Tokens /\ p[1] \in Tokens /\ p[2] \in op.found
    BY <1>1, SyncingIs
  <2> HIDE DEF rest
  <2>4. /\ op' \in Operation /\ op'.kind = "sync" /\ op'.mode = op.mode
        /\ op'.found = op.found /\ op'.failed = op.failed /\ op'.upserts = op.upserts
        /\ op'.writes = rest /\ op'.removals = op.removals
    BY <1>1, <2>2, LessToWrite
  <2> QED
    BY <1>1, <2>1, <2>3, <2>4 DEF rest
<1>3. CASE /\ op.writes = {}
           /\ \E i \in op.removals : /\ files' = Drop(files, i)
                                     /\ op' = [op EXCEPT !.removals = @ \ {i}]
  <2>1. PICK i \in op.removals : /\ files' = Drop(files, i)
                                 /\ op' = [op EXCEPT !.removals = @ \ {i}]
    BY <1>3
  <2> DEFINE rest == op.removals \ {i}
  <2>2. op' = [op EXCEPT !.removals = rest] /\ rest \in SUBSET op.removals
    BY <2>1
  <2> HIDE DEF rest
  <2>3. /\ op' \in Operation /\ op'.kind = "sync" /\ op'.mode = op.mode
        /\ op'.found = op.found /\ op'.failed = op.failed /\ op'.upserts = op.upserts
        /\ op'.writes = op.writes /\ op'.removals = rest
    BY <1>1, <2>2, LessToRemove
  <2> QED
    BY <1>1, <1>3, <2>1, <2>3 DEF rest
<1> QED
  BY <1>2, <1>3 DEF SyncDisk

LEMMA SyncDiskType ==
  ASSUME TypeInv, SyncDisk
  PROVE  TypeInv'
<1>1. /\ Syncing /\ Proper(op) /\ op' \in Operation /\ op'.kind = "sync"
      /\ op'.found = op.found /\ op'.upserts = op.upserts /\ op'.writes \subseteq op.writes
  BY SyncDiskIs DEF Syncing, TypeInv, OpInv
<1>2. Proper(op')
  BY <1>1 DEF Proper, OnOneFile, Syncing
<1>3. CASE \E p \in op.writes : /\ files' = Put(files, p[1], p[2])
                                /\ p[1] \in Tokens /\ p[2] \in op.found
  <2>1. StateType'
    BY <1>1, <1>3, SyncingIs DEF TypeInv, StateType, SyncDisk, Put, Contents
  <2> QED
    BY <1>1, <1>2, <2>1, TypeOfService DEF SyncDisk, Syncing
<1>4. CASE \E i \in op.removals : files' = Drop(files, i)
  <2>1. StateType'
    BY <1>4 DEF TypeInv, StateType, SyncDisk, Drop
  <2> QED
    BY <1>1, <1>2, <2>1, TypeOfService DEF SyncDisk, Syncing
<1> QED
  BY <1>3, <1>4, SyncDiskIs

\* What a sync makes of the store: new accounts have the tokens found, known ones
\* keep theirs, and those in use stay.
Seen == {p[1] : p \in op.upserts}

LEMMA SyncApplyIs ==
  ASSUME TypeInv, SyncApply
  PROVE  /\ Syncing /\ op.writes = {} /\ op.removals = {}
         /\ Seen \subseteq DOMAIN store' /\ DOMAIN store' \subseteq DOMAIN store \cup Seen
         /\ \A i \in DOMAIN store' : i \in Tokens /\ store'[i] \in Record
         /\ \A i \in DOMAIN store \ DOMAIN store' : ~InUse(store[i])
         /\ \A i \in DOMAIN store' \ DOMAIN store :
              \E t \in op.found : <<i, t>> \in op.upserts /\ store'[i] = New(t)
         /\ \A i \in DOMAIN store \cap DOMAIN store' :
              /\ store'[i].token = store[i].token /\ store'[i].users = store[i].users
              /\ store'[i].tombstone = store[i].tombstone
              /\ store'[i].detached =>
                   store[i].detached \/ i \notin Seen
              /\ ~store'[i].detached =>
                   ~store[i].detached \/ (~store[i].tombstone /\ i \in Seen)
              /\ op.mode = "startup" \/ op.failed = {} =>
                   i \in Seen \/ store'[i].detached
<1> DEFINE kept == IF op.mode = "rescan" THEN op.failed ELSE {}
           idle == {i \in DOMAIN store \ (Seen \cup kept) : ~InUse(store[i])}
           token(i) == CHOOSE t \in op.found : <<i, t>> \in op.upserts
           gone(i) == [store[i] EXCEPT !.detached = TRUE]
<1>1. Syncing /\ op.writes = {} /\ op.removals = {}
  BY DEF SyncApply
<1>2. store' = [i \in (DOMAIN store \cup Seen) \ idle |->
                  IF i \in Seen THEN Upserted(i, token(i))
                  ELSE IF i \in kept THEN store[i] ELSE gone(i)]
  BY DEF SyncApply, Seen
<1>3. \A i \in Seen : i \in Tokens /\ token(i) \in op.found /\ <<i, token(i)>> \in op.upserts
  <2> SUFFICES ASSUME NEW i \in Seen
               PROVE  i \in Tokens /\ token(i) \in op.found /\ <<i, token(i)>> \in op.upserts
    OBVIOUS
  <2>1. PICK p \in op.upserts : p[1] = i
    BY DEF Seen
  <2>2. p \in Tokens \X Tokens /\ p[2] \in op.found
    BY <1>1, SyncingIs
  <2>3. p = <<i, p[2]>>
    BY <2>1, <2>2
  <2>4. \E t \in op.found : <<i, t>> \in op.upserts
    BY <2>2, <2>3
  <2> QED
    BY <2>1, <2>2, <2>4
<1>4. \A i \in Seen : token(i) \in Tokens
  BY <1>1, <1>3, SyncingIs
<1>5. \A i \in DOMAIN store : /\ i \in Tokens /\ store[i] \in Record /\ gone(i) \in Record
                              /\ gone(i).token = store[i].token
                              /\ gone(i).users = store[i].users
                              /\ gone(i).tombstone = store[i].tombstone
                              /\ gone(i).detached
  BY DEF TypeInv, StateType, Record
<1> HIDE DEF kept, token, gone
<1>6. Seen \subseteq DOMAIN store' /\ DOMAIN store' \subseteq DOMAIN store \cup Seen
  BY <1>2
<1>7. \A i \in DOMAIN store \ DOMAIN store' : ~InUse(store[i])
  BY <1>2
<1>8. \A i \in Seen :
        /\ store'[i] \in Record
        /\ i \notin DOMAIN store => store'[i] = New(token(i))
        /\ i \in DOMAIN store =>
             /\ store'[i].token = store[i].token /\ store'[i].users = store[i].users
             /\ store'[i].tombstone = store[i].tombstone
             /\ store'[i].detached <=> store[i].detached /\ store[i].tombstone
  <2> SUFFICES ASSUME NEW i \in Seen
               PROVE  /\ store'[i] \in Record
                      /\ i \notin DOMAIN store => store'[i] = New(token(i))
                      /\ i \in DOMAIN store =>
                           /\ store'[i].token = store[i].token
                           /\ store'[i].users = store[i].users
                           /\ store'[i].tombstone = store[i].tombstone
                           /\ store'[i].detached <=> store[i].detached /\ store[i].tombstone
    OBVIOUS
  <2>1. i \in DOMAIN store' /\ store'[i] = Upserted(i, token(i)) /\ token(i) \in Tokens
    BY <1>2, <1>4, <1>6
  <2> QED
    BY <2>1, UpsertedIs DEF TypeInv
<1>9. \A i \in DOMAIN store' \ Seen :
        /\ i \in DOMAIN store
        /\ store'[i] = gone(i) \/ (i \in kept /\ store'[i] = store[i])
  BY <1>2
<1>10. \A i \in DOMAIN store' : i \in Tokens /\ store'[i] \in Record
  BY <1>3, <1>5, <1>8, <1>9
<1>11. \A i \in DOMAIN store' \ DOMAIN store :
         \E t \in op.found : <<i, t>> \in op.upserts /\ store'[i] = New(t)
  BY <1>3, <1>6, <1>8
<1>12. \A i \in DOMAIN store \cap DOMAIN store' :
         /\ store'[i].token = store[i].token /\ store'[i].users = store[i].users
         /\ store'[i].tombstone = store[i].tombstone
         /\ store'[i].detached => store[i].detached \/ i \notin Seen
         /\ ~store'[i].detached => ~store[i].detached \/ (~store[i].tombstone /\ i \in Seen)
         /\ op.mode = "startup" \/ op.failed = {} => i \in Seen \/ store'[i].detached
  <2>1. op.mode = "startup" \/ op.failed = {} => kept = {}
    BY DEF kept
  <2> QED
    BY <1>5, <1>8, <1>9, <2>1
<1> QED
  BY <1>1, <1>6, <1>7, <1>10, <1>11, <1>12

LEMMA SyncApplyType ==
  ASSUME TypeInv, SyncApply
  PROVE  TypeInv'
<1>1. StateType'
  BY SyncApplyIs DEF TypeInv, StateType, SyncApply
<1> QED
  BY <1>1, TypeOfService DEF SyncApply, Syncing, Release

LEMMA SyncFailsType ==
  ASSUME TypeInv, SyncFails
  PROVE  TypeInv'
<1>1. StateType'
  BY DEF TypeInv, StateType, SyncFails
<1> QED
  BY <1>1, TypeOfService DEF SyncFails, Scanning, Syncing, Release

LEMMA CrashType ==
  ASSUME TypeInv, Crash
  PROVE  TypeInv'
<1>1. StateType'
  BY IdleType DEF TypeInv, StateType, Crash
<1>2. Scan("startup") \in Operation /\ Scan("startup").kind = "scan"
  BY ScanIs DEF TypeInv, Modes, Scan
<1>3. Proper(op') /\ op'.kind = "scan"
  BY <1>2 DEF Crash, Proper, OnOneFile
<1> QED
  BY <1>1, <1>3 DEF TypeInv, TaskInv, OpInv, LockInv, Crash, Idle

LEMMA EditType ==
  ASSUME TypeInv, Edit
  PROVE  TypeInv'
<1>1. FreeNames \subseteq Tokens /\ Imports \subseteq Tokens
  BY FilesAssumption DEF FreeNames
<1>2. DOMAIN files' \subseteq Tokens /\ files' \in [DOMAIN files' -> Contents]
  <2>1. CASE \E i \in FreeNames, t \in Imports : files' = Put(files, i, t)
    BY <1>1, <2>1 DEF TypeInv, StateType, Put, Contents
  <2>2. CASE \E i \in DOMAIN files, j \in FreeNames : files' = Put(Drop(files, i), j, files[i])
    BY <1>1, <2>2 DEF TypeInv, StateType, Put, Drop, Contents
  <2>3. CASE \E i \in DOMAIN files : files' = Drop(files, i)
    BY <2>3 DEF TypeInv, StateType, Drop
  <2>4. CASE \E i \in DOMAIN files : files' = Put(files, i, Unreadable)
    BY <2>4 DEF TypeInv, StateType, Put, Contents
  <2> QED
    BY <2>1, <2>2, <2>3, <2>4 DEF Edit
<1>3. StateType'
  BY <1>2 DEF TypeInv, StateType, Edit
<1> QED
  BY <1>3, TypeOfService DEF Edit

LEMMA RevokeType ==
  ASSUME TypeInv, Revoke
  PROVE  TypeInv'
<1>1. StateType'
  BY DEF TypeInv, StateType, Revoke
<1> QED
  BY <1>1 DEF TypeInv, TaskInv, OpInv, LockInv, Revoke

LEMMA TypeStep ==
  ASSUME TypeInv, [Next]_vars
  PROVE  TypeInv'
<1>1. CASE UNCHANGED vars
  BY <1>1 DEF TypeInv, StateType, TaskInv, OpInv, LockInv, vars
<1>2. ASSUME NEW w \in Workers, Work(w)
      PROVE  TypeInv'
  BY <1>2, SelectType, SettleType, ExchangeType, RefreshFailsType, FinishRefreshType,
     PersistType, RetireType, TrashType, DisconnectType DEF Work
<1>3. CASE Sync
  BY <1>3, RescanType, PlanType, SyncDiskType, SyncApplyType, SyncFailsType DEF Sync
<1>4. CASE Administer
  BY <1>4, ImportType, DeleteType, AdminDiskType, AdminApplyType, AdminDisconnectType
     DEF Administer
<1>5. CASE Orphan \/ Crash \/ Edit \/ Revoke
  BY <1>5, OrphanType, CrashType, EditType, RevokeType
<1> QED
  BY <1>1, <1>2, <1>3, <1>4, <1>5 DEF Next

\* Every variable keeps to its domain, whatever requests, syncs, administrators,
\* faults and operators do (AccountStore, AccountRecord, AccountDiskOp).
THEOREM FilesTypeCorrect == Spec => []TypeOK
<1>1. Init => TypeInv
  BY TypeInit
<1>2. TypeInv /\ [Next]_vars => TypeInv'
  BY TypeStep
<1>3. TypeInv => TypeOK
  BY DEF TypeInv, StateType, OpInv, Proper, TypeOK, Contents
<1> QED
  BY <1>1, <1>2, <1>3, PTL DEF Spec

-----------------------------------------------------------------------------
(* Users keep their accounts *)

\* The requests that have still to settle an account.
Holding == {"use", "refresh", "refreshed", "retire", "persist"}

Holders(i) == {w \in Workers : task[w].pc \in Holding /\ task[w].id = i}

\* An account is known to as many users as it has, at least: clients that left are
\* counted for ever.
Counted(i) ==
  IF i \in DOMAIN store THEN Cardinality(Holders(i)) <= store[i].users
  ELSE Holders(i) = {}

UsersInv == \A i \in Tokens : Counted(i)

LEMMA FewHolders ==
  ASSUME NEW i
  PROVE  /\ IsFiniteSet(Holders(i)) /\ Cardinality(Holders(i)) \in Nat
         /\ IsFiniteSet(Holders(i)') /\ Cardinality(Holders(i)') \in Nat
<1>1. Holders(i) \subseteq Workers /\ Holders(i)' \subseteq Workers
  BY DEF Holders
<1> QED
  BY <1>1, FilesAssumption, FS_Subset, FS_CardinalityType

LEMMA HolderIsCounted ==
  ASSUME TypeInv, UsersInv, NEW w \in Workers, task[w].pc \in Holding
  PROVE  /\ task[w].id \in DOMAIN store /\ store[task[w].id] \in Record
         /\ store[task[w].id].users > 0 /\ InUse(store[task[w].id])
<1> DEFINE i == task[w].id
<1>1. i \in Tokens
  BY DEF TypeInv, TaskInv, Holding
<1>2. w \in Holders(i)
  BY DEF Holders
<1>3. i \in DOMAIN store /\ Cardinality(Holders(i)) <= store[i].users
  BY <1>1, <1>2 DEF UsersInv, Counted
<1>4. store[i] \in Record /\ store[i].users \in Nat
  BY <1>3 DEF TypeInv, StateType, Record
<1>5. Cardinality(Holders(i)) # 0
  BY <1>2, FewHolders, FS_EmptySet
<1> QED
  BY <1>3, <1>4, <1>5, FewHolders DEF InUse

\* A step that makes no new holder, and takes away no record that has one.
LEMMA SameHolders ==
  ASSUME UsersInv, NEW i \in Tokens, Holders(i)' \subseteq Holders(i),
         i \in DOMAIN store => store[i].users \in Nat,
         i \in DOMAIN store /\ i \in DOMAIN store' => store'[i].users = store[i].users,
         i \in DOMAIN store \ DOMAIN store' => Holders(i)' = {},
         i \in DOMAIN store' \ DOMAIN store => store'[i].users \in Nat
  PROVE  Counted(i)'
<1>1. Cardinality(Holders(i)') <= Cardinality(Holders(i))
  BY FewHolders, FS_Subset
<1>2. CASE i \in DOMAIN store /\ i \in DOMAIN store'
  BY <1>1, <1>2, FewHolders DEF UsersInv, Counted
<1>3. CASE i \notin DOMAIN store
  <2>1. Holders(i)' = {}
    BY <1>3 DEF UsersInv, Counted
  <2> QED
    BY <1>3, <2>1, FS_EmptySet DEF Counted
<1>4. CASE i \in DOMAIN store \ DOMAIN store'
  BY <1>4 DEF Counted
<1> QED
  BY <1>2, <1>3, <1>4

\* A step of a request that gives its account back, and of its account's record.
LEMMA GiveBackCounts ==
  ASSUME TypeInv, UsersInv, NEW w \in Workers, task[w].pc \in Holding,
         task'[w].pc \notin Holding, \A v \in Workers \ {w} : task'[v] = task[v],
         \A j \in DOMAIN store \ {task[w].id} : j \in DOMAIN store' /\ store'[j] = store[j],
         DOMAIN store' \subseteq DOMAIN store,
         task[w].id \in DOMAIN store' =>
           store'[task[w].id].users = store[task[w].id].users - 1,
         task[w].id \notin DOMAIN store' => store[task[w].id].users = 1
  PROVE  UsersInv'
<1> SUFFICES ASSUME NEW i \in Tokens
             PROVE  Counted(i)'
  BY DEF UsersInv
<1>1. /\ task[w].id \in DOMAIN store /\ store[task[w].id].users \in Nat
  BY HolderIsCounted DEF Record
<1>2. CASE i # task[w].id
  <2>1. Holders(i)' = Holders(i)
    BY <1>2 DEF Holders
  <2> QED
    BY <1>1, <1>2, <2>1, SameHolders DEF TypeInv, StateType, Record
<1>3. CASE i = task[w].id
  <2>1. w \in Holders(i) /\ Holders(i)' = Holders(i) \ {w}
    BY <1>3 DEF Holders
  <2>2. Cardinality(Holders(i)') = Cardinality(Holders(i)) - 1
    BY <2>1, FewHolders, FS_RemoveElement
  <2>3. Cardinality(Holders(i)) <= store[i].users
    BY <1>1, <1>3 DEF UsersInv, Counted
  <2>4. CASE i \in DOMAIN store'
    BY <1>1, <1>3, <2>2, <2>3, <2>4, FewHolders DEF Counted
  <2>5. CASE i \notin DOMAIN store'
    <3>1. Cardinality(Holders(i)') = 0
      BY <1>3, <2>2, <2>3, <2>5, FewHolders
    <3> QED
      BY <2>5, <3>1, FewHolders, FS_EmptySet DEF Counted
  <2> QED
    BY <2>4, <2>5
<1> QED
  BY <1>2, <1>3

LEMMA SelectCounts ==
  ASSUME TypeInv, UsersInv, NEW w \in Workers, Select(w)
  PROVE  UsersInv'
<1>1. PICK i \in DOMAIN store, refresh \in BOOLEAN :
        /\ store' = [store EXCEPT ![i].users = @ + 1, ![i].refreshing = refresh]
        /\ task' = [task EXCEPT ![w] =
             IF refresh
             THEN [pc |-> "refresh", id |-> i, sent |-> store[i].token, got |-> Nothing]
             ELSE [pc |-> "use", id |-> i, sent |-> Nothing, got |-> Nothing]]
  BY DEF Select
<1>2. i \in Tokens /\ store[i] \in Record /\ store[i].users \in Nat
  BY DEF TypeInv, StateType, Record
<1>3. /\ DOMAIN store' = DOMAIN store /\ store'[i].users = store[i].users + 1
      /\ \A j \in DOMAIN store \ {i} : store'[j] = store[j]
  BY <1>1, <1>2 DEF Record
<1>4. /\ task'[w].pc \in Holding /\ task'[w].id = i /\ task[w].pc \notin Holding
      /\ \A v \in Workers \ {w} : task'[v] = task[v]
  BY <1>1 DEF Select, TypeInv, StateType, Holding
<1> SUFFICES ASSUME NEW j \in Tokens
             PROVE  Counted(j)'
  BY DEF UsersInv
<1>5. CASE j = i
  <2>1. Holders(i)' = Holders(i) \cup {w} /\ w \notin Holders(i)
    BY <1>4 DEF Holders
  <2>2. Cardinality(Holders(i)') = Cardinality(Holders(i)) + 1
    BY <2>1, FewHolders, FS_AddElement
  <2>3. Cardinality(Holders(i)) <= store[i].users
    BY <1>2 DEF UsersInv, Counted
  <2> QED
    BY <1>2, <1>3, <1>5, <2>2, <2>3, FewHolders DEF Counted
<1>6. CASE j # i
  <2>1. Holders(j)' = Holders(j)
    BY <1>4, <1>6 DEF Holders
  <2> QED
    BY <1>3, <1>6, <2>1, SameHolders DEF TypeInv, StateType, Record
<1> QED
  BY <1>5, <1>6

\* A settlement as it meets the record.
LEMMA SettledCounts ==
  ASSUME TypeInv, UsersInv, NEW w \in Workers, task[w].pc \in Holding,
         NEW rec \in Record, rec.users = Unheld(store[task[w].id]).users,
         store' = Settled(task[w].id, rec), Leave(w)
  PROVE  UsersInv'
<1> DEFINE i == task[w].id
<1>1. i \in DOMAIN store /\ store[i] \in Record /\ store[i].users > 0 /\ store[i].users \in Nat
  BY HolderIsCounted DEF Record
<1>2. rec.users = store[i].users - 1
  BY <1>1, UnheldIs
<1>3. task'[w].pc \notin Holding /\ \A v \in Workers \ {w} : task'[v] = task[v]
  BY DEF Leave, Idle, Holding, TypeInv, StateType
<1>4. i \notin DOMAIN store' => rec.users = 0
  BY <1>1, SettledIs DEF InUse, Record
<1> QED
  BY <1>1, <1>2, <1>3, <1>4, SettledIs, GiveBackCounts

LEMMA SettleCounts ==
  ASSUME TypeInv, UsersInv, NEW w \in Workers, Settle(w) \/ RefreshFails(w)
  PROVE  UsersInv'
<1> DEFINE i == task[w].id
           u == Unheld(store[i])
<1>1. task[w].pc \in Holding
  BY DEF Settle, RefreshFails, Holding
<1>2. u \in Record
  BY <1>1, HolderIsCounted, UnheldIs
<1>3. \E rec : /\ store' = Settled(i, rec)
               /\ rec \in {u, [u EXCEPT !.blocked = FALSE], [u EXCEPT !.access = FALSE]}
  BY DEF Settle, RefreshFails
<1> HIDE DEF u
<1>4. PICK rec \in Record : store' = Settled(i, rec) /\ rec.users = u.users
  BY <1>2, <1>3 DEF Record
<1> QED
  BY <1>1, <1>4, SettledCounts DEF u, Settle, RefreshFails

LEMMA RetireCounts ==
  ASSUME TypeInv, UsersInv, NEW w \in Workers, Retire(w)
  PROVE  UsersInv'
<1> DEFINE i == task[w].id
           u == Unheld(store[i])
<1>1. /\ task[w].pc \in Holding
      /\ i \in DOMAIN store /\ store[i] \in Record /\ store[i].users > 0
      /\ store[i].users \in Nat
  BY HolderIsCounted DEF Retire, Holding, Record
<1>2. u \in Record /\ u.users = store[i].users - 1
  BY <1>1, UnheldIs
<1>3. store' = [store EXCEPT ![i] = [u EXCEPT !.access = FALSE, !.blocked = TRUE,
                                              !.tombstone = TRUE]]
  BY <1>1 DEF Retire
<1> HIDE DEF u
<1>4. /\ DOMAIN store' = DOMAIN store /\ store'[i].users = store[i].users - 1
      /\ \A j \in DOMAIN store \ {i} : store'[j] = store[j]
  BY <1>1, <1>2, <1>3 DEF Record
<1>5. task'[w].pc \notin Holding /\ \A v \in Workers \ {w} : task'[v] = task[v]
  BY <1>1 DEF Retire, Become, Holding, TypeInv, StateType, Task
<1> QED
  BY <1>1, <1>4, <1>5, GiveBackCounts

\* A step that leaves the marks and who holds what.
LEMMA NothingCounts ==
  ASSUME TypeInv, UsersInv, \A i \in Tokens : Holders(i)' \subseteq Holders(i),
         \A i \in DOMAIN store : /\ i \in DOMAIN store' => store'[i].users = store[i].users
                                 /\ i \notin DOMAIN store' => store[i].users = 0,
         \A i \in DOMAIN store' \ DOMAIN store : store'[i].users \in Nat
  PROVE  UsersInv'
<1> SUFFICES ASSUME NEW i \in Tokens
             PROVE  Counted(i)'
  BY DEF UsersInv
<1>1. i \in DOMAIN store => store[i].users \in Nat
  BY DEF TypeInv, StateType, Record
<1>2. i \in DOMAIN store \ DOMAIN store' => Holders(i)' = {}
  <2>1. i \in DOMAIN store \ DOMAIN store' => Cardinality(Holders(i)) = 0
    BY FewHolders DEF UsersInv, Counted
  <2> QED
    BY <2>1, FewHolders, FS_EmptySet
<1> QED
  BY <1>1, <1>2, SameHolders

LEMMA FinishRefreshCounts ==
  ASSUME TypeInv, UsersInv, NEW w \in Workers, FinishRefresh(w)
  PROVE  UsersInv'
<1> DEFINE i == task[w].id
           rec == RefreshedRecord(store[i], task[w].got)
<1>1. i \in DOMAIN store /\ store[i] \in Record /\ store[i].users > 0
  BY HolderIsCounted DEF FinishRefresh, Holding
<1>2. task[w].got \in Tokens \cup {Nothing}
  BY DEF TypeInv, StateType, Task
<1>3. rec \in Record /\ rec.users = store[i].users
  BY <1>1, <1>2, RefreshedRecordIs
<1>4. store' = Settled(i, rec)
  BY <1>1, StoredIsSettled DEF FinishRefresh
<1>5. i \in DOMAIN store'
  BY <1>1, <1>3, <1>4, SettledIs DEF InUse
<1>6. /\ task'[w].id = i /\ \A v \in Workers \ {w} : task'[v] = task[v]
  BY <1>1 DEF FinishRefresh, Become, TypeInv, StateType, Task
<1>7. \A j \in Tokens : Holders(j)' \subseteq Holders(j)
  BY <1>6 DEF Holders, Holding, FinishRefresh
<1> HIDE DEF rec
<1> QED
  BY <1>3, <1>4, <1>5, <1>7, SettledIs, NothingCounts

LEMMA TrashCounts ==
  ASSUME TypeInv, UsersInv, NEW w \in Workers, Trash(w)
  PROVE  UsersInv'
<1> DEFINE i == task[w].id
           rec == [store[i] EXCEPT !.access = FALSE, !.blocked = TRUE, !.detached = TRUE]
<1>1. i \in DOMAIN store => rec \in Record /\ rec.users = store[i].users
  BY DEF TypeInv, StateType, Record
<1>2. store' = Settled(i, rec) \/ store' = store
  BY DEF Trash
<1>3. \A j \in Tokens : Holders(j)' \subseteq Holders(j)
  BY DEF Trash, Leave, Idle, Holders, Holding, TypeInv, StateType
<1> HIDE DEF rec
<1>4. \A j \in DOMAIN store : /\ j \in DOMAIN store' => store'[j].users = store[j].users
                              /\ j \notin DOMAIN store' => store[j].users = 0
  BY <1>1, <1>2, SettledIs DEF InUse, Record
<1>5. DOMAIN store' \subseteq DOMAIN store
  BY <1>2, SettledIs
<1> QED
  BY <1>3, <1>4, <1>5, NothingCounts

LEMMA AdminApplyCounts ==
  ASSUME TypeInv, UsersInv, AdminApply
  PROVE  UsersInv'
<1> DEFINE i == op.disk.id
           rec == [store[i] EXCEPT !.detached = TRUE]
           t == op.disk.token
<1>1. Administering /\ \A j \in Tokens : Holders(j)' = Holders(j)
  BY DEF AdminApply, Holders
<1>2. CASE op.kind = "delete"
  <2>1. i \in DOMAIN store => rec \in Record /\ rec.users = store[i].users
    BY DEF TypeInv, StateType, Record
  <2>2. store' = Settled(i, rec)
    BY <1>2 DEF AdminApply
  <2> HIDE DEF rec, i
  <2>3. \A j \in DOMAIN store : /\ j \in DOMAIN store' => store'[j].users = store[j].users
                                /\ j \notin DOMAIN store' => store[j].users = 0
    BY <2>1, <2>2, SettledIs DEF InUse, Record
  <2>4. DOMAIN store' \subseteq DOMAIN store
    BY <2>2, SettledIs
  <2> QED
    BY <1>1, <2>3, <2>4, NothingCounts
<1>3. CASE op.kind = "import" /\ op.insert
  <2>1. t \in Tokens /\ store' = Put(store, i, Upserted(i, t))
    BY <1>1, <1>3, AdministeringIs DEF AdminApply
  <2>2. /\ i \in DOMAIN store => Upserted(i, t).users = store[i].users
        /\ i \notin DOMAIN store => Upserted(i, t).users = 0
    BY <2>1, UpsertedIs, NewIs DEF TypeInv
  <2> HIDE DEF i, t
  <2>3. /\ DOMAIN store' = DOMAIN store \cup {i} /\ store'[i] = Upserted(i, t)
        /\ \A j \in DOMAIN store \ {i} : store'[j] = store[j]
    BY <2>1 DEF Put
  <2> QED
    BY <1>1, <2>2, <2>3, NothingCounts
<1>4. CASE op.kind = "import" /\ ~op.insert
  <2>1. store' = store
    BY <1>4 DEF AdminApply
  <2> QED
    BY <1>1, <2>1, NothingCounts
<1> QED
  BY <1>1, <1>2, <1>3, <1>4 DEF Administering

LEMMA SyncApplyCounts ==
  ASSUME TypeInv, UsersInv, SyncApply
  PROVE  UsersInv'
<1>1. \A j \in Tokens : Holders(j)' = Holders(j)
  BY DEF SyncApply, Holders
<1>2. \A j \in DOMAIN store : /\ j \in DOMAIN store' => store'[j].users = store[j].users
                              /\ j \notin DOMAIN store' => store[j].users = 0
  BY SyncApplyIs DEF InUse, TypeInv, StateType, Record
<1>3. \A j \in DOMAIN store' \ DOMAIN store : store'[j].users \in Nat
  BY SyncApplyIs DEF Record
<1> QED
  BY <1>1, <1>2, <1>3, NothingCounts

\* The other steps leave the store, and who holds what, as they are.
LEMMA OthersCount ==
  ASSUME TypeInv, UsersInv, UNCHANGED store, \A i \in Tokens : Holders(i)' \subseteq Holders(i)
  PROVE  UsersInv'
  BY NothingCounts

LEMMA UsersStep ==
  ASSUME TypeInv, UsersInv, [Next]_vars
  PROVE  UsersInv'
<1>1. CASE UNCHANGED <<store, task>>
  BY <1>1, OthersCount DEF Holders
<1>2. ASSUME NEW w \in Workers, Work(w)
      PROVE  UsersInv'
  <2>1. CASE Exchange(w) \/ Persist(w) \/ Disconnect(w)
    <3>1. /\ task'[w].pc \in Holding => task'[w].id = task[w].id /\ task[w].pc \in Holding
          /\ \A v \in Workers \ {w} : task'[v] = task[v]
      BY <2>1 DEF Exchange, Persist, Disconnect, Become, Idle, Holding, TypeInv, StateType, Task
    <3>2. \A i \in Tokens : Holders(i)' \subseteq Holders(i)
      BY <3>1 DEF Holders
    <3> QED
      BY <2>1, <3>2, OthersCount DEF Exchange, Persist, Disconnect
  <2> QED
    BY <1>2, <2>1, SelectCounts, SettleCounts, FinishRefreshCounts, RetireCounts, TrashCounts
       DEF Work
<1>3. CASE Sync
  BY <1>1, <1>3, SyncApplyCounts DEF Sync, Rescan, Plan, SyncDisk, SyncFails
<1>4. CASE Administer
  BY <1>1, <1>4, AdminApplyCounts DEF Administer, Import, Delete, AdminDisk, AdminDisconnect
<1>5. CASE Crash
  <2>1. \A i \in Tokens : Holders(i)' = {} /\ DOMAIN store' = {}
    BY <1>5 DEF Crash, Idle, Holders, Holding
  <2> QED
    BY <2>1 DEF UsersInv, Counted
<1>6. CASE Orphan \/ Edit \/ Revoke
  BY <1>1, <1>6 DEF Orphan, Edit, Revoke
<1> QED
  BY <1>1, <1>2, <1>3, <1>4, <1>5, <1>6 DEF Next, vars

LEMMA UsersInit == Init => UsersInv
<1> SUFFICES ASSUME Init
             PROVE  UsersInv
  OBVIOUS
<1>1. \A i : Holders(i) = {}
  BY DEF Init, Holders, Holding, Idle
<1> QED
  BY <1>1 DEF Init, UsersInv, Counted

FilesInv == TypeInv /\ UsersInv

LEMMA FilesInvariant == Spec => []FilesInv
<1>1. Init => FilesInv
  BY TypeInit, UsersInit DEF FilesInv
<1>2. FilesInv /\ [Next]_vars => FilesInv'
  BY TypeStep, UsersStep DEF FilesInv
<1> QED
  BY <1>1, <1>2, PTL DEF Spec

\* No rescan, deletion or retirement takes away the record of a request that uses or
\* refreshes it, with whatever faults (in_flight_requests, maybe_remove_detached,
\* apply_disk_sync_plan).
THEOREM UsersKept == Spec => []UsersKeepAccounts
<1>1. FilesInv => UsersKeepAccounts
  BY HolderIsCounted DEF FilesInv, UsersKeepAccounts, Holding
<1> QED
  BY <1>1, FilesInvariant, PTL

-----------------------------------------------------------------------------
(* The tokens of the accounts *)

\* The tokens an operation, or a disk operation left behind, may put somewhere.
InWorks ==
  {d.token : d \in orphans} \cup
  IF op = Nothing THEN {}
  ELSE IF op.kind = "scan" THEN {op.found[i] : i \in DOMAIN op.found}
  ELSE IF op.kind = "sync" THEN op.found
  ELSE {op.disk.token}

\* Only the end of a refresh gives an account another token; a new account has the
\* token that its import or its file has.
TokensStay ==
  /\ \A i \in DOMAIN store \cap DOMAIN store' : store'[i].token = store[i].token
  /\ \A i \in DOMAIN store' \ DOMAIN store : store'[i].token \in InWorks

\* No account comes, is attached, detached or given another token; detached ones may go.
SameAccounts ==
  /\ DOMAIN store' \subseteq DOMAIN store
  /\ \A i \in DOMAIN store' : /\ store'[i].token = store[i].token
                              /\ store'[i].detached = store[i].detached
  /\ \A i \in DOMAIN store \ DOMAIN store' : store[i].detached

LEMMA SettledTokens ==
  ASSUME TypeInv, NEW i, NEW rec, i \in DOMAIN store => rec.token = store[i].token,
         store' = Settled(i, rec)
  PROVE  TokensStay
  BY SettledIs DEF TokensStay

LEMMA SameStoreTokens ==
  ASSUME store' = store
  PROVE  TokensStay
  BY DEF TokensStay

LEMMA WorkAccounts ==
  ASSUME TypeInv, NEW w \in Workers, Work(w), ~FinishRefresh(w), ~Trash(w)
  PROVE  SameAccounts
<1> DEFINE i == task[w].id
           u == Unheld(store[i])
<1>1. /\ \A j \in DOMAIN store : store[j] \in Record
      /\ i \in DOMAIN store => /\ u \in Record /\ u.token = store[i].token
                               /\ u.detached = store[i].detached
  BY UnheldIs DEF TypeInv, StateType
<1>2. CASE Select(w)
  BY <1>1, <1>2 DEF Select, SameAccounts, Record
<1>3. CASE Settle(w) \/ RefreshFails(w)
  <2>1. PICK rec \in {u, [u EXCEPT !.blocked = FALSE], [u EXCEPT !.access = FALSE]} :
          store' = Settled(i, rec)
    BY <1>3 DEF Settle, RefreshFails
  <2> HIDE DEF u
  <2>2. i \in DOMAIN store => rec.token = store[i].token /\ rec.detached = store[i].detached
    BY <1>1, <2>1 DEF Record
  <2> QED
    BY <2>1, <2>2, SettledIs DEF SameAccounts
<1>4. CASE Retire(w)
  <2>1. \/ store' = store
        \/ i \in DOMAIN store /\ store' = [store EXCEPT ![i] =
             [u EXCEPT !.access = FALSE, !.blocked = TRUE, !.tombstone = TRUE]]
    BY <1>4 DEF Retire
  <2> HIDE DEF u
  <2> QED
    BY <1>1, <2>1 DEF SameAccounts, Record
<1>5. CASE Exchange(w) \/ Persist(w) \/ Disconnect(w)
  BY <1>5 DEF Exchange, Persist, Disconnect, SameAccounts
<1> QED
  BY <1>2, <1>3, <1>4, <1>5 DEF Work

LEMMA TrashIs ==
  ASSUME TypeInv, NEW w \in Workers, Trash(w)
  PROVE  \/ UNCHANGED <<files, store>> /\ DiskErrors
         \/ /\ files' = Execute(op.disk)
            /\ DOMAIN store' \subseteq DOMAIN store
            /\ DOMAIN store \ {task[w].id} \subseteq DOMAIN store'
            /\ \A j \in DOMAIN store' \ {task[w].id} : store'[j] = store[j]
            /\ task[w].id \in DOMAIN store' =>
                 /\ store'[task[w].id].token = store[task[w].id].token
                 /\ store'[task[w].id].detached
<1> DEFINE i == task[w].id
           rec == [store[i] EXCEPT !.access = FALSE, !.blocked = TRUE, !.detached = TRUE]
<1>1. \/ files' = Execute(op.disk) /\ store' = Settled(i, rec)
      \/ UNCHANGED <<files, store>> /\ DiskErrors
  BY DEF Trash
<1>2. i \in DOMAIN store => rec.token = store[i].token /\ rec.detached
  BY DEF TypeInv, StateType, Record
<1> HIDE DEF rec
<1> QED
  BY <1>1, <1>2, SettledIs

LEMMA WorkTokens ==
  ASSUME TypeInv, NEW w \in Workers, Work(w), ~FinishRefresh(w)
  PROVE  TokensStay
  BY WorkAccounts, TrashIs DEF SameAccounts, TokensStay

LEMMA AdminApplyTokens ==
  ASSUME TypeInv, AdminApply
  PROVE  TokensStay
<1> DEFINE i == op.disk.id
           rec == [store[i] EXCEPT !.detached = TRUE]
           t == op.disk.token
<1>1. Administering
  BY DEF AdminApply
<1>2. CASE op.kind = "delete"
  <2>1. i \in DOMAIN store => rec.token = store[i].token
    BY DEF TypeInv, StateType, Record
  <2>2. store' = Settled(i, rec)
    BY <1>2 DEF AdminApply
  <2> HIDE DEF rec, i
  <2> QED
    BY <2>1, <2>2, SettledTokens
<1>3. CASE op.kind = "import" /\ op.insert
  <2>1. t \in Tokens /\ store' = Put(store, i, Upserted(i, t)) /\ t \in InWorks
    BY <1>1, <1>3, AdministeringIs DEF AdminApply, InWorks, Administering
  <2>2. /\ i \in DOMAIN store => Upserted(i, t).token = store[i].token
        /\ i \notin DOMAIN store => Upserted(i, t).token = t
    BY <2>1, UpsertedIs, NewIs DEF TypeInv
  <2> HIDE DEF i, t
  <2>3. /\ DOMAIN store' = DOMAIN store \cup {i} /\ store'[i] = Upserted(i, t)
        /\ \A j \in DOMAIN store \ {i} : store'[j] = store[j]
    BY <2>1 DEF Put
  <2> QED
    BY <2>1, <2>2, <2>3 DEF TokensStay
<1>4. CASE op.kind = "import" /\ ~op.insert
  BY <1>4, SameStoreTokens DEF AdminApply
<1> QED
  BY <1>1, <1>2, <1>3, <1>4 DEF Administering

LEMMA SyncApplyTokens ==
  ASSUME TypeInv, SyncApply
  PROVE  TokensStay
<1>1. \A i \in DOMAIN store' \ DOMAIN store : store'[i].token \in op.found
  <2> SUFFICES ASSUME NEW i \in DOMAIN store' \ DOMAIN store
               PROVE  store'[i].token \in op.found
    OBVIOUS
  <2>1. Syncing /\ \E t \in op.found : store'[i] = New(t)
    BY SyncApplyIs
  <2>2. PICK t \in op.found : store'[i] = New(t)
    BY <2>1
  <2>3. t \in Tokens
    BY <2>1, SyncingIs
  <2> QED
    BY <2>2, <2>3, NewIs
<1>2. op.found \subseteq InWorks
  BY SyncApplyIs, SyncingIs DEF InWorks, Syncing
<1> QED
  BY <1>1, <1>2, SyncApplyIs DEF TokensStay

LEMMA StepTokens ==
  ASSUME TypeInv, [Next]_vars
  PROVE  TokensStay \/ \E w \in Workers : FinishRefresh(w)
<1>1. CASE UNCHANGED vars
  BY <1>1, SameStoreTokens DEF vars
<1>2. CASE \E w \in Workers : Work(w)
  BY <1>2, WorkTokens
<1>3. CASE Sync
  BY <1>3, SyncApplyTokens, SameStoreTokens DEF Sync, Rescan, Plan, SyncDisk, SyncFails
<1>4. CASE Administer
  BY <1>4, AdminApplyTokens, SameStoreTokens
     DEF Administer, Import, Delete, AdminDisk, AdminDisconnect
<1>5. CASE Crash
  BY <1>5 DEF Crash, TokensStay
<1>6. CASE Orphan \/ Edit \/ Revoke
  BY <1>6, SameStoreTokens DEF Orphan, Edit, Revoke
<1> QED
  BY <1>1, <1>2, <1>3, <1>4, <1>5, <1>6 DEF Next

LEMMA FinishRefreshTokens ==
  ASSUME FilesInv, NEW w \in Workers, FinishRefresh(w)
  PROVE  /\ task[w].id \in DOMAIN store /\ DOMAIN store' = DOMAIN store
         /\ store'[task[w].id].token =
              IF task[w].got = Nothing THEN store[task[w].id].token ELSE task[w].got
         /\ store'[task[w].id].detached = store[task[w].id].detached
         /\ store'[task[w].id].tombstone = store[task[w].id].tombstone
         /\ \A j \in DOMAIN store \ {task[w].id} : store'[j] = store[j]
         /\ task'[w].pc \in {"use", "persist"}
         /\ \A v \in Workers \ {w} : task'[v] = task[v]
<1> DEFINE i == task[w].id
           rec == RefreshedRecord(store[i], task[w].got)
<1>1. i \in DOMAIN store /\ store[i] \in Record /\ store[i].users > 0
  BY HolderIsCounted DEF FinishRefresh, Holding, FilesInv
<1>2. task[w].got \in Tokens \cup {Nothing}
  BY DEF FilesInv, TypeInv, StateType, Task
<1>3. rec \in Record /\ rec.users = store[i].users
  BY <1>1, <1>2, RefreshedRecordIs
<1>4. store' = Settled(i, rec)
  BY <1>1, StoredIsSettled DEF FinishRefresh
<1>5. i \in DOMAIN store'
  BY <1>1, <1>3, <1>4, SettledIs DEF InUse
<1>6. /\ task'[w].pc \in {"use", "persist"}
      /\ \A v \in Workers \ {w} : task'[v] = task[v]
  BY <1>1 DEF FinishRefresh, Become, FilesInv, TypeInv, StateType, Task
<1>7. /\ rec.token = IF task[w].got = Nothing THEN store[i].token ELSE task[w].got
      /\ rec.detached = store[i].detached /\ rec.tombstone = store[i].tombstone
  BY <1>1, <1>2, RefreshedRecordIs
<1> HIDE DEF rec
<1>8. /\ DOMAIN store' = DOMAIN store /\ store'[i] = rec
      /\ \A j \in DOMAIN store \ {i} : store'[j] = store[j]
  BY <1>1, <1>4, <1>5, SettledIs
<1> QED
  BY <1>1, <1>6, <1>7, <1>8

-----------------------------------------------------------------------------
(* No account goes back to an old token *)

\* Everywhere a token may be.
OnFile  == {files[i] : i \in DOMAIN files}
InStore == {store[i].token : i \in DOMAIN store}
InTasks == {task[w].sent : w \in Workers} \cup {task[w].got : w \in Workers}

AtRest == Imports \cup {Nothing, Unreadable} \cup OnFile \cup InStore \cup InWorks

Known == AtRest \cup live \cup InTasks

\* What a refresh that ends in this step brings.
Delivered == {task[w].got : w \in {v \in Workers : FinishRefresh(v)}}

\* What is written to a file was on its way there; the operator has copies of the
\* imports.
LEMMA ExecuteKnown ==
  ASSUME NEW d \in DiskOp, files' = Execute(d)
  PROVE  OnFile' \subseteq OnFile \cup {d.token}
<1>1. /\ \A j \in DOMAIN files' \ {d.id} : j \in DOMAIN files /\ files'[j] = files[j]
      /\ d.kind = "write" => files'[d.id] = d.token
      /\ d.kind \in {"move", "remove"} => d.id \notin DOMAIN files'
      /\ d.kind = "none" => files' = files
  BY ExecuteIs
<1>2. d.kind \in {"write", "move", "remove", "none"}
  BY DEF DiskOp
<1> QED
  BY <1>1, <1>2 DEF OnFile

LEMMA OpInWorks ==
  ASSUME TypeInv, op # Nothing
  PROVE  /\ op.kind \in OnOneFile => op.disk \in DiskOp /\ op.disk.token \in InWorks
         /\ op.kind = "scan" => \A i \in DOMAIN op.found : op.found[i] \in InWorks
         /\ op.kind = "sync" => op.found \subseteq InWorks
<1>1. op \in Operation
  BY DEF TypeInv, OpInv, Proper
<1> QED
  BY <1>1, OperationIs DEF InWorks, OnOneFile

LEMMA FilesKnown ==
  ASSUME TypeInv, [Next]_vars
  PROVE  OnFile' \subseteq OnFile \cup InWorks \cup Imports \cup {Unreadable}
<1>1. CASE UNCHANGED files
  BY <1>1 DEF OnFile
<1>2. ASSUME NEW w \in Workers, Work(w)
      PROVE  OnFile' \subseteq OnFile \cup InWorks \cup Imports \cup {Unreadable}
  <2>1. CASE (Persist(w) \/ Trash(w)) /\ files' = Execute(op.disk)
    <3>1. op # Nothing /\ op.kind \in OnOneFile
      BY <2>1 DEF Persist, Trash, TypeInv, LockInv, OnOneFile
    <3> QED
      BY <2>1, <3>1, OpInWorks, ExecuteKnown
  <2>2. CASE Persist(w)
    BY <1>1, <2>1, <2>2 DEF Persist
  <2>3. CASE Trash(w)
    BY <1>1, <2>1, <2>3 DEF Trash
  <2> QED
    BY <1>1, <1>2, <2>2, <2>3
       DEF Work, Select, Settle, Exchange, RefreshFails, FinishRefresh, Retire, Disconnect
<1>3. CASE AdminDisk
  <2>1. op # Nothing /\ op.kind \in OnOneFile
    BY <1>3 DEF AdminDisk, Administering, OnOneFile
  <2> QED
    BY <1>1, <1>3, <2>1, OpInWorks, ExecuteKnown DEF AdminDisk
<1>4. CASE Orphan
  <2>1. PICK d \in orphans : files' = Execute(d)
    BY <1>4 DEF Orphan
  <2>2. d \in DiskOp /\ d.token \in InWorks
    BY DEF TypeInv, StateType, InWorks
  <2> QED
    BY <2>1, <2>2, ExecuteKnown
<1>5. CASE SyncDisk
  <2>0. Syncing /\ op.found \subseteq InWorks
    BY <1>5, OpInWorks DEF SyncDisk, Syncing
  <2>1. CASE \E p \in op.writes : files' = Put(files, p[1], p[2])
    <3>1. PICK p \in op.writes : files' = Put(files, p[1], p[2])
      BY <2>1
    <3>2. p[2] \in InWorks
      BY <2>0, SyncingIs
    <3> QED
      BY <3>1, <3>2 DEF OnFile, Put
  <2>2. CASE \E i \in op.removals : files' = Drop(files, i)
    BY <2>2 DEF OnFile, Drop
  <2> QED
    BY <1>5, <2>1, <2>2 DEF SyncDisk
<1>6. CASE Edit
  <2>1. CASE \E i \in FreeNames, t \in Imports : files' = Put(files, i, t)
    BY <2>1 DEF OnFile, Put
  <2>2. CASE \E i \in DOMAIN files, j \in FreeNames : files' = Put(Drop(files, i), j, files[i])
    BY <2>2 DEF OnFile, Put, Drop
  <2>3. CASE \E i \in DOMAIN files : files' = Drop(files, i)
    BY <2>3 DEF OnFile, Drop
  <2>4. CASE \E i \in DOMAIN files : files' = Put(files, i, Unreadable)
    BY <2>4 DEF OnFile, Put
  <2> QED
    BY <1>6, <2>1, <2>2, <2>3, <2>4 DEF Edit
<1> QED
  BY <1>1, <1>2, <1>3, <1>4, <1>5, <1>6
     DEF Next, vars, Sync, Rescan, Plan, SyncApply, SyncFails, Administer, Import, Delete,
         AdminApply, AdminDisconnect, Crash, Revoke

LEMMA StoreKnown ==
  ASSUME FilesInv, [Next]_vars
  PROVE  InStore' \subseteq InStore \cup InWorks \cup Delivered
<1>1. CASE TokensStay
  BY <1>1 DEF TokensStay, InStore
<1>2. CASE \E w \in Workers : FinishRefresh(w)
  <2>1. PICK w \in Workers : FinishRefresh(w)
    BY <1>2
  <2>2. task[w].got \in Delivered
    BY <2>1 DEF Delivered
  <2> QED
    BY <2>1, <2>2, FinishRefreshTokens DEF InStore
<1> QED
  BY <1>1, <1>2, StepTokens DEF FilesInv

\* What an operation takes to write, it takes from where it is known.
LEMMA WorksKnown ==
  ASSUME FilesInv, [Next]_vars
  PROVE  InWorks' \subseteq AtRest \cup Delivered
<1> USE DEF FilesInv
<1>1. CASE InWorks' \subseteq InWorks
  BY <1>1 DEF AtRest
<1>2. CASE UNCHANGED orphans /\ op' = Nothing
  BY <1>2, <1>1 DEF InWorks
<1>3. CASE UNCHANGED orphans /\ UNCHANGED op
  BY <1>3, <1>1 DEF InWorks
<1>4. ASSUME UNCHANGED orphans, op' # Nothing, op'.kind \in OnOneFile, op'.disk.token \in AtRest \cup Delivered
      PROVE  InWorks' \subseteq AtRest \cup Delivered
  BY <1>4 DEF InWorks, OnOneFile, AtRest
<1>5. ASSUME orphans' \subseteq orphans, NEW mode, op' = Scan(mode), OnFile \subseteq AtRest
      PROVE  InWorks' \subseteq AtRest \cup Delivered
  BY <1>5 DEF InWorks, Scan, OnFile, AtRest
<1>6. /\ OnFile \subseteq AtRest /\ InStore \subseteq AtRest /\ InWorks \subseteq AtRest
      /\ Nothing \in AtRest /\ Imports \subseteq AtRest
  BY DEF AtRest
<1>7. ASSUME NEW w \in Workers, Work(w)
      PROVE  InWorks' \subseteq AtRest \cup Delivered
  <2>1. CASE FinishRefresh(w)
    <3> DEFINE i == task[w].id
               rec == RefreshedRecord(store[i], task[w].got)
    <3>1. i \in DOMAIN store /\ store[i] \in Record /\ task[w].got \in Tokens \cup {Nothing}
      BY <2>1, FinishRefreshTokens DEF TypeInv, StateType, Task
    <3>2. rec.token \in AtRest \cup Delivered
      <4>1. store[i].token \in InStore /\ task[w].got \in Delivered
        BY <2>1, <3>1 DEF InStore, Delivered
      <4> QED
        BY <1>6, <3>1, <4>1, RefreshedRecordIs
    <3> HIDE DEF rec
    <3>3. UNCHANGED orphans /\
          \/ UNCHANGED op
          \/ op' = [kind |-> "persist", by |-> w,
                    disk |-> [kind |-> "write", id |-> i, token |-> rec.token]]
      BY <2>1 DEF FinishRefresh, Acquire, rec
    <3>4. CASE op' = [kind |-> "persist", by |-> w,
                      disk |-> [kind |-> "write", id |-> i, token |-> rec.token]]
      <4>1. op'.kind = "persist" /\ op'.disk.token = rec.token
        BY <3>4
      <4> QED
        BY <1>2, <1>4, <3>2, <3>3, <4>1 DEF OnOneFile
    <3> QED
      BY <1>3, <3>3, <3>4
  <2>2. CASE Retire(w)
    <3>1. UNCHANGED orphans
      BY <2>2 DEF Retire
    <3>2. CASE UNCHANGED op
      BY <1>3, <3>1, <3>2
    <3>3. CASE op' # op
      <4>1. op'.kind = "trash" /\ op'.disk.token = Nothing
        BY <2>2, <3>3 DEF Retire, Acquire
      <4> QED
        BY <1>2, <1>4, <1>6, <3>1, <4>1 DEF OnOneFile
    <3> QED
      BY <3>2, <3>3
  <2>3. CASE Persist(w) \/ Trash(w)
    BY <1>2, <2>3 DEF Persist, Trash, Release
  <2>4. CASE Disconnect(w)
    <3>1. CASE task[w].pc \in {"persist", "trash"}
      <4>1. op # Nothing /\ op.kind \in OnOneFile
        BY <3>1 DEF TypeInv, LockInv, OnOneFile
      <4>2. op.disk.token \in InWorks
        BY <4>1, OpInWorks
      <4> QED
        BY <1>1, <2>4, <3>1, <4>2 DEF Disconnect, Release, InWorks
    <3>2. CASE task[w].pc \notin {"persist", "trash"}
      BY <1>3, <2>4, <3>2 DEF Disconnect
    <3> QED
      BY <3>1, <3>2
  <2> QED
    BY <1>3, <1>7, <2>1, <2>2, <2>3, <2>4 DEF Work, Select, Settle, Exchange, RefreshFails
<1>8. CASE Sync
  <2>1. CASE Rescan
    BY <1>5, <1>6, <2>1 DEF Rescan, Acquire
  <2>2. CASE Plan
    <3>1. /\ op'.kind = "sync" /\ op'.found = {op.found[i] : i \in Readable(op.found)}
          /\ UNCHANGED orphans
      BY <2>2 DEF Plan
    <3>2. \A i \in DOMAIN op.found : op.found[i] \in InWorks
      BY <2>2, OpInWorks DEF Plan, Scanning
    <3>3. op'.found \subseteq InWorks
      BY <3>1, <3>2 DEF Readable
    <3> QED
      BY <1>1, <3>1, <3>3 DEF InWorks
  <2>3. CASE SyncDisk
    <3>1. Syncing /\ op \in Operation
      BY <2>3 DEF SyncDisk, Syncing, TypeInv, OpInv, Proper
    <3>2. op'.kind = "sync" /\ op'.found = op.found
      BY <2>3, SyncDiskIs
    <3>3. op.found \subseteq InWorks
      BY <3>1, OpInWorks DEF Syncing
    <3> QED
      BY <1>1, <2>3, <3>2, <3>3 DEF InWorks, SyncDisk
  <2>4. CASE SyncApply \/ SyncFails
    BY <1>2, <2>4 DEF SyncApply, SyncFails, Release
  <2> QED
    BY <1>8, <2>1, <2>2, <2>3, <2>4 DEF Sync
<1>9. CASE Administer
  <2>1. ASSUME NEW t \in Tokens, Import(t)
        PROVE  InWorks' \subseteq AtRest \cup Delivered
    <3>1. t \in AtRest /\ UNCHANGED orphans
      BY <1>6, <2>1 DEF Import
    <3>2. op'.kind = "import" /\ op'.disk.token = t
      BY <2>1 DEF Import, Acquire
    <3> QED
      BY <1>2, <1>4, <3>1, <3>2 DEF OnOneFile
  <2>2. ASSUME NEW i \in Tokens, Delete(i)
        PROVE  InWorks' \subseteq AtRest \cup Delivered
    <3>1. op'.kind = "delete" /\ op'.disk.token = Nothing /\ UNCHANGED orphans
      BY <2>2 DEF Delete, Acquire
    <3> QED
      BY <1>2, <1>4, <1>6, <3>1 DEF OnOneFile
  <2>3. CASE AdminDisk \/ AdminDisconnect \/ AdminApply
    <3>1. op # Nothing /\ op \in Operation /\ op.kind \in {"import", "delete"}
      BY <2>3 DEF AdminDisk, AdminDisconnect, AdminApply, Administering, TypeInv, OpInv, Proper
    <3>2. op.disk.token \in InWorks
      BY <3>1, OpInWorks DEF OnOneFile
    <3>3. CASE AdminDisk
      <4>1. CASE op' = [op EXCEPT !.done = TRUE]
        <5>1. op'.kind = op.kind /\ op'.disk = op.disk
          BY <3>1, <4>1, OperationIs
        <5> QED
          BY <1>2, <1>4, <1>6, <3>1, <3>2, <3>3, <5>1 DEF AdminDisk, OnOneFile
      <4> QED
        BY <1>2, <3>3, <4>1 DEF AdminDisk, Release
    <3>4. CASE AdminDisconnect
      BY <1>1, <3>2, <3>4 DEF AdminDisconnect, Release, InWorks
    <3>5. CASE AdminApply
      BY <1>2, <3>5 DEF AdminApply, Release
    <3> QED
      BY <2>3, <3>3, <3>4, <3>5
  <2> QED
    BY <1>9, <2>1, <2>2, <2>3 DEF Administer
<1>10. CASE Orphan
  BY <1>1, <1>10 DEF Orphan, InWorks
<1>11. CASE Crash
  <2>1. orphans' \subseteq orphans /\ op' = Scan("startup")
    BY <1>11 DEF Crash
  <2> QED
    BY <1>5, <1>6, <2>1
<1>12. CASE UNCHANGED vars \/ Edit \/ Revoke
  BY <1>3, <1>12 DEF vars, Edit, Revoke
<1> QED
  BY <1>7, <1>8, <1>9, <1>10, <1>11, <1>12 DEF Next

LEMMA AtRestKnown ==
  ASSUME FilesInv, [Next]_vars
  PROVE  AtRest' \subseteq AtRest \cup Delivered /\ Delivered \subseteq InTasks
<1>1. Delivered \subseteq InTasks
  BY DEF Delivered, InTasks
<1> QED
  BY <1>1, FilesKnown, StoreKnown, WorksKnown DEF AtRest, FilesInv

\* A request whose answer carries a new token.
Rotating(w) == task[w].pc = "refreshed" /\ task[w].got # Nothing

\* D holds the tokens that have been replaced, and perhaps ones before them.  The
\* endpoint accepts none of them; every token that is known was there first or
\* replaces one of them; a request that refreshes has its account's token or one
\* of them, and one whose answer carries a new token has both, alone.
Spent(D) ==
  /\ D \cap live = {}
  /\ \A p \in DOMAIN Successor : Successor[p] \in Known \cup D => p \in D
  /\ \A w \in Workers : task[w].pc = "refresh" =>
       task[w].sent \in D \/ store[task[w].id].token = task[w].sent
  /\ \A w \in Workers : Rotating(w) =>
       task[w].sent \in D /\ store[task[w].id].token = task[w].sent
  /\ \A v, w \in Workers :
       Rotating(v) /\ Rotating(w) /\ task[v].sent = task[w].sent => v = w

SpentInv == \E D \in SUBSET Tokens : Spent(D)

LEMMA SpentInit == Init => SpentInv
<1> SUFFICES ASSUME Init
             PROVE  Spent({})
  BY DEF SpentInv
<1>1. Known \subseteq
        Imports \cup {Nothing, Unreadable} \cup Valid \cup {Files[i] : i \in DOMAIN Files}
  <2>1. InStore = {} /\ live = Valid /\ InTasks \subseteq {Nothing} /\ orphans = {}
    BY DEF Init, InStore, InTasks, Idle
  <2>2. InWorks = {Files[i] : i \in DOMAIN Files} \/ InWorks = {}
    BY DEF Init, InWorks, Scan
  <2>3. OnFile = {Files[i] : i \in DOMAIN Files}
    BY DEF Init, OnFile
  <2> QED
    BY <2>1, <2>2, <2>3 DEF Known, AtRest
<1>2. \A p \in DOMAIN Successor : Successor[p] \notin Known
  BY <1>1, FilesAssumption, EndpointAssumption
<1> QED
  BY <1>2 DEF Init, Spent, Rotating, Idle

\* Holders keep their accounts across a step.
LEMMA HolderStays ==
  ASSUME FilesInv, FilesInv', NEW w \in Workers, task'[w].pc \in Holding
  PROVE  task'[w].id \in DOMAIN store'
<1>1. task'[w].id \in Tokens
  BY DEF FilesInv, TypeInv, TaskInv, Holding
<1>2. \A i \in Tokens : task'[w].id = i => w \in Holders(i)'
  BY DEF Holders
<1>3. \A i \in Tokens : i \notin DOMAIN store' => Holders(i)' = {}
  BY DEF FilesInv, UsersInv, Counted
<1> QED
  BY <1>1, <1>2, <1>3

\* A step after which nothing is known that was not, and no account has another
\* token.
LEMMA SpentStays ==
  ASSUME FilesInv, FilesInv', NEW D \in SUBSET Tokens, Spent(D),
         Known' \subseteq Known, live' \subseteq live, TokensStay,
         \A w \in Workers :
           /\ task'[w].pc = "refresh" =>
                task'[w] = task[w] \/ store'[task'[w].id].token = task'[w].sent
           /\ Rotating(w)' => task'[w] = task[w]
  PROVE  SpentInv'
<1>1. \A w \in Workers : task'[w].pc \in {"refresh", "refreshed"} /\ task'[w] = task[w] =>
        /\ task[w].id \in DOMAIN store /\ store'[task'[w].id].token = store[task[w].id].token
  <2> SUFFICES ASSUME NEW w \in Workers, task'[w].pc \in {"refresh", "refreshed"},
                      task'[w] = task[w]
               PROVE  /\ task[w].id \in DOMAIN store
                      /\ store'[task'[w].id].token = store[task[w].id].token
    OBVIOUS
  <2>1. task[w].id \in DOMAIN store
    BY HolderIsCounted DEF FilesInv, Holding
  <2>2. task'[w].id \in DOMAIN store'
    BY HolderStays DEF Holding
  <2> QED
    BY <2>1, <2>2 DEF TokensStay
<1>2. \A w \in Workers : task'[w].pc = "refresh" =>
        task'[w].sent \in D \/ store'[task'[w].id].token = task'[w].sent
  BY <1>1 DEF Spent
<1>3. \A w \in Workers : Rotating(w)' =>
        task'[w].sent \in D /\ store'[task'[w].id].token = task'[w].sent
  BY <1>1 DEF Spent, Rotating
<1>4. \A v, w \in Workers :
        Rotating(v)' /\ Rotating(w)' /\ task'[v].sent = task'[w].sent => v = w
  BY DEF Spent, Rotating
<1>5. \A p \in DOMAIN Successor : Successor[p] \in Known' \cup D => p \in D
  BY DEF Spent
<1>6. D \cap live' = {}
  BY DEF Spent
<1> QED
  BY <1>2, <1>3, <1>4, <1>5, <1>6 DEF SpentInv, Spent

LEMMA FinishRefreshSpent ==
  ASSUME FilesInv, FilesInv', NEW D \in SUBSET Tokens, Spent(D),
         NEW w \in Workers, FinishRefresh(w), Known' \subseteq Known
  PROVE  SpentInv'
<1> DEFINE i == task[w].id
<1>0. /\ i \in DOMAIN store /\ DOMAIN store' = DOMAIN store
      /\ store'[i].token = IF task[w].got = Nothing THEN store[i].token ELSE task[w].got
      /\ \A j \in DOMAIN store \ {i} : store'[j] = store[j]
      /\ task'[w].pc \in {"use", "persist"}
      /\ \A v \in Workers \ {w} : task'[v] = task[v]
      /\ live' = live /\ task[w].pc = "refreshed"
  BY FinishRefreshTokens DEF FinishRefresh
<1>1. CASE task[w].got = Nothing
  <2>1. TokensStay
    BY <1>0, <1>1 DEF TokensStay
  <2> QED
    BY <1>0, <2>1, SpentStays DEF Rotating
<1>2. CASE task[w].got # Nothing
  <2>1. Rotating(w) /\ task[w].sent \in D /\ store[i].token = task[w].sent
    BY <1>0, <1>2 DEF Spent, Rotating
  <2>2. \A v \in Workers : task'[v].pc = "refresh" =>
          task'[v].sent \in D \/ store'[task'[v].id].token = task'[v].sent
    <3> SUFFICES ASSUME NEW v \in Workers, task'[v].pc = "refresh"
                 PROVE  task'[v].sent \in D \/ store'[task'[v].id].token = task'[v].sent
      OBVIOUS
    <3>1. v # w /\ task'[v] = task[v]
      BY <1>0
    <3>2. task[v].id \in DOMAIN store
      BY <3>1, HolderIsCounted DEF FilesInv, Holding
    <3>3. task[v].sent \in D \/ store[task[v].id].token = task[v].sent
      BY <3>1 DEF Spent
    <3> QED
      BY <1>0, <2>1, <3>1, <3>2, <3>3
  <2>3. \A v \in Workers : Rotating(v)' =>
          task'[v].sent \in D /\ store'[task'[v].id].token = task'[v].sent
    <3> SUFFICES ASSUME NEW v \in Workers, Rotating(v)'
                 PROVE  task'[v].sent \in D /\ store'[task'[v].id].token = task'[v].sent
      OBVIOUS
    <3>1. v # w /\ task'[v] = task[v] /\ Rotating(v)
      BY <1>0 DEF Rotating
    <3>2. task[v].id \in DOMAIN store
      BY <3>1, HolderIsCounted DEF FilesInv, Holding, Rotating
    <3>3. task[v].sent \in D /\ store[task[v].id].token = task[v].sent
      BY <3>1 DEF Spent
    <3>4. task[v].id # i
      BY <2>1, <3>1, <3>3 DEF Spent
    <3> QED
      BY <1>0, <3>1, <3>2, <3>3, <3>4
  <2>4. \A u, v \in Workers :
          Rotating(u)' /\ Rotating(v)' /\ task'[u].sent = task'[v].sent => u = v
    BY <1>0 DEF Spent, Rotating
  <2>5. \A p \in DOMAIN Successor : Successor[p] \in Known' \cup D => p \in D
    BY DEF Spent
  <2>6. D \cap live' = {}
    BY <1>0 DEF Spent
  <2> QED
    BY <2>2, <2>3, <2>4, <2>5, <2>6 DEF SpentInv, Spent
<1> QED
  BY <1>1, <1>2

\* The endpoint replaces the token of a request that refreshes: the request is told,
\* or never reads the answer.
LEMMA RotationSpent ==
  ASSUME FilesInv, FilesInv', NEW D \in SUBSET Tokens, Spent(D), TokensStay,
         NEW w \in Workers, task[w].pc = "refresh",
         task[w].sent \in live \cap DOMAIN Successor,
         live' = (live \ {task[w].sent}) \cup {Successor[task[w].sent]},
         Known' \subseteq Known \cup {Successor[task[w].sent]},
         \A v \in Workers \ {w} : task'[v] = task[v],
         task'[w].pc # "refresh",
         task'[w].pc = "refreshed" => task'[w].id = task[w].id /\ task'[w].sent = task[w].sent
  PROVE  SpentInv'
<1> DEFINE s == task[w].sent
           E == D \cup {s}
<1>1. s \in Tokens /\ s \notin D /\ s \in Known
  BY DEF Spent, Known, InTasks, FilesInv, TypeInv, StateType
<1>2. store[task[w].id].token = s
  BY <1>1 DEF Spent
<1>3. Successor[s] \notin D /\ Successor[s] # s
  BY <1>1 DEF Spent
<1>4. E \cap live' = {}
  BY <1>3 DEF Spent
<1>5. \A p \in DOMAIN Successor : Successor[p] \in Known' \cup E => p \in E
  BY <1>1, EndpointAssumption DEF Spent
<1>6. \A v \in Workers : task'[v].pc \in {"refresh", "refreshed"} =>
        /\ task[v].pc \in {"refresh", "refreshed"} /\ task'[v].sent = task[v].sent
        /\ store'[task'[v].id].token = store[task[v].id].token
  <2> SUFFICES ASSUME NEW v \in Workers, task'[v].pc \in {"refresh", "refreshed"}
               PROVE  /\ task[v].pc \in {"refresh", "refreshed"}
                      /\ task'[v].sent = task[v].sent
                      /\ store'[task'[v].id].token = store[task[v].id].token
    OBVIOUS
  <2>1. /\ task[v].pc \in {"refresh", "refreshed"} /\ task'[v].sent = task[v].sent
        /\ task'[v].id = task[v].id
    BY <1>1
  <2>2. task[v].id \in DOMAIN store
    BY <2>1, HolderIsCounted DEF FilesInv, Holding
  <2>3. task'[v].id \in DOMAIN store'
    BY HolderStays DEF Holding
  <2> QED
    BY <2>1, <2>2, <2>3 DEF TokensStay
<1>7. \A v \in Workers : task'[v].pc = "refresh" =>
        task'[v].sent \in E \/ store'[task'[v].id].token = task'[v].sent
  BY <1>6 DEF Spent
<1>8. \A v \in Workers : Rotating(v)' =>
        task'[v].sent \in E /\ store'[task'[v].id].token = task'[v].sent
  <2> SUFFICES ASSUME NEW v \in Workers, Rotating(v)'
               PROVE  task'[v].sent \in E /\ store'[task'[v].id].token = task'[v].sent
    OBVIOUS
  <2>1. CASE v = w
    BY <1>2, <1>6, <2>1 DEF Rotating
  <2>2. CASE v # w
    BY <1>6, <2>2 DEF Rotating, Spent
  <2> QED
    BY <2>1, <2>2
<1>9. \A u, v \in Workers :
        Rotating(u)' /\ Rotating(v)' /\ task'[u].sent = task'[v].sent => u = v
  <2> SUFFICES ASSUME NEW u \in Workers, NEW v \in Workers, Rotating(u)', Rotating(v)',
                      task'[u].sent = task'[v].sent, u # v
               PROVE  FALSE
    OBVIOUS
  <2>1. CASE u # w /\ v # w
    BY <2>1 DEF Rotating, Spent
  <2>2. CASE u = w
    BY <1>1, <1>6, <2>2 DEF Rotating, Spent
  <2>3. CASE v = w
    BY <1>1, <1>6, <2>3 DEF Rotating, Spent
  <2> QED
    BY <2>1, <2>2, <2>3
<1>10. E \in SUBSET Tokens
  BY <1>1
<1> HIDE DEF s, E
<1> QED
  BY <1>4, <1>5, <1>7, <1>8, <1>9, <1>10 DEF SpentInv, Spent

LEMMA ExchangeSpent ==
  ASSUME FilesInv, FilesInv', NEW D \in SUBSET Tokens, Spent(D), NEW w \in Workers,
         Exchange(w) \/ RefreshFails(w)
  PROVE  SpentInv'
<1> DEFINE s == task[w].sent
<1>1. TokensStay /\ AtRest' \subseteq Known
  <2>1. Work(w) /\ ~FinishRefresh(w)
    BY DEF Work, Exchange, RefreshFails, FinishRefresh
  <2>2. TokensStay
    BY <2>1, WorkTokens DEF FilesInv
  <2>3. AtRest' \subseteq Known
    BY <2>1, AtRestKnown DEF Next, Known
  <2> QED
    BY <2>2, <2>3
<1>2. /\ task[w].pc = "refresh" /\ task[w] \in Task
      /\ \A v \in Workers \ {w} : task'[v] = task[v]
  BY DEF FilesInv, TypeInv, StateType, Exchange, RefreshFails, Become, Leave
<1>3. PICK after : live' = after /\ (after = live \/ after \in Rotated(s))
  BY DEF Exchange, RefreshFails
<1>4. CASE after = live
  <2>1. \/ task'[w] = Idle
        \/ task'[w].pc = "retire" /\ task'[w].sent = s /\ task'[w].got = task[w].got
        \/ task'[w].pc = "refreshed" /\ task'[w].sent = s /\ task'[w].got = Nothing
    BY <1>2, <1>3, <1>4
       DEF Exchange, RefreshFails, Become, Leave, FilesInv, TypeInv, StateType, Task
  <2>2. InTasks' \subseteq InTasks \cup {Nothing}
    BY <1>2, <2>1 DEF InTasks, Idle
  <2>3. Known' \subseteq Known
    BY <1>1, <1>3, <1>4, <2>2 DEF Known, AtRest
  <2>4. /\ task'[w].pc # "refresh" /\ ~Rotating(w)'
        /\ \A v \in Workers \ {w} : task'[v] = task[v]
    BY <1>2, <2>1 DEF Rotating, Idle
  <2>5. /\ \A v \in Workers : task'[v].pc = "refresh" => task'[v] = task[v]
        /\ \A v \in Workers : Rotating(v)' => task'[v] = task[v]
    BY <2>4
  <2> QED
    BY <1>1, <1>3, <1>4, <2>3, <2>5, SpentStays
<1>5. CASE after # live
  <2>1. s \in live \cap DOMAIN Successor /\ live' = (live \ {s}) \cup {Successor[s]}
    BY <1>3, <1>5, RotatedIs DEF FilesInv
  <2>2. \/ task'[w] = Idle
        \/ /\ task'[w].pc = "refreshed" /\ task'[w].id = task[w].id
           /\ task'[w].sent = s /\ task'[w].got = Successor[s]
    BY <1>2, <1>3, <1>5, <2>1
       DEF Exchange, RefreshFails, Become, Leave, FilesInv, TypeInv, StateType, Task
  <2>3. InTasks' \subseteq InTasks \cup {Nothing, Successor[s]}
    BY <1>2, <2>2 DEF InTasks, Idle
  <2>4. Known' \subseteq Known \cup {Successor[s]}
    BY <1>1, <2>1, <2>3 DEF Known, AtRest
  <2>5. task'[w].pc # "refresh" /\ (task'[w].pc = "refreshed" =>
                                      task'[w].id = task[w].id /\ task'[w].sent = s)
    BY <2>2 DEF Idle
  <2> QED
    BY <1>1, <1>2, <2>1, <2>4, <2>5, RotationSpent
<1> QED
  BY <1>4, <1>5

\* The steps that neither ask the endpoint nor end a refresh.
LEMMA OthersSpent ==
  ASSUME FilesInv, FilesInv', NEW D \in SUBSET Tokens, Spent(D), [Next]_vars,
         \A w \in Workers : ~Exchange(w) /\ ~RefreshFails(w) /\ ~FinishRefresh(w)
  PROVE  SpentInv'
<1>1. TokensStay
  BY StepTokens DEF FilesInv
<1>2. /\ live' \subseteq live
      /\ \A w \in Workers :
           \/ task'[w] = task[w] \/ task'[w].pc \notin {"refresh", "refreshed"}
           \/ /\ task'[w].pc = "refresh" /\ task'[w].got = Nothing
              /\ task'[w].id \in DOMAIN store /\ task'[w].id \in DOMAIN store'
              /\ task'[w].sent = store[task'[w].id].token
  <2>1. ASSUME NEW w \in Workers, Select(w)
        PROVE  <1>2!1 /\ <1>2!2
    BY <2>1 DEF Select, FilesInv, TypeInv, StateType
  <2>2. ASSUME NEW w \in Workers, Settle(w) \/ Persist(w) \/ Retire(w) \/ Trash(w) \/ Disconnect(w)
        PROVE  <1>2!1 /\ <1>2!2
    BY <2>2 DEF Settle, Persist, Retire, Trash, Disconnect, Leave, Become, Idle,
                FilesInv, TypeInv, StateType, Task
  <2>3. CASE UNCHANGED task /\ live' \subseteq live
    BY <2>3
  <2>4. CASE Crash
    BY <2>4 DEF Crash, Idle
  <2> QED
    BY <2>1, <2>2, <2>3, <2>4
       DEF Next, vars, Work, Sync, Rescan, Plan, SyncDisk, SyncApply, SyncFails, Administer,
           Import, Delete, AdminDisk, AdminApply, AdminDisconnect, Orphan, Edit, Revoke
<1>3. InTasks' \subseteq InTasks \cup InStore \cup {Nothing}
  <2>1. \A w \in Workers : /\ task'[w].sent \in InTasks \cup InStore \cup {Nothing}
                           /\ task'[w].got \in InTasks \cup {Nothing}
    <3>1. ASSUME NEW w \in Workers, Select(w)
          PROVE  <2>1
      BY <3>1 DEF Select, FilesInv, TypeInv, StateType, InTasks, InStore
    <3>2. ASSUME NEW w \in Workers, Settle(w) \/ Persist(w) \/ Retire(w) \/ Trash(w) \/ Disconnect(w)
          PROVE  <2>1
      BY <3>2 DEF Settle, Persist, Retire, Trash, Disconnect, Leave, Become, Idle,
                  FilesInv, TypeInv, StateType, Task, InTasks
    <3>3. CASE UNCHANGED task
      BY <3>3 DEF InTasks
    <3>4. CASE Crash
      BY <3>4 DEF Crash, Idle
    <3> QED
      BY <3>1, <3>2, <3>3, <3>4
         DEF Next, vars, Work, Sync, Rescan, Plan, SyncDisk, SyncApply, SyncFails, Administer,
             Import, Delete, AdminDisk, AdminApply, AdminDisconnect, Orphan, Edit, Revoke
  <2> QED
    BY <2>1 DEF InTasks
<1>4. Known' \subseteq Known
  BY <1>2, <1>3, AtRestKnown DEF Known, AtRest
<1>5. \A w \in Workers :
        /\ task'[w].pc = "refresh" =>
             task'[w] = task[w] \/ store'[task'[w].id].token = task'[w].sent
        /\ Rotating(w)' => task'[w] = task[w]
  BY <1>1, <1>2 DEF TokensStay, Rotating
<1> QED
  BY <1>1, <1>2, <1>4, <1>5, SpentStays

LEMMA SpentStep ==
  ASSUME FilesInv, FilesInv', SpentInv, [Next]_vars
  PROVE  SpentInv'
<1>1. PICK D \in SUBSET Tokens : Spent(D)
  BY DEF SpentInv
<1>2. ASSUME NEW w \in Workers, FinishRefresh(w)
      PROVE  SpentInv'
  <2>1. UNCHANGED live /\ InTasks' \subseteq InTasks
    <3>1. UNCHANGED live /\ \A v \in Workers :
            \/ task'[v] = Idle
            \/ task'[v].sent = task[v].sent /\ task'[v].got = task[v].got
      BY <1>2, FinishRefreshTokens DEF FinishRefresh, Become, FilesInv, TypeInv, StateType, Task
    <3>2. task'[w] # Idle
      BY <1>2, FinishRefreshTokens DEF Idle
    <3>3. \A v \in Workers : task'[v].sent = task[v].sent /\ task'[v].got = task[v].got
      BY <1>2, <3>1, <3>2, FinishRefreshTokens
    <3> QED
      BY <3>1, <3>3 DEF InTasks
  <2>2. Known' \subseteq Known
    BY <2>1, AtRestKnown DEF Known
  <2> QED
    BY <1>1, <1>2, <2>2, FinishRefreshSpent
<1>3. ASSUME NEW w \in Workers, Exchange(w) \/ RefreshFails(w)
      PROVE  SpentInv'
  BY <1>1, <1>3, ExchangeSpent
<1>4. CASE \A w \in Workers : ~Exchange(w) /\ ~RefreshFails(w) /\ ~FinishRefresh(w)
  BY <1>1, <1>4, OthersSpent
<1> QED
  BY <1>2, <1>3, <1>4

\* "Memory wins" (DEVELOPMENT.md): whatever is on disk, imported again or lost, and
\* however refreshes overlap, an account exchanges no refresh token that the token
\* endpoint would still accept for another (finish_refresh_success,
\* upsert_disk_record, apply_import_account_plan).
THEOREM NeverGoesBack == Spec => TokenNeverGoesBack
<1>1. Init => SpentInv
  BY SpentInit
<1>2. FilesInv /\ FilesInv' /\ SpentInv /\ [Next]_vars => SpentInv'
  BY SpentStep
<1>3. FilesInv /\ SpentInv /\ [Next]_vars =>
        [\A i \in DOMAIN store \cap DOMAIN store' :
           store'[i].token # store[i].token => store[i].token \notin live]_vars
  <2> SUFFICES ASSUME FilesInv, SpentInv, [Next]_vars,
                      NEW i \in DOMAIN store \cap DOMAIN store',
                      store'[i].token # store[i].token
               PROVE  store[i].token \notin live
    OBVIOUS
  <2>1. PICK w \in Workers : FinishRefresh(w)
    BY StepTokens DEF FilesInv, TokensStay
  <2>2. PICK D \in SUBSET Tokens : Spent(D)
    BY DEF SpentInv
  <2>3. i = task[w].id /\ Rotating(w)
    BY <2>1, FinishRefreshTokens DEF Rotating, FinishRefresh
  <2> QED
    BY <2>2, <2>3 DEF Spent
<1> QED
  BY <1>1, <1>2, <1>3, FilesInvariant, PTL DEF Spec, TokenNeverGoesBack

-----------------------------------------------------------------------------
(* What a refresh brings is new *)

\* The token an answer carries replaces the one sent, and nobody else has it yet.
FreshInv ==
  \A w \in Workers : Rotating(w) =>
    /\ task[w].sent \in DOMAIN Successor /\ task[w].got = Successor[task[w].sent]
    /\ task[w].got \notin AtRest

LEMMA FreshStep ==
  ASSUME FilesInv, SpentInv, FreshInv, [Next]_vars
  PROVE  FreshInv'
<1>1. PICK D \in SUBSET Tokens : Spent(D)
  BY DEF SpentInv
<1> SUFFICES ASSUME NEW w \in Workers, Rotating(w)'
             PROVE  /\ task'[w].sent \in DOMAIN Successor
                    /\ task'[w].got = Successor[task'[w].sent]
                    /\ task'[w].got \notin AtRest'
  BY DEF FreshInv
<1>2. CASE Exchange(w)
  <2>0. UNCHANGED <<files, store, op, orphans>>
    BY <1>2 DEF Exchange
  <2>1. /\ task[w].pc = "refresh" /\ task[w].sent \in live
        /\ AtRest' = AtRest
    <3>1. AtRest' = AtRest
      BY <2>0 DEF AtRest, OnFile, InStore, InWorks
    <3>2. task[w].sent \notin live => task'[w].pc = "retire"
      BY <1>2 DEF Exchange, Become, FilesInv, TypeInv, StateType, Task
    <3> QED
      BY <1>2, <3>1, <3>2 DEF Exchange, Rotating
  <2>2. /\ task[w].sent \in DOMAIN Successor /\ task'[w].sent = task[w].sent
        /\ task'[w].got = Successor[task[w].sent]
    BY <1>2, <2>1, RotatedIs
       DEF Exchange, Rotating, Become, FilesInv, TypeInv, StateType, Task
  <2>3. task[w].sent \notin D /\ AtRest \subseteq Known
    BY <1>1, <2>1 DEF Spent, Known
  <2> QED
    BY <1>1, <2>1, <2>2, <2>3 DEF Spent
<1>3. CASE task'[w] = task[w]
  <2>1. /\ Rotating(w) /\ task[w].sent \in DOMAIN Successor
        /\ task[w].got = Successor[task[w].sent] /\ task[w].got \notin AtRest
    BY <1>3 DEF Rotating, FreshInv
  <2>2. task[w].got \notin Delivered
    <3> SUFFICES ASSUME NEW v \in Workers, FinishRefresh(v), task[v].got = task[w].got
                 PROVE  FALSE
      BY DEF Delivered
    <3>1. v # w
      BY <1>3, FinishRefreshTokens DEF Rotating
    <3>2. Rotating(v) /\ task[v].sent \in DOMAIN Successor
          /\ task[v].got = Successor[task[v].sent]
      BY <2>1 DEF FinishRefresh, Rotating, FreshInv
    <3>3. task[v].sent = task[w].sent
      BY <2>1, <3>2, EndpointAssumption
    <3> QED
      BY <1>1, <2>1, <3>1, <3>2, <3>3 DEF Spent
  <2> QED
    BY <1>3, <2>1, <2>2, AtRestKnown
<1>4. \/ Exchange(w) \/ task'[w] = task[w]
      \/ task'[w].pc # "refreshed"
  <2>1. ASSUME NEW v \in Workers, Work(v)
        PROVE  <1>4
    <3>1. CASE v # w
      BY <2>1, <3>1, FinishRefreshTokens
         DEF Work, Select, Settle, Exchange, RefreshFails, FinishRefresh, Persist, Retire,
             Trash, Disconnect, Become, Leave, FilesInv, TypeInv, StateType
    <3>2. CASE v = w
      <4>1. CASE Select(w)
        BY <4>1 DEF Select, FilesInv, TypeInv, StateType
      <4>2. CASE FinishRefresh(w)
        BY <4>2, FinishRefreshTokens
      <4>3. CASE Settle(w) \/ RefreshFails(w) \/ Persist(w) \/ Retire(w) \/ Trash(w)
                 \/ Disconnect(w)
        BY <4>3 DEF Settle, RefreshFails, Persist, Retire, Trash, Disconnect, Become, Leave,
                    Idle, FilesInv, TypeInv, StateType, Task
      <4> QED
        BY <2>1, <3>2, <4>1, <4>2, <4>3 DEF Work
    <3> QED
      BY <3>1, <3>2
  <2>2. CASE UNCHANGED task
    BY <2>2
  <2>3. CASE Crash
    BY <2>3 DEF Crash, Idle
  <2> QED
    BY <2>1, <2>2, <2>3
       DEF Next, vars, Sync, Rescan, Plan, SyncDisk, SyncApply, SyncFails, Administer,
           Import, Delete, AdminDisk, AdminApply, AdminDisconnect, Orphan, Edit, Revoke
<1> QED
  BY <1>2, <1>3, <1>4 DEF Rotating

LEMMA TokensInvariant == Spec => [](FilesInv /\ SpentInv /\ FreshInv)
<1>1. Init => SpentInv /\ FreshInv
  BY SpentInit DEF Init, FreshInv, Rotating, Idle
<1>2. FilesInv /\ FilesInv' /\ SpentInv /\ FreshInv /\ [Next]_vars => SpentInv' /\ FreshInv'
  BY SpentStep, FreshStep
<1> QED
  BY <1>1, <1>2, FilesInvariant, PTL DEF Spec

-----------------------------------------------------------------------------
(* The directory in order *)

\* While disk operations succeed and clients stay, the operator only drops and renames
\* files, every file could be read at first, and the tokens the operator has copies of
\* are not replaced and are at home in the files named after them.
Orderly ==
  /\ ~DiskErrors /\ ~Disconnects
  /\ Edits \subseteq {"drop", "rename"}
  /\ \A i \in DOMAIN Files : Files[i] \in Tokens
  /\ \A i \in DOMAIN Files \cap Imports : Files[i] = i
  /\ Imports \cap DOMAIN Successor = {} /\ Imports \cap Names = {}

AtWork(kind) == op # Nothing /\ op.kind = kind

\* The file of an account has its token, but for the one that is being written.
OwnFile ==
  \A i \in DOMAIN store \cap DOMAIN files :
    files[i] = store[i].token \/ (AtWork("persist") /\ op.disk.id = i)

\* Of detached accounts, only imported ones may have a file (again).
DetachedFile ==
  \A i \in DOMAIN store \cap DOMAIN files : store[i].detached => i \in Imports

ImportsOwn ==
  \A i \in Imports : /\ i \in DOMAIN files => files[i] = i
                     /\ i \in DOMAIN store => store[i].token = i

\* An attached account shares its token with none that is attached, or has a file
\* and may so be attached again.
OwnToken ==
  \A i, j \in DOMAIN store :
    (/\ ~store[i].detached /\ (~store[j].detached \/ j \in DOMAIN files)
     /\ store[i].token = store[j].token)
    => i = j

Durable ==
  \A i \in DOMAIN store :
    ~store[i].detached =>
      \/ \E j \in DOMAIN files : files[j] = store[i].token
      \/ (AtWork("persist") \/ AtWork("delete")) /\ op.disk.id = i

DirInv ==
  /\ orphans = {} /\ \A i \in DOMAIN files : files[i] \in Tokens
  /\ OwnFile /\ DetachedFile /\ ImportsOwn /\ OwnToken /\ Durable

\* No other account in service needs what is in the file.
Needless(i) ==
  i \in DOMAIN files =>
    \A j \in DOMAIN store \ {i} : ~store[j].detached => store[j].token # files[i]

PersistInv ==
  AtWork("persist") =>
    /\ op.disk.id \in DOMAIN store /\ ~store[op.disk.id].detached
    /\ op.disk.token = store[op.disk.id].token
    /\ Needless(op.disk.id)

TrashInv ==
  AtWork("trash") =>
    /\ op.disk.kind = "move" => op.disk.id \in DOMAIN store
    /\ op.disk.id \in DOMAIN store =>
         (store[op.disk.id].detached <=> op.disk.kind = "none")

ImportInv ==
  AtWork("import") =>
    /\ op.disk.token \in Imports
    /\ op.insert => op.disk.id = op.disk.token /\ Attached(op.disk.token) = {}
    /\ ~op.insert => op.disk.id \in Attached(op.disk.token)
    /\ op.done => \E j \in DOMAIN files : files[j] = op.disk.token

DeleteInv ==
  AtWork("delete") =>
    Needless(op.disk.id) /\ (op.done => op.disk.id \notin DOMAIN files)

\* What has been read is still so, or under a name that the scan has not seen; and the
\* files of all accounts have been read.
ScanInv ==
  Scanning =>
    /\ \A i \in DOMAIN op.found :
         /\ op.found[i] \in Tokens
         /\ i \in DOMAIN files => files[i] = op.found[i]
         /\ i \notin DOMAIN files =>
              \E j \in DOMAIN files \ DOMAIN op.found : files[j] = op.found[i]
         /\ i \in DOMAIN store =>
              op.found[i] = store[i].token /\ (store[i].detached => i \in Imports)
         /\ i \in Imports => op.found[i] = i
    /\ DOMAIN store \cap DOMAIN files \subseteq DOMAIN op.found
    /\ op.mode = "startup" => DOMAIN store = {}

\* A merge will leave each token it has found in one file at least, and makes or keeps
\* one account of it, whose file it leaves or has written.
UpsertInv(p) ==
  /\ p[1] \in DOMAIN files => files[p[1]] = p[2]
  /\ p \in op.writes \/ \E j \in DOMAIN files \ op.removals : files[j] = p[2]
  /\ p[1] \in DOMAIN store =>
       store[p[1]].token = p[2] /\ (store[p[1]].detached => p[1] \in Imports)
  /\ Attached(p[2]) \subseteq {p[1]}
  /\ p[1] \in Imports => p[2] = p[1]

MergeInv ==
  Syncing =>
    /\ op.failed = {} /\ op.writes \subseteq op.upserts /\ op.removals \cap Seen = {}
    /\ \A p \in op.upserts : UpsertInv(p)
    /\ \A p, q \in op.upserts : p[1] = q[1] \/ p[2] = q[2] => p = q
    /\ \A i \in op.removals \cap DOMAIN files : \E p \in op.upserts : p[2] = files[i]
    /\ DOMAIN store \cap DOMAIN files \subseteq op.removals \cup Seen
    /\ op.mode = "startup" => DOMAIN store = {}

WorkInv ==
  PersistInv /\ TrashInv /\ ImportInv /\ DeleteInv /\ ScanInv /\ MergeInv

LEMMA FreeLock == op' = Nothing => WorkInv'
  BY DEF WorkInv, PersistInv, TrashInv, ImportInv, DeleteInv, ScanInv, MergeInv, AtWork,
         Scanning, Syncing

\* Only what is said of the operation at work is left to show.
LEMMA WorkOf ==
  /\ op'.kind = "persist" /\ PersistInv' => WorkInv'
  /\ op'.kind = "trash" /\ TrashInv' => WorkInv'
  /\ op'.kind = "import" /\ ImportInv' => WorkInv'
  /\ op'.kind = "delete" /\ DeleteInv' => WorkInv'
  /\ op'.kind = "scan" /\ ScanInv' => WorkInv'
  /\ op'.kind = "sync" /\ MergeInv' => WorkInv'
  BY DEF WorkInv, PersistInv, TrashInv, ImportInv, DeleteInv, ScanInv, MergeInv, AtWork,
         Scanning, Syncing

-----------------------------------------------------------------------------
(* Steps that leave the directory and the accounts alone *)

LEMMA SameAttached ==
  ASSUME SameAccounts, NEW t
  PROVE  Attached(t)' = Attached(t)
  BY DEF SameAccounts, Attached

LEMMA DirStays ==
  ASSUME DirInv, SameAccounts, UNCHANGED <<files, orphans>>,
         op' = op \/ ~(AtWork("persist") \/ AtWork("delete"))
  PROVE  DirInv'
<1>1. OwnFile'
  BY DEF DirInv, OwnFile, SameAccounts, AtWork
<1>2. DetachedFile' /\ ImportsOwn'
  BY DEF DirInv, DetachedFile, ImportsOwn, SameAccounts
<1>3. OwnToken'
  BY DEF DirInv, OwnToken, SameAccounts
<1>4. Durable'
  BY DEF DirInv, Durable, SameAccounts, AtWork
<1> QED
  BY <1>1, <1>2, <1>3, <1>4 DEF DirInv

LEMMA WorkStays ==
  ASSUME WorkInv, SameAccounts, UNCHANGED <<files, op>>
  PROVE  WorkInv'
<1>1. PersistInv' /\ TrashInv' /\ DeleteInv'
  BY DEF WorkInv, PersistInv, TrashInv, DeleteInv, AtWork, Needless, SameAccounts
<1>2. ImportInv'
  BY SameAttached DEF WorkInv, ImportInv, AtWork
<1>3. ScanInv'
  BY DEF WorkInv, ScanInv, Scanning, SameAccounts
<1>4. MergeInv'
  <2>1. ASSUME NEW p, UpsertInv(p)
        PROVE  UpsertInv(p)'
    BY <2>1, SameAttached DEF UpsertInv, SameAccounts
  <2> QED
    BY <2>1 DEF WorkInv, MergeInv, Syncing, Seen, SameAccounts
<1> QED
  BY <1>1, <1>2, <1>3, <1>4 DEF WorkInv

LEMMA QuietOrder ==
  ASSUME DirInv, WorkInv, SameAccounts, UNCHANGED <<files, op, orphans>>
  PROVE  DirInv' /\ WorkInv'
  BY DirStays, WorkStays

LEMMA SameStoreAccounts ==
  ASSUME UNCHANGED store
  PROVE  SameAccounts
  BY DEF SameAccounts

LEMMA RetireOrder ==
  ASSUME TypeInv, DirInv, WorkInv, NEW w \in Workers, Retire(w)
  PROVE  DirInv' /\ WorkInv'
<1>1. SameAccounts
  BY WorkAccounts DEF Work, Retire, FinishRefresh, Trash
<1>2. DirInv'
  BY <1>1, DirStays DEF Retire, Acquire, AtWork
<1>3. CASE task[w].id \notin DOMAIN store
  BY <1>1, <1>3, QuietOrder DEF Retire
<1>4. CASE task[w].id \in DOMAIN store
  <2> DEFINE i == task[w].id
  <2>1. /\ op' = [kind |-> "trash", by |-> w,
                  disk |-> [kind |-> IF store[i].detached THEN "none" ELSE "move",
                            id |-> i, token |-> Nothing]]
        /\ i \in DOMAIN store'
    BY <1>4 DEF Retire, Acquire
  <2>2. op'.kind = "trash" /\ op'.disk.id = i
        /\ (op'.disk.kind \in {"move", "none"})
        /\ (store[i].detached <=> op'.disk.kind = "none")
    BY <2>1
  <2>3. TrashInv'
    BY <1>1, <2>1, <2>2 DEF TrashInv, AtWork, SameAccounts
  <2> QED
    BY <1>2, <2>2, <2>3, WorkOf
<1> QED
  BY <1>3, <1>4

LEMMA ImportOrder ==
  ASSUME DirInv, WorkInv, NEW t \in Tokens, Import(t)
  PROVE  DirInv' /\ WorkInv'
<1>1. SameAccounts /\ DirInv'
  BY SameStoreAccounts, DirStays DEF Import, Acquire, AtWork
<1>2. CASE \E i \in Attached(t) :
             op' = [kind |-> "import", insert |-> FALSE, done |-> FALSE,
                    disk |-> [kind |-> "write", id |-> i, token |-> t]]
  <2>1. PICK i \in Attached(t) :
          op' = [kind |-> "import", insert |-> FALSE, done |-> FALSE,
                 disk |-> [kind |-> "write", id |-> i, token |-> t]]
    BY <1>2
  <2>2. /\ op'.kind = "import" /\ ~op'.insert /\ ~op'.done /\ op'.disk.id = i /\ op'.disk.token = t
        /\ t \in Imports /\ i \in Attached(t)'
    BY <2>1 DEF Import, Attached
  <2>3. ImportInv'
    BY <2>2 DEF ImportInv
  <2> QED
    BY <1>1, <2>2, <2>3, WorkOf
<1>3. CASE /\ Attached(t) = {}
           /\ op' = [kind |-> "import", insert |-> TRUE, done |-> FALSE,
                     disk |-> [kind |-> "write", id |-> t, token |-> t]]
  <2>1. /\ op'.kind = "import" /\ op'.insert /\ ~op'.done /\ op'.disk.id = t /\ op'.disk.token = t
        /\ t \in Imports /\ Attached(t)' = {}
    BY <1>3 DEF Import, Attached
  <2>2. ImportInv'
    BY <2>1 DEF ImportInv
  <2> QED
    BY <1>1, <2>1, <2>2, WorkOf
<1> QED
  BY <1>2, <1>3 DEF Import, Acquire

\* What the file of an account holds, no other account in service has.
LEMMA OwnIsNeedless ==
  ASSUME DirInv, NEW i \in DOMAIN store, op = Nothing
  PROVE  Needless(i)
  BY DEF DirInv, OwnFile, OwnToken, Needless, AtWork

LEMMA DeleteOrder ==
  ASSUME DirInv, WorkInv, NEW i \in Tokens, Delete(i)
  PROVE  DirInv' /\ WorkInv'
<1>1. SameAccounts /\ DirInv'
  BY SameStoreAccounts, DirStays DEF Delete, Acquire, AtWork
<1>2. op'.kind = "delete" /\ op'.disk.id = i /\ ~op'.done /\ op = Nothing
  BY DEF Delete, Acquire
<1>3. Needless(i)'
  BY <1>2, OwnIsNeedless DEF Delete, Needless
<1>4. DeleteInv'
  BY <1>2, <1>3 DEF DeleteInv, Needless
<1> QED
  BY <1>1, <1>2, <1>4, WorkOf

LEMMA RescanOrder ==
  ASSUME DirInv, WorkInv, Rescan
  PROVE  DirInv' /\ WorkInv'
<1>1. SameAccounts /\ DirInv'
  BY SameStoreAccounts, DirStays DEF Rescan, Acquire, AtWork
<1>2. op'.kind = "scan" /\ op'.mode = "rescan" /\ op'.found = files /\ op = Nothing
  BY DEF Rescan, Acquire, Scan
<1>3. ScanInv'
  BY <1>1, <1>2
     DEF ScanInv, Rescan, DirInv, OwnFile, DetachedFile, ImportsOwn, AtWork
<1> QED
  BY <1>1, <1>2, <1>3, WorkOf

LEMMA CrashOrder ==
  ASSUME DirInv, Crash
  PROVE  DirInv' /\ WorkInv'
<1>1. /\ op'.kind = "scan" /\ op'.mode = "startup" /\ op'.found = files
      /\ files' = files /\ DOMAIN store' = {} /\ orphans' = {}
  BY DEF Crash, Scan
<1>2. DirInv'
  BY <1>1 DEF DirInv, OwnFile, DetachedFile, ImportsOwn, OwnToken, Durable
<1>3. ScanInv'
  BY <1>1 DEF ScanInv, DirInv, ImportsOwn
<1> QED
  BY <1>1, <1>2, <1>3, WorkOf

LEMMA OrderInit == Orderly /\ Init => DirInv /\ WorkInv
<1> SUFFICES ASSUME Orderly, Init
             PROVE  DirInv /\ WorkInv
  OBVIOUS
<1>1. /\ op.kind = "scan" /\ op.mode = "startup" /\ op.found = files
      /\ files = Files /\ DOMAIN store = {} /\ orphans = {}
  BY DEF Init, Scan
<1>2. DirInv
  BY <1>1 DEF DirInv, OwnFile, DetachedFile, ImportsOwn, OwnToken, Durable, Orderly
<1>3. ScanInv
  BY <1>1 DEF ScanInv, Orderly
<1> QED
  BY <1>1, <1>2, <1>3
     DEF WorkInv, PersistInv, TrashInv, ImportInv, DeleteInv, MergeInv, AtWork, Scanning, Syncing

\* Steps of a request that leave the disk and the lock alone.
LEMMA RequestOrder ==
  ASSUME TypeInv, DirInv, WorkInv, NEW w \in Workers,
         Select(w) \/ Settle(w) \/ Exchange(w) \/ RefreshFails(w)
  PROVE  DirInv' /\ WorkInv'
<1>1. UNCHANGED <<files, op, orphans>>
  BY DEF Select, Settle, Exchange, RefreshFails
<1>2. Work(w) /\ ~FinishRefresh(w) /\ ~Trash(w)
  BY DEF Work, Select, Settle, Exchange, RefreshFails, FinishRefresh, Trash
<1> QED
  BY <1>1, <1>2, WorkAccounts, QuietOrder

\* The end of a refresh takes the lock to write the file of an account in service.
LEMMA FinishRefreshIs ==
  ASSUME FilesInv, NEW w \in Workers, FinishRefresh(w)
  PROVE  LET i == task[w].id IN
         /\ store[i].detached => op' = Nothing
         /\ ~store[i].detached =>
              /\ op'.kind = "persist" /\ op' # Nothing
              /\ op'.disk.id = i /\ op'.disk.token = store'[i].token
<1>0. PICK i, t : i = task[w].id /\ t = task[w].got
  OBVIOUS
<1>1. /\ i \in DOMAIN store /\ DOMAIN store' = DOMAIN store
      /\ op = Nothing
  BY <1>0, FinishRefreshTokens DEF FinishRefresh, Acquire
<1>3. /\ store[i].detached => op' = Nothing
      /\ ~store[i].detached =>
           /\ op'.kind = "persist" /\ op' # Nothing
           /\ op'.disk.id = i /\ op'.disk.token = store'[i].token
  <2> DEFINE rec == RefreshedRecord(store[i], t)
  <2>1. store'[i] = rec /\ rec.detached = store[i].detached
    <3>1. store[i] \in Record /\ t \in Tokens \cup {Nothing}
      BY <1>0, <1>1 DEF FilesInv, TypeInv, StateType, Task
    <3>2. store' = Settled(i, rec)
      BY <1>0, <1>1, StoredIsSettled DEF FinishRefresh
    <3> HIDE DEF rec
    <3>3. store'[i] = rec
      BY <1>1, <3>2, SettledIs
    <3> QED
      BY <3>1, <3>3, RefreshedRecordIs DEF rec
  <2>2. CASE store[i].detached
    BY <1>0, <1>1, <2>1, <2>2 DEF FinishRefresh
  <2>3. CASE ~store[i].detached
    <3>1. op' = [kind |-> "persist", by |-> w,
                 disk |-> [kind |-> "write", id |-> i, token |-> rec.token]]
      BY <1>0, <1>1, <2>1, <2>3 DEF FinishRefresh, Acquire
    <3> HIDE DEF rec
    <3>2. op'.kind = "persist" /\ op'.disk.id = i /\ op'.disk.token = rec.token
      BY <3>1
    <3>3. op' # Nothing
      <4>1. Become(w, "persist")
        BY <1>0, <1>1, <2>1, <2>3 DEF FinishRefresh, rec
      <4>2. task'[w].pc = "persist"
        BY <4>1 DEF Become, FilesInv, TypeInv, StateType, Task
      <4>3. TypeInv'
        BY FinishRefreshType DEF FilesInv
      <4> QED
        BY <4>2, <4>3 DEF TypeInv, LockInv
    <3> QED
      BY <2>1, <2>3, <3>2, <3>3
  <2> QED
    BY <2>2, <2>3
<1> QED
  BY <1>0, <1>3

\* The answer of a refresh: an account that gets a new token is in service or has no
\* file, and nobody else has the token.
LEMMA FinishRefreshOrder ==
  ASSUME Orderly, FilesInv, SpentInv, FreshInv, DirInv, WorkInv,
         NEW w \in Workers, FinishRefresh(w)
  PROVE  DirInv' /\ WorkInv'
<1>0. PICK i, t : i = task[w].id /\ t = task[w].got
  OBVIOUS
<1>1. /\ i \in DOMAIN store /\ DOMAIN store' = DOMAIN store
      /\ store'[i].token = IF t = Nothing THEN store[i].token ELSE t
      /\ store'[i].detached = store[i].detached
      /\ \A j \in DOMAIN store \ {i} : store'[j] = store[j]
  BY <1>0, FinishRefreshTokens
<1>2. UNCHANGED <<files, orphans>> /\ op = Nothing
  BY DEF FinishRefresh, Acquire
<1>3. /\ store[i].detached => op' = Nothing
      /\ ~store[i].detached =>
           /\ op'.kind = "persist" /\ op' # Nothing
           /\ op'.disk.id = i /\ op'.disk.token = store'[i].token
  BY <1>0, FinishRefreshIs
<1>4. t # Nothing => /\ t \notin AtRest /\ i \notin Imports
  <2> SUFFICES ASSUME t # Nothing
               PROVE  t \notin AtRest /\ i \notin Imports
    OBVIOUS
  <2>1. PICK D \in SUBSET Tokens : Spent(D)
    BY DEF SpentInv
  <2>2. Rotating(w)
    BY <1>0 DEF FinishRefresh, Rotating
  <2>3. task[w].sent \in DOMAIN Successor /\ t \notin AtRest
    BY <1>0, <2>2 DEF FreshInv
  <2>4. store[i].token = task[w].sent
    BY <1>0, <2>1, <2>2 DEF Spent
  <2> QED
    BY <1>1, <2>3, <2>4 DEF DirInv, ImportsOwn, Orderly
<1>5. t # Nothing =>
        /\ t \notin Imports
        /\ \A j \in DOMAIN files : files[j] # t
        /\ \A j \in DOMAIN store : store[j].token # t
  BY <1>4 DEF AtRest, OnFile, InStore
<1>6. OwnFile'
  BY <1>1, <1>2, <1>3, <1>4 DEF DirInv, OwnFile, DetachedFile, AtWork
<1>7. DetachedFile' /\ ImportsOwn'
  BY <1>1, <1>2, <1>4 DEF DirInv, DetachedFile, ImportsOwn
<1>8. OwnToken'
  <2>1. \A j, k \in DOMAIN store :
          /\ store'[j].detached = store[j].detached
          /\ store'[j].token = store'[k].token => j = k \/ store[j].token = store[k].token
    <3>1. \A j \in DOMAIN store :
            /\ store'[j].detached = store[j].detached
            /\ store'[j].token = IF j = i /\ t # Nothing THEN t ELSE store[j].token
      BY <1>1
    <3> QED
      BY <1>5, <3>1
  <2> QED
    BY <1>1, <1>2, <2>1 DEF DirInv, OwnToken
<1>9. Durable'
  BY <1>1, <1>2, <1>3 DEF DirInv, Durable, AtWork
<1>10. DirInv'
  BY <1>2, <1>6, <1>7, <1>8, <1>9 DEF DirInv
<1>11. CASE store[i].detached
  BY <1>3, <1>10, <1>11, FreeLock
<1>12. CASE ~store[i].detached
  <2>1. Needless(i)'
    <3>1. Needless(i)
      BY <1>1, <1>2, OwnIsNeedless
    <3> QED
      BY <1>1, <1>2, <3>1 DEF Needless
  <2>2. PersistInv'
    BY <1>1, <1>3, <1>12, <2>1 DEF PersistInv, Needless
  <2> QED
    BY <1>3, <1>10, <1>12, <2>2, WorkOf
<1> QED
  BY <1>11, <1>12

\* What is written is what the record has, and nobody needs what was there.
LEMMA PersistOrder ==
  ASSUME Orderly, TypeInv, DirInv, WorkInv, NEW w \in Workers, Persist(w)
  PROVE  DirInv' /\ WorkInv'
<1> DEFINE i == op.disk.id
<1>1. AtWork("persist") /\ op.disk \in DiskOp /\ op.disk.kind = "write"
  <2>1. op # Nothing /\ op.kind = "persist" /\ Proper(op)
    BY DEF Persist, TypeInv, LockInv, OpInv
  <2> QED
    BY <2>1, OperationIs DEF AtWork, Proper, OnOneFile, DiskOpOf
<1>2. /\ UNCHANGED <<store, orphans>> /\ op' = Nothing
      /\ DOMAIN files' = DOMAIN files \cup {i} /\ files'[i] = op.disk.token
      /\ \A j \in DOMAIN files \ {i} : files'[j] = files[j]
  <2>1. files' = Execute(op.disk)
    BY DEF Persist, Orderly
  <2> QED
    BY <1>1, <2>1, ExecuteIs DEF Persist, Release
<1>3. /\ i \in DOMAIN store /\ ~store[i].detached
      /\ files'[i] = store[i].token /\ Needless(i)
  BY <1>1, <1>2 DEF WorkInv, PersistInv
<1> HIDE DEF i
<1>4. OwnFile' /\ \A j \in DOMAIN files' : files'[j] \in Tokens
  BY <1>2, <1>3 DEF DirInv, OwnFile, AtWork, i, TypeInv, StateType, Record
<1>5. DetachedFile' /\ ImportsOwn'
  BY <1>2, <1>3 DEF DirInv, DetachedFile, ImportsOwn
<1>6. OwnToken'
  BY <1>2, <1>3 DEF DirInv, OwnToken
<1>7. Durable'
  BY <1>1, <1>2, <1>3 DEF DirInv, Durable, AtWork, Needless, i
<1> QED
  BY <1>2, <1>4, <1>5, <1>6, <1>7, FreeLock DEF DirInv

\* The account that is retired was the only one in service with what its file has.
LEMMA TrashOrder ==
  ASSUME Orderly, TypeInv, DirInv, WorkInv, NEW w \in Workers, Trash(w)
  PROVE  DirInv' /\ WorkInv'
<1> DEFINE i == op.disk.id
<1>1. AtWork("trash") /\ op.disk \in DiskOp /\ op.disk.kind \in {"move", "none"}
      /\ task[w].id = i
  <2>1. op # Nothing /\ op.kind = "trash" /\ op.by = w /\ Proper(op) /\ task[w].id = i
    BY DEF Trash, TypeInv, LockInv, OpInv
  <2> QED
    BY <2>1, OperationIs DEF AtWork, Proper, OnOneFile, DiskOpOf
<1>2. /\ UNCHANGED orphans /\ op' = Nothing
      /\ DOMAIN files' \ {i} = DOMAIN files \ {i}
      /\ \A j \in DOMAIN files \ {i} : files'[j] = files[j]
      /\ IF op.disk.kind = "move" THEN i \notin DOMAIN files' ELSE files' = files
  <2>1. files' = Execute(op.disk)
    BY TrashIs DEF Orderly
  <2> QED
    BY <1>1, <2>1, ExecuteIs DEF Trash, Release
<1>3. /\ DOMAIN store' \subseteq DOMAIN store /\ DOMAIN store \ {i} \subseteq DOMAIN store'
      /\ \A j \in DOMAIN store' \ {i} : store'[j] = store[j]
      /\ i \in DOMAIN store' => store'[i].token = store[i].token /\ store'[i].detached
  BY <1>1, TrashIs DEF Orderly
<1>4. /\ op.disk.kind = "move" => i \in DOMAIN store
      /\ i \in DOMAIN store => (store[i].detached <=> op.disk.kind = "none")
  BY <1>1 DEF WorkInv, TrashInv
<1>5. i \in DOMAIN files /\ op.disk.kind = "move" => files[i] = store[i].token
  BY <1>1, <1>4 DEF DirInv, OwnFile, AtWork
<1> HIDE DEF i
<1>6. OwnFile' /\ DetachedFile'
  BY <1>1, <1>2, <1>3, <1>4 DEF DirInv, OwnFile, DetachedFile, AtWork
<1>7. ImportsOwn' /\ \A j \in DOMAIN files' : files'[j] \in Tokens
  BY <1>1, <1>2, <1>3 DEF DirInv, ImportsOwn
<1>8. OwnToken'
  BY <1>1, <1>2, <1>3, <1>4 DEF DirInv, OwnToken
<1>9. Durable'
  <2> SUFFICES ASSUME NEW j \in DOMAIN store', ~store'[j].detached
               PROVE  \E k \in DOMAIN files' : files'[k] = store'[j].token
    BY DEF Durable
  <2>1. j # i /\ j \in DOMAIN store /\ store'[j] = store[j] /\ ~store[j].detached
    BY <1>3
  <2>2. PICK k \in DOMAIN files : files[k] = store[j].token
    BY <1>1, <2>1 DEF DirInv, Durable, AtWork
  <2>3. k # i \/ op.disk.kind = "none"
    BY <1>1, <1>4, <1>5, <2>1, <2>2 DEF DirInv, OwnToken
  <2> QED
    BY <1>1, <1>2, <2>1, <2>2, <2>3
<1> QED
  BY <1>2, <1>6, <1>7, <1>8, <1>9, FreeLock DEF DirInv

\* An import writes what its account has, or what no account in service has; what a
\* deletion removes nobody else needs.
LEMMA AdminDiskOrder ==
  ASSUME Orderly, TypeInv, DirInv, WorkInv, AdminDisk
  PROVE  DirInv' /\ WorkInv'
<1> DEFINE i == op.disk.id
<1>1. /\ Administering /\ ~op.done /\ UNCHANGED <<store, orphans>>
      /\ files' = Execute(op.disk) /\ op' = [op EXCEPT !.done = TRUE]
  BY DEF AdminDisk, Orderly
<1>2. /\ Proper(op) /\ op.kind \in {"import", "delete"} /\ op.disk \in DiskOp
      /\ op.disk.kind = IF op.kind = "import" THEN "write" ELSE "remove"
  BY <1>1, AdministeringIs
<1>3. /\ op'.kind = op.kind /\ op'.disk = op.disk /\ op'.insert = op.insert /\ op'.done
      /\ op # Nothing /\ op' # Nothing
  <2>1. op \in Operation /\ op # Nothing
    BY <1>1, <1>2 DEF Proper, Administering
  <2>2. op' \in Operation /\ op'.kind = op.kind /\ op'.disk = op.disk
    BY <1>1, <1>2, <2>1, OperationIs
  <2>3. op \in [kind : {"import", "delete"}, insert : BOOLEAN, done : BOOLEAN, disk : DiskOp]
    BY <1>2, <2>1 DEF Operation
  <2>4. op'.insert = op.insert /\ op'.done
    BY <1>1, <2>3
  <2> QED
    BY <2>1, <2>2, <2>4, NothingAssumption
<1>4. CASE op.kind = "import"
  <2>1. /\ DOMAIN files' = DOMAIN files \cup {i} /\ files'[i] = op.disk.token
        /\ \A j \in DOMAIN files \ {i} : files'[j] = files[j]
    BY <1>1, <1>2, <1>4, ExecuteIs
  <2>2. /\ op.disk.token \in Imports /\ op.disk.token \in Tokens
        /\ op.insert => i = op.disk.token /\ Attached(op.disk.token) = {}
        /\ ~op.insert => i \in Attached(op.disk.token)
    BY <1>2, <1>3, <1>4, FilesAssumption DEF WorkInv, ImportInv, AtWork
  <2>3. /\ i \in DOMAIN store =>
             store[i].token = op.disk.token /\ (store[i].detached => i \in Imports)
        /\ i \in Imports => i = op.disk.token
        /\ \A j \in DOMAIN store \ {i} : ~store[j].detached => store[j].token # op.disk.token
    BY <2>2 DEF DirInv, ImportsOwn, OwnToken, Attached
  <2>4. ~AtWork("persist") /\ ~AtWork("delete")
    BY <1>4 DEF AtWork
  <2> DEFINE t == op.disk.token
  <2>5. ImportInv'
    BY <1>1, <1>3, <1>4, <2>1 DEF WorkInv, ImportInv, AtWork, Attached
  <2> HIDE DEF i, t
  <2>6. OwnFile' /\ DetachedFile' /\ \A j \in DOMAIN files' : files'[j] \in Tokens
    BY <1>1, <2>1, <2>2, <2>3, <2>4 DEF DirInv, OwnFile, DetachedFile, t
  <2>7. ImportsOwn'
    BY <1>1, <2>1, <2>3 DEF DirInv, ImportsOwn, t
  <2>8. OwnToken'
    BY <1>1, <2>1, <2>3 DEF DirInv, OwnToken, t
  <2>9. Durable'
    <3>1. i \in DOMAIN store \/ (i = t /\ i \in Imports)
      BY <2>2 DEF Attached, t
    <3>2. i \in DOMAIN files => files[i] = t
      BY <2>3, <2>4, <3>1 DEF DirInv, OwnFile, ImportsOwn, t
    <3> QED
      BY <1>1, <2>1, <2>3, <2>4, <3>2 DEF DirInv, Durable, t
  <2> QED
    BY <1>1, <1>3, <1>4, <2>5, <2>6, <2>7, <2>8, <2>9, WorkOf DEF DirInv
<1>5. CASE op.kind = "delete"
  <2>1. DOMAIN files' = DOMAIN files \ {i} /\ \A j \in DOMAIN files' : files'[j] = files[j]
    BY <1>1, <1>2, <1>5, ExecuteIs
  <2>2. AtWork("delete") /\ AtWork("delete")' /\ op'.disk.id = i /\ Needless(i)
    BY <1>3, <1>5 DEF AtWork, WorkInv, DeleteInv
  <2>3. DeleteInv'
    BY <1>1, <1>3, <1>5, <2>1, <2>2 DEF DeleteInv, Needless
  <2> HIDE DEF i
  <2>4. OwnFile' /\ DetachedFile' /\ ImportsOwn' /\ OwnToken'
    BY <1>1, <1>5, <2>1 DEF DirInv, OwnFile, DetachedFile, ImportsOwn, OwnToken, AtWork
  <2>5. Durable'
    BY <1>1, <1>5, <2>1, <2>2 DEF DirInv, Durable, Needless, AtWork, i
  <2> QED
    BY <1>1, <1>3, <1>5, <2>1, <2>3, <2>4, <2>5, WorkOf DEF DirInv
<1> QED
  BY <1>2, <1>4, <1>5

\* An import that inserts brings a token that no account in service has, and whose
\* file has been written.
LEMMA AdminApplyOrder ==
  ASSUME TypeInv, DirInv, WorkInv, AdminApply
  PROVE  DirInv' /\ WorkInv'
<1>0. PICK i, t : i = op.disk.id /\ t = op.disk.token
  OBVIOUS
<1>1. /\ Administering /\ op.done /\ UNCHANGED <<files, orphans>> /\ op' = Nothing
      /\ ~AtWork("persist")
  BY DEF AdminApply, Release, AtWork, Administering
<1>2. CASE op.kind = "delete"
  <2>1. i \notin DOMAIN files /\ AtWork("delete")
    BY <1>0, <1>1, <1>2 DEF WorkInv, DeleteInv, AtWork, Administering
  <2>2. /\ DOMAIN store' \subseteq DOMAIN store
        /\ \A j \in DOMAIN store' \ {i} : store'[j] = store[j]
        /\ i \in DOMAIN store' => store'[i].token = store[i].token /\ store'[i].detached
    <3> DEFINE rec == [store[i] EXCEPT !.detached = TRUE]
    <3>1. i \in DOMAIN store => rec.token = store[i].token /\ rec.detached
      BY DEF TypeInv, StateType, Record
    <3>2. store' = Settled(i, rec)
      BY <1>0, <1>2 DEF AdminApply
    <3> HIDE DEF rec
    <3> QED
      BY <3>1, <3>2, SettledIs
  <2>3. OwnFile' /\ DetachedFile' /\ ImportsOwn'
    BY <1>1, <2>1, <2>2 DEF DirInv, OwnFile, DetachedFile, ImportsOwn, AtWork
  <2>4. OwnToken'
    BY <1>1, <2>1, <2>2 DEF DirInv, OwnToken
  <2>5. Durable'
    BY <1>0, <1>1, <1>2, <2>1, <2>2 DEF DirInv, Durable, AtWork
  <2> QED
    BY <1>1, <2>3, <2>4, <2>5, FreeLock DEF DirInv
<1>3. CASE op.kind = "import" /\ ~op.insert
  <2>1. SameAccounts
    BY <1>3, SameStoreAccounts DEF AdminApply
  <2> QED
    BY <1>1, <1>3, <2>1, DirStays, FreeLock DEF AtWork
<1>4. CASE op.kind = "import" /\ op.insert
  <2>1. /\ t \in Imports /\ i = t /\ t \in Tokens
        /\ \A j \in DOMAIN store : ~store[j].detached => store[j].token # t
        /\ \E j \in DOMAIN files : files[j] = t
    BY <1>0, <1>1, <1>4, FilesAssumption DEF WorkInv, ImportInv, AtWork, Administering, Attached
  <2>2. /\ DOMAIN store' = DOMAIN store \cup {i}
        /\ \A j \in DOMAIN store \ {i} : store'[j] = store[j]
        /\ store'[i] = Upserted(i, t)
    BY <1>0, <1>4 DEF AdminApply, Put
  <2>3. store'[i].token = t
    BY <2>1, <2>2, UpsertedIs, NewIs DEF DirInv, ImportsOwn, TypeInv
  <2>4. OwnFile' /\ DetachedFile' /\ ImportsOwn'
    BY <1>1, <2>1, <2>2, <2>3 DEF DirInv, OwnFile, DetachedFile, ImportsOwn, AtWork
  <2>5. OwnToken'
    <3> SUFFICES ASSUME NEW a \in DOMAIN store', NEW b \in DOMAIN store', ~store'[a].detached,
                        ~store'[b].detached \/ b \in DOMAIN files,
                        store'[a].token = store'[b].token
                 PROVE  a = b
      BY <1>1 DEF OwnToken
    <3>1. b # i => store[b].token # t \/ b \in Imports
      BY <2>1, <2>2 DEF DirInv, DetachedFile
    <3>2. b # i => store[b].token # t
      BY <2>1, <2>2, <3>1 DEF DirInv, ImportsOwn
    <3>3. a # i => store[a].token # t
      BY <2>1, <2>2
    <3> QED
      BY <2>2, <2>3, <3>2, <3>3 DEF DirInv, OwnToken
  <2>6. Durable'
    BY <1>1, <1>4, <2>1, <2>2, <2>3 DEF DirInv, Durable, AtWork
  <2> QED
    BY <1>1, <2>4, <2>5, <2>6, FreeLock DEF DirInv
<1> QED
  BY <1>1, <1>2, <1>3, <1>4 DEF Administering

\* A merge writes what is there already, or what no file with that name has.
LEMMA SyncWriteOrder ==
  ASSUME TypeInv, DirInv, WorkInv, SyncDisk, op.writes # {}
  PROVE  DirInv' /\ WorkInv'
<1>1. /\ Syncing /\ op.kind = "sync" /\ op'.kind = "sync" /\ op'.mode = op.mode
      /\ op'.failed = op.failed /\ op'.upserts = op.upserts /\ UNCHANGED <<store, orphans>>
      /\ ~AtWork("persist") /\ ~AtWork("delete")
  BY SyncDiskIs DEF SyncDisk, AtWork
<1>2. PICK p \in op.writes :
        /\ files' = Put(files, p[1], p[2]) /\ p \in Tokens \X Tokens
        /\ op'.writes = op.writes \ {p} /\ op'.removals = op.removals
  BY SyncDiskIs
<1>3. /\ p \in op.upserts /\ UpsertInv(p) /\ p[1] \notin op.removals /\ p[1] \in Seen
      /\ p[2] \in Tokens
  BY <1>1, <1>2 DEF WorkInv, MergeInv, Seen
<1>4. /\ DOMAIN files' = DOMAIN files \cup {p[1]} /\ files'[p[1]] = p[2]
      /\ \A j \in DOMAIN files : files'[j] = files[j]
  BY <1>2, <1>3 DEF Put, UpsertInv
<1>5. OwnFile' /\ DetachedFile' /\ ImportsOwn'
  BY <1>1, <1>3, <1>4 DEF DirInv, OwnFile, DetachedFile, ImportsOwn, UpsertInv, AtWork
<1>6. OwnToken'
  BY <1>1, <1>3, <1>4 DEF DirInv, OwnToken, UpsertInv, Attached
<1>7. Durable'
  BY <1>1, <1>4 DEF DirInv, Durable
<1>8. MergeInv'
  <2>1. ASSUME NEW q \in op.upserts
        PROVE  UpsertInv(q)'
    <3>1. UpsertInv(q) /\ (q[1] = p[1] => q = p)
      BY <1>1, <1>3 DEF WorkInv, MergeInv
    <3>2. q[1] \in DOMAIN files' => files'[q[1]] = q[2]
      BY <1>4, <3>1 DEF UpsertInv
    <3>3. q \in op'.writes \/ \E j \in DOMAIN files' \ op'.removals : files'[j] = q[2]
      BY <1>2, <1>3, <1>4, <3>1 DEF UpsertInv
    <3>4. Attached(q[2])' = Attached(q[2])
      BY <1>1 DEF Attached
    <3> QED
      BY <1>1, <3>1, <3>2, <3>3, <3>4 DEF UpsertInv
  <2>2. Seen' = Seen
    BY <1>1 DEF Seen
  <2> QED
    BY <1>1, <1>2, <1>3, <1>4, <2>1, <2>2 DEF WorkInv, MergeInv
<1> QED
  BY <1>1, <1>3, <1>4, <1>5, <1>6, <1>7, <1>8, WorkOf DEF DirInv

\* When it removes a file, another one has its token.
LEMMA SyncRemoveOrder ==
  ASSUME TypeInv, DirInv, WorkInv, SyncDisk, op.writes = {}
  PROVE  DirInv' /\ WorkInv'
<1>1. /\ Syncing /\ op.kind = "sync" /\ op'.kind = "sync" /\ op'.mode = op.mode
      /\ op'.failed = op.failed /\ op'.upserts = op.upserts /\ UNCHANGED <<store, orphans>>
      /\ ~AtWork("persist") /\ ~AtWork("delete") /\ op'.writes = {}
  BY SyncDiskIs DEF SyncDisk, AtWork
<1>2. PICK i \in op.removals : files' = Drop(files, i) /\ op'.removals = op.removals \ {i}
  BY SyncDiskIs
<1>3. DOMAIN files' = DOMAIN files \ {i} /\ \A j \in DOMAIN files' : files'[j] = files[j]
  BY <1>2 DEF Drop
<1>4. \A p \in op.upserts : /\ UpsertInv(p)
                            /\ \E j \in DOMAIN files \ op.removals : files[j] = p[2]
  BY <1>1 DEF WorkInv, MergeInv, UpsertInv
<1>5. i \in DOMAIN files => \E j \in DOMAIN files \ op.removals : files[j] = files[i]
  BY <1>1, <1>2, <1>4 DEF WorkInv, MergeInv
<1>6. OwnFile' /\ DetachedFile' /\ ImportsOwn' /\ OwnToken'
  BY <1>1, <1>3 DEF DirInv, OwnFile, DetachedFile, ImportsOwn, OwnToken, AtWork
<1>7. Durable'
  BY <1>1, <1>2, <1>3, <1>5 DEF DirInv, Durable
<1>8. MergeInv'
  <2>1. ASSUME NEW q \in op.upserts
        PROVE  UpsertInv(q)'
    <3>1. Attached(q[2])' = Attached(q[2])
      BY <1>1 DEF Attached
    <3>2. \E j \in DOMAIN files' \ op'.removals : files'[j] = q[2]
      BY <1>2, <1>3, <1>4
    <3> QED
      BY <1>1, <1>3, <1>4, <3>1, <3>2 DEF UpsertInv
  <2>2. Seen' = Seen
    BY <1>1 DEF Seen
  <2> QED
    BY <1>1, <1>2, <1>3, <2>1, <2>2 DEF WorkInv, MergeInv
<1> QED
  BY <1>1, <1>3, <1>6, <1>7, <1>8, WorkOf DEF DirInv

\* The accounts in service after a merge are those it has found, one for each token.
LEMMA SyncApplyOrder ==
  ASSUME TypeInv, DirInv, WorkInv, SyncApply
  PROVE  DirInv' /\ WorkInv'
<1>1. /\ Syncing /\ op.writes = {} /\ op.removals = {} /\ op' = Nothing
      /\ UNCHANGED <<files, orphans>> /\ ~AtWork("persist") /\ ~AtWork("delete")
  BY SyncApplyIs DEF SyncApply, Release, AtWork, Syncing
<1>2. /\ op.failed = {} /\ \A p \in op.upserts : UpsertInv(p)
      /\ \A p, q \in op.upserts : p[1] = q[1] \/ p[2] = q[2] => p = q
      /\ DOMAIN store \cap DOMAIN files \subseteq Seen
  BY <1>1 DEF WorkInv, MergeInv
<1>3. /\ DOMAIN store' \subseteq DOMAIN store \cup Seen
      /\ \A i \in DOMAIN store \cap DOMAIN store' :
           /\ store'[i].token = store[i].token
           /\ store'[i].detached => store[i].detached \/ i \notin Seen
           /\ i \in Seen \/ store'[i].detached
  BY <1>2, SyncApplyIs
<1>4. \A i \in DOMAIN store' \ DOMAIN store :
        ~store'[i].detached /\ \E p \in op.upserts : p[1] = i /\ p[2] = store'[i].token
  <2> SUFFICES ASSUME NEW i \in DOMAIN store' \ DOMAIN store
               PROVE  ~store'[i].detached
                      /\ \E p \in op.upserts : p[1] = i /\ p[2] = store'[i].token
    OBVIOUS
  <2>1. PICK t \in op.found : <<i, t>> \in op.upserts /\ store'[i] = New(t)
    BY SyncApplyIs
  <2>2. t \in Tokens
    BY <1>1, <2>1, SyncingIs
  <2> QED
    BY <2>1, <2>2, NewIs
<1>5. \A i \in DOMAIN store' \cap Seen :
        \E p \in op.upserts : p[1] = i /\ p[2] = store'[i].token
  <2> SUFFICES ASSUME NEW i \in DOMAIN store \cap DOMAIN store', i \in Seen
               PROVE  \E p \in op.upserts : p[1] = i /\ p[2] = store'[i].token
    BY <1>4
  <2>1. PICK p \in op.upserts : p[1] = i
    BY DEF Seen
  <2> QED
    BY <1>2, <1>3, <2>1 DEF UpsertInv
<1>6. \A i \in DOMAIN store' : i \in DOMAIN files \/ ~store'[i].detached => i \in Seen
  BY <1>2, <1>3
<1>7. OwnFile'
  BY <1>1, <1>2, <1>5, <1>6 DEF OwnFile, UpsertInv
<1>8. DetachedFile'
  <2> SUFFICES ASSUME NEW i \in DOMAIN store', i \in DOMAIN files, store'[i].detached
               PROVE  i \in Imports
    BY <1>1 DEF DetachedFile
  <2>1. i \in Seen /\ i \in DOMAIN store /\ store[i].detached
    BY <1>3, <1>4, <1>6
  <2> QED
    BY <2>1 DEF DirInv, DetachedFile
<1>9. ImportsOwn'
  <2>1. \A i \in Imports \cap DOMAIN store' : store'[i].token = i
    BY <1>2, <1>3, <1>4 DEF DirInv, ImportsOwn, UpsertInv
  <2> QED
    BY <1>1, <2>1 DEF DirInv, ImportsOwn
<1>10. OwnToken'
  <2> SUFFICES ASSUME NEW a \in DOMAIN store', NEW b \in DOMAIN store', ~store'[a].detached,
                      ~store'[b].detached \/ b \in DOMAIN files,
                      store'[a].token = store'[b].token
               PROVE  a = b
    BY <1>1 DEF OwnToken
  <2>1. a \in Seen /\ b \in Seen
    BY <1>6
  <2>2. PICK p \in op.upserts : p[1] = a /\ p[2] = store'[a].token
    BY <1>5, <2>1
  <2>3. PICK q \in op.upserts : q[1] = b /\ q[2] = store'[b].token
    BY <1>5, <2>1
  <2> QED
    BY <1>2, <2>2, <2>3
<1>11. Durable'
  <2> SUFFICES ASSUME NEW i \in DOMAIN store', ~store'[i].detached
               PROVE  \E j \in DOMAIN files : files[j] = store'[i].token
    BY <1>1 DEF Durable
  <2>1. PICK p \in op.upserts : p[1] = i /\ p[2] = store'[i].token
    BY <1>5, <1>6
  <2> QED
    BY <1>1, <1>2, <2>1 DEF UpsertInv
<1> QED
  BY <1>1, <1>7, <1>8, <1>9, <1>10, <1>11, FreeLock DEF DirInv

-----------------------------------------------------------------------------
(* The plan of a merge, and the operator *)

\* The account that the files of a token are merged into has the token already, or is
\* named after one of them.
LEMMA CanonicalIs ==
  ASSUME NEW t, NEW i \in Canonical(t)
  PROVE  \/ i \in Attached(t)
         \/ i \in Group(t) /\ (op.mode = "rescan" => Attached(t) = {})
  BY DEF Canonical, Preferred

LEMMA PlanOrder ==
  ASSUME TypeInv, DirInv, WorkInv, Plan
  PROVE  DirInv' /\ WorkInv'
<1> DEFINE found == {op.found[i] : i \in Readable(op.found)}
<1>1. PICK canonical \in [found -> Tokens] :
        /\ \A t \in found : canonical[t] \in Canonical(t)
        /\ \E merged \in SUBSET {t \in found : Group(t) \ {canonical[t]} # {}} :
             op' = [kind |-> "sync", mode |-> op.mode, found |-> found,
                    failed |-> DOMAIN op.found \ Readable(op.found),
                    writes |-> {<<canonical[t], t>> : t \in
                      merged \cup {t \in found : canonical[t] \notin DOMAIN op.found}},
                    removals |-> UNION {Group(t) \ {canonical[t]} : t \in found},
                    upserts |-> {<<canonical[t], t>> : t \in found}]
  BY DEF Plan
<1>2. PICK merged \in SUBSET {t \in found : Group(t) \ {canonical[t]} # {}} :
        op' = [kind |-> "sync", mode |-> op.mode, found |-> found,
               failed |-> DOMAIN op.found \ Readable(op.found),
               writes |-> {<<canonical[t], t>> : t \in
                 merged \cup {t \in found : canonical[t] \notin DOMAIN op.found}},
               removals |-> UNION {Group(t) \ {canonical[t]} : t \in found},
               upserts |-> {<<canonical[t], t>> : t \in found}]
  BY <1>1
<1>3. /\ Scanning /\ op.kind = "scan" /\ op.mode \in Modes /\ UNCHANGED <<files, store, orphans>>
      /\ ~AtWork("persist") /\ ~AtWork("delete")
  BY ScanningIs DEF Plan, Scanning, AtWork
<1>4. \A i \in DOMAIN op.found :
        /\ op.found[i] \in Tokens
        /\ i \in DOMAIN files => files[i] = op.found[i]
        /\ i \notin DOMAIN files =>
             \E j \in DOMAIN files \ DOMAIN op.found : files[j] = op.found[i]
        /\ i \in DOMAIN store =>
             op.found[i] = store[i].token /\ (store[i].detached => i \in Imports)
        /\ i \in Imports => op.found[i] = i
  BY <1>3 DEF WorkInv, ScanInv
<1>5. /\ DOMAIN store \cap DOMAIN files \subseteq DOMAIN op.found
      /\ op.mode = "startup" => DOMAIN store = {}
  BY <1>3 DEF WorkInv, ScanInv
<1>6. Readable(op.found) = DOMAIN op.found
  BY <1>4, FilesAssumption DEF Readable
<1>7. \A t : Group(t) = {i \in DOMAIN op.found : op.found[i] = t}
  BY <1>6 DEF Group
<1>8. ASSUME NEW t \in found, NEW c, c = canonical[t]
      PROVE  /\ c \in DOMAIN op.found => op.found[c] = t
             /\ c \in DOMAIN store => store[c].token = t /\ (store[c].detached => c \in Imports)
             /\ c \in DOMAIN files => files[c] = t
             /\ Attached(t) \subseteq {c}
             /\ c \in Imports => t = c
             /\ c \in DOMAIN store \cup DOMAIN op.found
  <2>1. c \in Canonical(t)
    BY <1>1, <1>8
  <2> HIDE DEF found
  <2>2. CASE c \in Attached(t)
    <3>1. c \in DOMAIN store /\ ~store[c].detached /\ store[c].token = t
      BY <2>2 DEF Attached
    <3> QED
      BY <1>3, <1>4, <3>1 DEF DirInv, OwnFile, OwnToken, ImportsOwn, Attached
  <2>3. CASE c \in Group(t) /\ (op.mode = "rescan" => Attached(t) = {})
    <3>1. c \in DOMAIN op.found /\ op.found[c] = t
      BY <1>7, <2>3
    <3>2. Attached(t) = {}
      BY <1>3, <1>5, <2>3 DEF Modes, Attached
    <3> QED
      BY <1>4, <3>1, <3>2
  <2> QED
    BY <2>1, <2>2, <2>3, CanonicalIs
<1> DEFINE failed == DOMAIN op.found \ Readable(op.found)
           writes == {<<canonical[t], t>> : t \in
                        merged \cup {t \in found : canonical[t] \notin DOMAIN op.found}}
           removals == UNION {Group(t) \ {canonical[t]} : t \in found}
           upserts == {<<canonical[t], t>> : t \in found}
<1>9. failed = {}
  BY <1>6
<1>10. removals = {i \in DOMAIN op.found : i # canonical[op.found[i]]}
  BY <1>6, <1>7
<1>11. /\ \A i \in DOMAIN op.found : op.found[i] \in found
       /\ merged \subseteq found
  BY <1>6
<1>12. /\ writes \subseteq upserts
       /\ \A t \in found : /\ <<canonical[t], t>> \in upserts
                           /\ canonical[t] \notin DOMAIN op.found => <<canonical[t], t>> \in writes
       /\ \A p \in upserts : \E t \in found : p = <<canonical[t], t>>
  BY <1>11
<1> HIDE DEF found, failed, writes, removals, upserts
<1>13. op' = [kind |-> "sync", mode |-> op.mode, found |-> found, failed |-> failed,
              writes |-> writes, removals |-> removals, upserts |-> upserts]
  BY <1>2 DEF found, failed, writes, removals, upserts
<1>14. /\ op'.kind = "sync" /\ op'.mode = op.mode /\ op'.failed = {} /\ op'.writes = writes
       /\ op'.removals = removals /\ op'.upserts = upserts
  BY <1>9, <1>13
<1>15. ASSUME NEW t \in found
       PROVE  canonical[t] \notin removals
  BY <1>8, <1>10, <1>15
<1>16. ASSUME NEW p \in upserts
       PROVE  UpsertInv(p)' /\ p[1] \notin removals
  <2>1. PICK t \in found : p = <<canonical[t], t>>
    BY <1>12, <1>16
  <2>2. PICK c : c = canonical[t]
    OBVIOUS
  <2>3. p[1] = c /\ p[2] = t
    BY <2>1, <2>2
  <2>4. /\ c \in DOMAIN op.found => op.found[c] = t
        /\ c \in DOMAIN store => store[c].token = t /\ (store[c].detached => c \in Imports)
        /\ c \in DOMAIN files => files[c] = t
        /\ Attached(t) \subseteq {c}
        /\ c \in Imports => t = c
    BY <1>8, <2>2
  <2>5. p \in op'.writes \/ \E j \in DOMAIN files' \ op'.removals : files'[j] = t
    <3>1. CASE c \notin DOMAIN op.found
      BY <1>12, <1>14, <2>1, <2>2, <3>1
    <3>2. CASE c \in DOMAIN op.found /\ c \in DOMAIN files
      BY <1>3, <1>14, <1>15, <2>2, <2>4, <3>2
    <3>3. CASE c \in DOMAIN op.found /\ c \notin DOMAIN files
      <4>1. \E j \in DOMAIN files \ DOMAIN op.found : files[j] = t
        BY <1>4, <2>4, <3>3
      <4> QED
        BY <1>3, <1>10, <1>14, <4>1
    <3> QED
      BY <3>1, <3>2, <3>3
  <2>6. Attached(t)' = Attached(t)
    BY <1>3 DEF Attached
  <2> QED
    BY <1>3, <1>15, <2>2, <2>3, <2>4, <2>5, <2>6 DEF UpsertInv
<1>17. ASSUME NEW p \in upserts, NEW q \in upserts, p[1] = q[1] \/ p[2] = q[2]
       PROVE  p = q
  <2>1. PICK s \in found : p = <<canonical[s], s>>
    BY <1>12, <1>17
  <2>2. PICK t \in found : q = <<canonical[t], t>>
    BY <1>12, <1>17
  <2>3. canonical[s] = canonical[t] => s = t
    BY <1>8
  <2> QED
    BY <1>17, <2>1, <2>2, <2>3
<1>18. \A i \in op'.removals \cap DOMAIN files : \E p \in upserts : p[2] = files[i]
  <2> SUFFICES ASSUME NEW i \in removals, i \in DOMAIN files
               PROVE  \E p \in upserts : p[2] = files[i]
    BY <1>14
  <2>1. op.found[i] \in found /\ files[i] = op.found[i]
    BY <1>4, <1>10, <1>11
  <2> QED
    BY <1>12, <2>1
<1>19. \A i \in DOMAIN op.found : i \in removals \/ i \in Seen'
  <2> SUFFICES ASSUME NEW i \in DOMAIN op.found, i = canonical[op.found[i]]
               PROVE  i \in Seen'
    BY <1>10
  <2>1. <<i, op.found[i]>> \in upserts
    BY <1>11, <1>12
  <2> QED
    BY <1>14, <2>1 DEF Seen
<1>20. removals \cap Seen' = {}
  BY <1>14, <1>16 DEF Seen
<1>21. MergeInv'
  BY <1>3, <1>5, <1>12, <1>14, <1>16, <1>17, <1>18, <1>19, <1>20 DEF MergeInv
<1>22. DirInv'
  BY <1>3, SameStoreAccounts, DirStays
<1> QED
  BY <1>14, <1>21, <1>22, WorkOf

\* The operator leaves every token in a file, and takes no name that is in use.
LEMMA EditIs ==
  ASSUME Orderly, DirInv, Edit
  PROVE  \E j \in FreeNames :
           /\ j \in DOMAIN files' /\ DOMAIN files' \subseteq DOMAIN files \cup {j}
           /\ \A i \in DOMAIN files \cap DOMAIN files' : files'[i] = files[i]
           /\ \A i \in DOMAIN files \ DOMAIN files' : files'[j] = files[i]
           /\ files'[j] \in Tokens
<1>1. CASE \E i \in FreeNames, t \in Imports : files' = Put(files, i, t)
  <2>1. PICK j \in FreeNames, t \in Imports : files' = Put(files, j, t)
    BY <1>1
  <2>2. j \notin DOMAIN files /\ t \in Tokens
    BY FilesAssumption DEF FreeNames
  <2> QED
    BY <2>1, <2>2 DEF Put
<1>2. CASE \E i \in DOMAIN files, j \in FreeNames : files' = Put(Drop(files, i), j, files[i])
  <2>1. PICK i \in DOMAIN files, j \in FreeNames : files' = Put(Drop(files, i), j, files[i])
    BY <1>2
  <2>2. j \notin DOMAIN files /\ files[i] \in Tokens
    BY DEF FreeNames, DirInv
  <2>3. /\ DOMAIN files' = (DOMAIN files \ {i}) \cup {j} /\ files'[j] = files[i]
        /\ \A k \in DOMAIN files \ {i} : files'[k] = files[k]
    BY <2>1, <2>2 DEF Put, Drop
  <2> QED
    BY <2>2, <2>3
<1> QED
  BY <1>1, <1>2 DEF Edit, Orderly

LEMMA EditOrder ==
  ASSUME Orderly, TypeInv, DirInv, WorkInv, Edit
  PROVE  DirInv' /\ WorkInv'
<1>1. UNCHANGED <<store, op, orphans>>
  BY DEF Edit
<1>2. PICK j \in FreeNames :
        /\ j \in DOMAIN files' /\ DOMAIN files' \subseteq DOMAIN files \cup {j}
        /\ \A i \in DOMAIN files \cap DOMAIN files' : files'[i] = files[i]
        /\ \A i \in DOMAIN files \ DOMAIN files' : files'[j] = files[i]
        /\ files'[j] \in Tokens
  BY EditIs
<1>3. /\ j \notin DOMAIN files /\ j \notin DOMAIN store /\ j \notin InWork /\ j \notin Imports
      /\ \A i \in DOMAIN files' \ {j} : i \in DOMAIN files /\ files'[i] = files[i]
      /\ \A t : (\E i \in DOMAIN files : files[i] = t) => \E i \in DOMAIN files' : files'[i] = t
  BY <1>2 DEF FreeNames, Orderly
<1>4. /\ OwnFile' /\ DetachedFile' /\ ImportsOwn' /\ OwnToken'
      /\ \A i \in DOMAIN files' : files'[i] \in Tokens
  BY <1>1, <1>2, <1>3 DEF DirInv, OwnFile, DetachedFile, ImportsOwn, OwnToken, AtWork
<1>5. Durable'
  BY <1>1, <1>3 DEF DirInv, Durable, AtWork
<1>6. PersistInv' /\ TrashInv'
  BY <1>1, <1>3 DEF WorkInv, PersistInv, TrashInv, Needless, AtWork
<1>7. ImportInv'
  BY <1>1, <1>3 DEF WorkInv, ImportInv, AtWork, Attached
<1>8. DeleteInv'
  BY <1>1, <1>3 DEF WorkInv, DeleteInv, Needless, AtWork, InWork, Administering
<1>9. ScanInv'
  <2> SUFFICES ASSUME Scanning
               PROVE  ScanInv'
    BY <1>1 DEF ScanInv, Scanning
  <2>1. j \notin DOMAIN op.found
    BY <1>3 DEF InWork, Scanning, Administering
  <2>2. ASSUME NEW i \in DOMAIN op.found, i \notin DOMAIN files'
        PROVE  \E k \in DOMAIN files' \ DOMAIN op.found : files'[k] = op.found[i]
    <3>1. CASE i \in DOMAIN files
      BY <1>2, <2>1, <2>2, <3>1 DEF WorkInv, ScanInv
    <3>2. CASE i \notin DOMAIN files
      <4>1. PICK k \in DOMAIN files \ DOMAIN op.found : files[k] = op.found[i]
        BY <3>2 DEF WorkInv, ScanInv
      <4> QED
        BY <1>2, <2>1, <4>1
    <3> QED
      BY <3>1, <3>2
  <2> QED
    BY <1>1, <1>3, <2>1, <2>2 DEF WorkInv, ScanInv, Scanning
<1>10. MergeInv'
  <2> SUFFICES ASSUME Syncing
               PROVE  MergeInv'
    BY <1>1 DEF MergeInv, Syncing
  <2>1. j \notin op.removals /\ j \notin Seen
    BY <1>3 DEF InWork, Syncing, Scanning, Administering, Seen
  <2>2. ASSUME NEW p \in op.upserts
        PROVE  UpsertInv(p)'
    <3>1. UpsertInv(p) /\ p[1] # j
      BY <2>1 DEF WorkInv, MergeInv, Seen
    <3>2. Attached(p[2])' = Attached(p[2])
      BY <1>1 DEF Attached
    <3>3. p \in op.writes \/ \E k \in DOMAIN files' \ op.removals : files'[k] = p[2]
      <4> SUFFICES ASSUME NEW k \in DOMAIN files \ op.removals, files[k] = p[2]
                   PROVE  \E l \in DOMAIN files' \ op.removals : files'[l] = p[2]
        BY <3>1 DEF UpsertInv
      <4> QED
        BY <1>2, <2>1
    <3> QED
      BY <1>1, <1>3, <3>1, <3>2, <3>3 DEF UpsertInv
  <2>3. Seen' = Seen
    BY <1>1 DEF Seen
  <2> QED
    BY <1>1, <1>3, <2>1, <2>2, <2>3 DEF WorkInv, MergeInv, Syncing
<1> QED
  BY <1>1, <1>4, <1>5, <1>6, <1>7, <1>8, <1>9, <1>10 DEF DirInv, WorkInv

LEMMA OrderStep ==
  ASSUME Orderly, FilesInv, SpentInv, FreshInv, DirInv, WorkInv, [Next]_vars
  PROVE  DirInv' /\ WorkInv'
<1> USE DEF FilesInv
<1>1. ASSUME NEW w \in Workers, Work(w)
      PROVE  DirInv' /\ WorkInv'
  <2>1. ~Disconnect(w)
    BY DEF Disconnect, Orderly
  <2> QED
    BY <1>1, <2>1, RequestOrder, FinishRefreshOrder, PersistOrder, RetireOrder, TrashOrder
       DEF Work
<1>2. CASE Sync
  <2>1. ~SyncFails
    BY DEF SyncFails, Orderly
  <2> QED
    BY <1>2, <2>1, RescanOrder, PlanOrder, SyncWriteOrder, SyncRemoveOrder, SyncApplyOrder
       DEF Sync
<1>3. CASE Administer
  <2>1. ~AdminDisconnect
    BY DEF AdminDisconnect, Orderly
  <2> QED
    BY <1>3, <2>1, ImportOrder, DeleteOrder, AdminDiskOrder, AdminApplyOrder DEF Administer
<1>4. CASE Orphan
  BY <1>4 DEF Orphan, DirInv
<1>5. CASE Revoke \/ UNCHANGED vars
  BY <1>5, SameStoreAccounts, QuietOrder DEF Revoke, vars
<1> QED
  BY <1>1, <1>2, <1>3, <1>4, <1>5, CrashOrder, EditOrder DEF Next

LEMMA OrderInvariant ==
  ASSUME Orderly
  PROVE  Spec => [](FilesInv /\ DirInv /\ WorkInv)
<1>1. Init => DirInv /\ WorkInv
  BY OrderInit
<1>2. FilesInv /\ SpentInv /\ FreshInv /\ DirInv /\ WorkInv /\ [Next]_vars
      => DirInv' /\ WorkInv'
  BY OrderStep
<1> QED
  BY <1>1, <1>2, TokensInvariant, PTL DEF Spec

\* While disk operations succeed, clients stay and the directory is in order, the
\* token of every account in service is in the directory but for the one moment that
\* an operation under way makes up for.
THEOREM TokensOnDisk == Orderly => (Spec => []TokenOnDisk)
<1> SUFFICES ASSUME Orderly
             PROVE  Spec => []TokenOnDisk
  OBVIOUS
<1>1. FilesInv /\ DirInv => TokenOnDisk
  <2> SUFFICES ASSUME FilesInv, DirInv, NEW i \in DOMAIN store, Serving(i)
               PROVE  \/ store[i].token \in OnDisk
                      \/ op # Nothing /\ op.kind \in {"persist", "delete"} /\ op.disk.id = i
    BY DEF TokenOnDisk
  <2>1. store[i].token # Unreadable
    BY FilesAssumption DEF FilesInv, TypeInv, StateType, Record
  <2> QED
    BY <2>1 DEF DirInv, Durable, Serving, AtWork, OnDisk
<1> QED
  <2>1. Spec => [](FilesInv /\ DirInv /\ WorkInv)
    BY OrderInvariant
  <2> QED
    BY <1>1, <2>1, PTL

\* Imports, dropped and renamed files and rescans never put one token in service
\* twice.
THEOREM TokensNotShared == Orderly => (Spec => []OneAccountPerToken)
<1> SUFFICES ASSUME Orderly
             PROVE  Spec => []OneAccountPerToken
  OBVIOUS
<1>1. DirInv => OneAccountPerToken
  BY DEF DirInv, OwnToken, OneAccountPerToken, Serving
<1> QED
  <2>1. Spec => [](FilesInv /\ DirInv /\ WorkInv)
    BY OrderInvariant
  <2> QED
    BY <1>1, <2>1, PTL

\* No step of a merge takes the last copy of a token off the disk.
THEOREM MergesKeepTokens == Orderly => (Spec => MergeKeepsTokens)
<1> SUFFICES ASSUME Orderly
             PROVE  Spec => MergeKeepsTokens
  OBVIOUS
<1>1. FilesInv /\ DirInv /\ WorkInv /\ [Next]_vars => [SyncDisk => OnDisk \subseteq OnDisk']_vars
  <2> SUFFICES ASSUME FilesInv, DirInv, WorkInv, SyncDisk,
                      NEW i \in DOMAIN files, files[i] # Unreadable
               PROVE  \E j \in DOMAIN files' : files'[j] = files[i]
    BY DEF OnDisk
  <2>1. MergeInv /\ Syncing
    BY DEF WorkInv, SyncDisk
  <2>2. CASE \E p \in op.writes : files' = Put(files, p[1], p[2])
    <3>1. PICK p \in op.writes : files' = Put(files, p[1], p[2])
      BY <2>2
    <3>2. p[1] \in DOMAIN files => files[p[1]] = p[2]
      BY <2>1 DEF MergeInv, UpsertInv
    <3> QED
      BY <3>1, <3>2 DEF Put
  <2>3. CASE op.writes = {} /\ \E j \in op.removals : files' = Drop(files, j)
    <3>1. PICK j \in op.removals : files' = Drop(files, j)
      BY <2>3
    <3>2. CASE i = j
      <4>1. PICK p \in op.upserts : p[2] = files[i]
        BY <2>1, <3>2 DEF MergeInv
      <4>2. PICK k \in DOMAIN files \ op.removals : files[k] = p[2]
        BY <2>1, <2>3 DEF MergeInv, UpsertInv
      <4> QED
        BY <3>1, <4>1, <4>2 DEF Drop
    <3> QED
      BY <3>1, <3>2 DEF Drop
  <2> QED
    BY <2>2, <2>3 DEF SyncDisk
<1> QED
  <2>1. Spec => [](FilesInv /\ DirInv /\ WorkInv)
    BY OrderInvariant
  <2> QED
    BY <1>1, <2>1, PTL DEF Spec, MergeKeepsTokens

-----------------------------------------------------------------------------
(* Deleted accounts stay deleted *)

\* What is about to be written is the file of an account in service.
AttachedInv ==
  /\ orphans = {}
  /\ AtWork("persist") => op.disk.id \in DOMAIN store /\ ~store[op.disk.id].detached

LEMMA AttachedStep ==
  ASSUME ~Disconnects, FilesInv, AttachedInv, [Next]_vars
  PROVE  AttachedInv'
<1> USE DEF FilesInv
<1>1. ASSUME NEW w \in Workers, Work(w)
      PROVE  AttachedInv'
  <2>1. ~Disconnect(w) /\ orphans' = {}
    BY <1>1 DEF Work, Select, Settle, Exchange, RefreshFails, FinishRefresh, Persist, Retire,
                Trash, Disconnect, AttachedInv
  <2>2. CASE FinishRefresh(w)
    <3>1. /\ task[w].id \in DOMAIN store' /\ DOMAIN store' = DOMAIN store
          /\ store'[task[w].id].detached = store[task[w].id].detached
      BY <2>2, FinishRefreshTokens
    <3> QED
      BY <2>1, <2>2, <3>1, FinishRefreshIs DEF AttachedInv, AtWork
  <2>3. CASE Persist(w) \/ Trash(w)
    BY <2>1, <2>3 DEF Persist, Trash, Release, AttachedInv, AtWork
  <2>4. CASE Select(w) \/ Settle(w) \/ Exchange(w) \/ RefreshFails(w)
    <3>1. SameAccounts /\ op' = op
      BY <1>1, <2>4, WorkAccounts
         DEF Select, Settle, Exchange, RefreshFails, FinishRefresh, Trash
    <3> QED
      BY <2>1, <3>1 DEF SameAccounts, AttachedInv, AtWork
  <2>5. CASE Retire(w)
    BY <2>1, <2>5 DEF Retire, Acquire, AttachedInv, AtWork
  <2> QED
    BY <1>1, <2>1, <2>2, <2>3, <2>4, <2>5 DEF Work
<1>2. CASE Sync
  <2>1. orphans' = {} /\ ~AtWork("persist")'
    <3>1. CASE Rescan
      BY <3>1 DEF Rescan, Acquire, Scan, AttachedInv, AtWork
    <3>2. CASE Plan
      BY <3>2 DEF Plan, AttachedInv, AtWork
    <3>3. CASE SyncDisk
      BY <3>3, SyncDiskIs DEF SyncDisk, AttachedInv, AtWork
    <3>4. CASE SyncApply \/ SyncFails
      BY <3>4 DEF SyncApply, SyncFails, Release, AttachedInv, AtWork
    <3> QED
      BY <1>2, <3>1, <3>2, <3>3, <3>4 DEF Sync
  <2> QED
    BY <2>1 DEF AttachedInv
<1>3. CASE Administer
  <2>1. orphans' = {} /\ ~AtWork("persist")'
    <3>1. CASE \E i \in Tokens : Import(i) \/ Delete(i)
      BY <3>1 DEF Import, Delete, Acquire, AttachedInv, AtWork
    <3>2. CASE AdminDisk
      <4>1. op \in Operation /\ op.kind \in {"import", "delete"}
        BY <3>2, AdministeringIs DEF AdminDisk, Proper
      <4> QED
        BY <3>2, <4>1, OperationIs DEF AdminDisk, Release, AttachedInv, AtWork
    <3>3. CASE AdminApply
      BY <3>3 DEF AdminApply, Release, AttachedInv, AtWork
    <3> QED
      BY <1>3, <3>1, <3>2, <3>3 DEF Administer, AdminDisconnect
  <2> QED
    BY <2>1 DEF AttachedInv
<1>4. CASE Crash
  BY <1>4 DEF Crash, Scan, AttachedInv, AtWork
<1>5. CASE Orphan
  BY <1>5 DEF Orphan, AttachedInv
<1>6. CASE Edit \/ Revoke \/ UNCHANGED vars
  BY <1>6 DEF Edit, Revoke, vars, AttachedInv, AtWork
<1> QED
  BY <1>1, <1>2, <1>3, <1>4, <1>5, <1>6 DEF Next

\* As long as clients stay, whatever fails, no refresh under way writes the file of a
\* deleted account again.
THEOREM DeletionsLast == ~Disconnects => (Spec => DeletedStaysDeleted)
<1> SUFFICES ASSUME ~Disconnects
             PROVE  Spec => DeletedStaysDeleted
  OBVIOUS
<1> DEFINE Appears(i) == \/ Edit \/ SyncDisk \/ AdminDisk
                         \/ i \in DOMAIN store /\ ~store[i].detached
<1>1. Init => AttachedInv
  BY DEF Init, Scan, AttachedInv, AtWork
<1>2. FilesInv /\ AttachedInv /\ [Next]_vars => AttachedInv'
  BY AttachedStep
<1>3. FilesInv /\ AttachedInv /\ [Next]_vars =>
        [\A i \in DOMAIN files' \ DOMAIN files : Appears(i)]_vars
  <2> SUFFICES ASSUME FilesInv, AttachedInv, Next,
                      NEW i \in DOMAIN files' \ DOMAIN files
               PROVE  Appears(i)
    OBVIOUS
  <2>1. ASSUME NEW w \in Workers, Persist(w)
        PROVE  i \in DOMAIN store /\ ~store[i].detached
    <3>1. AtWork("persist") /\ op \in Operation
      BY <2>1 DEF Persist, FilesInv, TypeInv, LockInv, OpInv, Proper, AtWork
    <3>2. i = op.disk.id
      <4>1. op.disk \in DiskOp /\ (files' = Execute(op.disk) \/ files' = files)
        BY <2>1, <3>1, OperationIs DEF Persist, AtWork, OnOneFile
      <4> QED
        BY <4>1, ExecuteIs
    <3> QED
      BY <3>1, <3>2 DEF AttachedInv
  <2>2. ASSUME NEW w \in Workers, Trash(w)
        PROVE  FALSE
    <3>1. op \in Operation /\ op.kind = "trash" /\ op.disk.kind \in {"move", "none"}
      BY <2>2 DEF Trash, FilesInv, TypeInv, LockInv, OpInv, Proper, OnOneFile, DiskOpOf
    <3> QED
      BY <2>2, <3>1, OperationIs, ExecuteIs DEF Trash, OnOneFile
  <2>3. CASE UNCHANGED files
    BY <2>3
  <2> QED
    BY <2>1, <2>2, <2>3
       DEF Next, Work, Select, Settle, Exchange, RefreshFails, FinishRefresh, Retire,
           Disconnect, Sync, Rescan, Plan, SyncApply, SyncFails, Administer, Import, Delete,
           AdminApply, AdminDisconnect, Orphan, AttachedInv, Crash, Revoke
<1> QED
  BY <1>1, <1>2, <1>3, FilesInvariant, PTL DEF Spec, DeletedStaysDeleted

=============================================================================
