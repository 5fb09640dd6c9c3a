---------------------------- MODULE AccountFiles ----------------------------
(***************************************************************************)
(* Refresh tokens in memory and on disk: the account directory, the store  *)
(* loaded from it, the token endpoint that replaces a token each time it   *)
(* is used, and the operations that keep the three together -- import,     *)
(* deletion, refresh, retirement to trash/, startup scan and rescan -- with *)
(* crashes, failing disk operations, clients that leave, and an operator   *)
(* who works in the directory.                                             *)
(*                                                                         *)
(* Every operation that touches the disk holds account_disk_lock from      *)
(* before it reads the store until after it has changed it; "op" is the    *)
(* operation under way, and the lock is free when there is none.  A step   *)
(* is one critical section of the store, or one file written, moved or     *)
(* removed (each is atomic: a file is written beside and renamed).         *)
(*                                                                         *)
(* Labels, emails and timed blocks are left out: an account may be         *)
(* selected at any time unless it is detached, retired or being refreshed. *)
(***************************************************************************)
EXTENDS Naturals, FiniteSets

CONSTANTS
  Tokens,         \* refresh tokens; also ids: stable_account_id is injective,
                  \* and an id is the name of a file, which may be any
  Successor,      \* the token that replaces a token when it is used
  Valid,          \* the tokens the endpoint accepts at first
  Files,          \* the account directory at first: from ids to contents
  Imports,        \* the tokens the operator has copies of
  Names,          \* the names the operator gives to files
  Edits,          \* what the operator does in the directory
  Workers,        \* requests, each of which uses one account at a time
  Nothing,        \* no id, no token, no operation
  Unreadable,     \* the content of a file that cannot be read or parsed
  DiskErrors,     \* whether disk operations may fail
  Crashes,        \* whether the process may be killed and started again
  Disconnects     \* whether clients may leave while a handler awaits

ASSUME FilesAssumption ==
  /\ Tokens \subseteq Nat
  /\ DOMAIN Successor \subseteq Tokens
  /\ \A t \in DOMAIN Successor : Successor[t] \in Tokens
  /\ Valid \subseteq Tokens /\ Imports \subseteq Tokens
  /\ DOMAIN Files \subseteq Tokens
  /\ \A i \in DOMAIN Files : Files[i] \in Tokens \cup {Unreadable}
  /\ Files = [i \in DOMAIN Files |-> Files[i]]
  /\ Names \subseteq Tokens
  /\ Edits \subseteq {"drop", "rename", "delete", "break"}
  /\ IsFiniteSet(Workers)
  /\ Nothing \notin Tokens /\ Unreadable \notin Tokens
  /\ {DiskErrors, Crashes, Disconnects} \subseteq BOOLEAN

\* What the token endpoint issues is new: no token is issued for two others, and
\* none that it issues was known before.
ASSUME EndpointAssumption ==
  /\ \A s, t \in DOMAIN Successor : Successor[s] = Successor[t] => s = t
  /\ \A t \in DOMAIN Successor :
       /\ Successor[t] \notin Valid \cup Imports
       /\ \A i \in DOMAIN Files : Files[i] # Successor[t]

VARIABLES
  files,    \* the *.json files of the account directory: from ids to contents
  store,    \* AccountStore.records: from ids to records
  live,     \* the tokens the token endpoint accepts
  op,       \* the operation that holds account_disk_lock, or Nothing
  task,     \* what each request is doing
  orphans   \* spawn_blocking writes, moves and removals whose handler is gone

vars == <<files, store, live, op, task, orphans>>

Modes == {"startup", "rescan"}

Record == [token : Tokens, access : BOOLEAN, refreshing : BOOLEAN, users : Nat,
           detached : BOOLEAN, blocked : BOOLEAN, tombstone : BOOLEAN]

Task == [pc : {"idle", "use", "refresh", "refreshed", "retire", "persist", "trash", "gone"},
         id : Tokens \cup {Nothing},
         sent : Tokens \cup {Nothing},    \* the refresh token it captured
         got : Tokens \cup {Nothing}]     \* the one the answer carries, if any

DiskOp == [kind : {"write", "move", "remove", "none"}, id : Tokens, token : Tokens \cup {Nothing}]

Operation ==
  [kind : {"persist", "trash"}, by : Workers, disk : DiskOp]
    \cup [kind : {"import", "delete"}, insert : BOOLEAN, done : BOOLEAN, disk : DiskOp]
    \cup [kind : {"scan"}, mode : Modes,
          found : UNION {[D -> Tokens \cup {Unreadable}] : D \in SUBSET Tokens}]
    \cup [kind : {"sync"}, mode : Modes, found : SUBSET Tokens, failed : SUBSET Tokens,
          writes : SUBSET (Tokens \X Tokens), removals : SUBSET Tokens,
          upserts : SUBSET (Tokens \X Tokens)]

ASSUME NothingAssumption == Nothing \notin Operation

Idle == [pc |-> "idle", id |-> Nothing, sent |-> Nothing, got |-> Nothing]

TypeOK ==
  /\ DOMAIN files \subseteq Tokens
  /\ \A i \in DOMAIN files : files[i] \in Tokens \cup {Unreadable}
  /\ DOMAIN store \subseteq Tokens
  /\ \A i \in DOMAIN store : store[i] \in Record
  /\ live \subseteq Tokens
  /\ op = Nothing \/ op \in Operation
  /\ task \in [Workers -> Task]
  /\ orphans \subseteq DiskOp

\* The process starts: the first thing it does is the startup scan.
Scan(mode) == [kind |-> "scan", mode |-> mode, found |-> files]

Init ==
  /\ files = Files
  /\ store = [i \in {} |-> Nothing]
  /\ live = Valid
  /\ op = Scan("startup")
  /\ task = [w \in Workers |-> Idle]
  /\ orphans = {}

-----------------------------------------------------------------------------
(* The directory *)

Put(f, i, x) == [j \in DOMAIN f \cup {i} |-> IF j = i THEN x ELSE f[j]]
Drop(f, i)   == [j \in DOMAIN f \ {i} |-> f[j]]

\* execute_account_disk_op: removing or moving a file that is not there is no error.
Execute(d) ==
  CASE d.kind = "write" -> Put(files, d.id, d.token)
    [] d.kind \in {"move", "remove"} -> Drop(files, d.id)
    [] d.kind = "none" -> files

Readable(f) == {i \in DOMAIN f : f[i] # Unreadable}

Acquire(operation) == op = Nothing /\ op' = operation
Release == op' = Nothing

-----------------------------------------------------------------------------
(* The store *)

New(t) == [token |-> t, access |-> FALSE, refreshing |-> FALSE, users |-> 0,
           detached |-> FALSE, blocked |-> FALSE, tombstone |-> FALSE]

\* Mutant of InUse: the requests that use the account are forgotten.
InUseRefreshing(rec) == rec.refreshing

InUse(rec) == rec.users > 0 \/ rec.refreshing

\* maybe_remove_detached
Stored(i, rec) ==
  IF rec.detached /\ ~InUse(rec) THEN Drop(store, i) ELSE [store EXCEPT ![i] = rec]

Settled(i, rec) == IF i \in DOMAIN store THEN Stored(i, rec) ELSE store

\* Every settlement gives the account back, and clears its refresh mark.
Unheld(rec) ==
  [rec EXCEPT !.users = IF @ = 0 THEN 0 ELSE @ - 1, !.refreshing = FALSE]

\* Mutant of Upserted: the token on disk wins.
UpsertedFromDisk(i, t) ==
  IF i \in DOMAIN store
  THEN [store[i] EXCEPT !.token = t, !.detached = @ /\ store[i].tombstone]
  ELSE New(t)

\* upsert_disk_record: the token of a loaded account stays, and a retired account
\* stays detached.
Upserted(i, t) ==
  IF i \in DOMAIN store
  THEN [store[i] EXCEPT !.detached = @ /\ store[i].tombstone]
  ELSE New(t)

Attached(t) == {i \in DOMAIN store : ~store[i].detached /\ store[i].token = t}

-----------------------------------------------------------------------------
(* A request: selection, refresh, use *)

Become(w, pc) == task' = [task EXCEPT ![w].pc = pc]
Leave(w)      == task' = [task EXCEPT ![w] = Idle]

\* select_account marks an account whose access token is missing or about to
\* expire as refreshing, and captures its refresh token.
Select(w) ==
  /\ task[w].pc = "idle"
  /\ \E i \in DOMAIN store, refresh \in BOOLEAN :
       /\ ~store[i].detached /\ ~store[i].blocked /\ ~store[i].refreshing
       /\ refresh \/ store[i].access
       /\ store' = [store EXCEPT ![i].users = @ + 1, ![i].refreshing = refresh]
       /\ task' = [task EXCEPT ![w] =
            IF refresh
            THEN [pc |-> "refresh", id |-> i, sent |-> store[i].token, got |-> Nothing]
            ELSE [pc |-> "use", id |-> i, sent |-> Nothing, got |-> Nothing]]
  /\ UNCHANGED <<files, live, op, orphans>>

\* The request ends with success, or without a verdict; with a failure, which
\* may overwrite the routing state of a retired account; or with a 401.
Settle(w) ==
  /\ task[w].pc = "use"
  /\ LET i == task[w].id IN
     \/ store' = Settled(i, Unheld(store[i]))
     \/ store' = Settled(i, [Unheld(store[i]) EXCEPT !.blocked = FALSE])
     \/ store' = Settled(i, [Unheld(store[i]) EXCEPT !.access = FALSE])
  /\ Leave(w)
  /\ UNCHANGED <<files, live, op, orphans>>

\* The token endpoint: it accepts a live token once if it replaces it.
Rotated(t) ==
  {live} \cup IF t \in live \cap DOMAIN Successor
              THEN {(live \ {t}) \cup {Successor[t]}} ELSE {}

Exchange(w) ==
  /\ task[w].pc = "refresh"
  /\ IF task[w].sent \in live
     THEN \E after \in Rotated(task[w].sent) :
            /\ live' = after
            /\ task' = [task EXCEPT ![w].pc = "refreshed",
                          ![w].got = IF after = live THEN Nothing
                                     ELSE Successor[task[w].sent]]
     ELSE Become(w, "retire") /\ UNCHANGED live
  /\ UNCHANGED <<files, store, op, orphans>>

\* The refresh fails otherwise: an error, a timeout, an answer that cannot be read.
RefreshFails(w) ==
  /\ task[w].pc = "refresh"
  /\ live' \in Rotated(task[w].sent)
  /\ store' = Settled(task[w].id, Unheld(store[task[w].id]))
  /\ Leave(w)
  /\ UNCHANGED <<files, op, orphans>>

\* finish_refresh_success: the record changes first; the file is written after
\* it, unless the account is detached.
RefreshedRecord(rec, t) ==
  [rec EXCEPT !.token = IF t = Nothing THEN @ ELSE t, !.access = TRUE, !.refreshing = FALSE]

\* Mutants of FinishRefresh: the file written is the record's before the refresh;
\* the file is written whether or not the account is detached.
FinishRefreshWritesOld(w) ==
  LET i == task[w].id
      rec == RefreshedRecord(store[i], task[w].got)
  IN  /\ task[w].pc = "refreshed"
      /\ i \in DOMAIN store
      /\ store' = Stored(i, rec)
      /\ Acquire([kind |-> "persist", by |-> w,
                  disk |-> [kind |-> "write", id |-> i, token |-> store[i].token]])
      /\ Become(w, "persist")
      /\ UNCHANGED <<files, live, orphans>>

FinishRefreshAlwaysWrites(w) ==
  LET i == task[w].id
      rec == RefreshedRecord(store[i], task[w].got)
  IN  /\ task[w].pc = "refreshed"
      /\ i \in DOMAIN store
      /\ store' = Stored(i, rec)
      /\ Acquire([kind |-> "persist", by |-> w,
                  disk |-> [kind |-> "write", id |-> i, token |-> rec.token]])
      /\ Become(w, "persist")
      /\ UNCHANGED <<files, live, orphans>>

FinishRefresh(w) ==
  LET i == task[w].id
      rec == RefreshedRecord(store[i], task[w].got)
  IN  /\ task[w].pc = "refreshed"
      /\ IF i \in DOMAIN store
         THEN /\ store' = Stored(i, rec)
              /\ IF rec.detached
                 THEN op = Nothing /\ Become(w, "use") /\ UNCHANGED op
                 ELSE /\ Acquire([kind |-> "persist", by |-> w,
                                  disk |-> [kind |-> "write", id |-> i, token |-> rec.token]])
                      /\ Become(w, "persist")
         ELSE op = Nothing /\ Leave(w) /\ UNCHANGED <<store, op>>
      /\ UNCHANGED <<files, live, orphans>>

\* A failed write only warns.
Persist(w) ==
  /\ task[w].pc = "persist"
  /\ files' \in {Execute(op.disk)} \cup IF DiskErrors THEN {files} ELSE {}
  /\ Release
  /\ Become(w, "use")
  /\ UNCHANGED <<store, live, orphans>>

\* prepare_auth_invalid_failure
Retire(w) ==
  LET i == task[w].id
  IN  /\ task[w].pc = "retire"
      /\ IF i \in DOMAIN store
         THEN /\ store' = [store EXCEPT ![i] =
                   [Unheld(@) EXCEPT !.access = FALSE, !.blocked = TRUE, !.tombstone = TRUE]]
              /\ Acquire([kind |-> "trash", by |-> w,
                          disk |-> [kind |-> IF store[i].detached THEN "none" ELSE "move",
                                    id |-> i, token |-> Nothing]])
              /\ Become(w, "trash")
         ELSE op = Nothing /\ Leave(w) /\ UNCHANGED <<store, op>>
      /\ UNCHANGED <<files, live, orphans>>

\* The file is moved unless the account was detached, and the account detached;
\* if the move fails it stays attached.
Trash(w) ==
  LET i == task[w].id
  IN  /\ task[w].pc = "trash"
      /\ \/ /\ files' = Execute(op.disk)
            /\ store' = Settled(i, [store[i] EXCEPT !.access = FALSE, !.blocked = TRUE,
                                                    !.detached = TRUE])
         \/ DiskErrors /\ op.disk.kind = "move" /\ UNCHANGED <<files, store>>
      /\ Release
      /\ Leave(w)
      /\ UNCHANGED <<live, orphans>>

\* The client leaves while its handler awaits.  A disk operation under way goes
\* on without it, and without the lock.
Disconnect(w) ==
  /\ Disconnects
  /\ task[w].pc \in {"use", "refresh", "refreshed", "retire", "persist", "trash"}
  /\ task' = [task EXCEPT ![w] = [Idle EXCEPT !.pc = "gone"]]
  /\ IF task[w].pc \in {"persist", "trash"}
     THEN orphans' = orphans \cup {d \in {op.disk} : d.kind # "none"} /\ Release
     ELSE UNCHANGED <<orphans, op>>
  /\ UNCHANGED <<files, store, live>>

Orphan ==
  /\ \E d \in orphans : files' = Execute(d) /\ orphans' = orphans \ {d}
  /\ UNCHANGED <<store, live, op, task>>

-----------------------------------------------------------------------------
(* Administration: import and deletion *)

\* Mutant of Import: the account is looked up by id only.
ImportByHash(t) ==
  /\ t \in Imports
  /\ Acquire([kind |-> "import", insert |-> TRUE, done |-> FALSE,
              disk |-> [kind |-> "write", id |-> t, token |-> t]])
  /\ UNCHANGED <<files, store, live, task, orphans>>

\* prepare_import_account: an account that has the token has its file written
\* again, with new metadata; otherwise the id is the token's hash.
Import(t) ==
  /\ t \in Imports
  /\ \/ \E i \in Attached(t) :
          Acquire([kind |-> "import", insert |-> FALSE, done |-> FALSE,
                   disk |-> [kind |-> "write", id |-> i, token |-> t]])
     \/ /\ Attached(t) = {}
        /\ Acquire([kind |-> "import", insert |-> TRUE, done |-> FALSE,
                    disk |-> [kind |-> "write", id |-> t, token |-> t]])
  /\ UNCHANGED <<files, store, live, task, orphans>>

Delete(i) ==
  /\ i \in DOMAIN store
  /\ Acquire([kind |-> "delete", insert |-> FALSE, done |-> FALSE,
              disk |-> [kind |-> "remove", id |-> i, token |-> Nothing]])
  /\ UNCHANGED <<files, store, live, task, orphans>>

Administering == op # Nothing /\ op.kind \in {"import", "delete"}

\* The disk operation of an import or a deletion; its error ends the operation.
AdminDisk ==
  /\ Administering /\ ~op.done
  /\ \/ files' = Execute(op.disk) /\ op' = [op EXCEPT !.done = TRUE]
     \/ DiskErrors /\ Release /\ UNCHANGED files
  /\ UNCHANGED <<store, live, task, orphans>>

\* apply_import_account_plan, apply_remove_account_plan
AdminApply ==
  /\ Administering /\ op.done
  /\ LET i == op.disk.id IN
     store' = IF op.kind = "delete" THEN Settled(i, [store[i] EXCEPT !.detached = TRUE])
              ELSE IF op.insert THEN Put(store, i, Upserted(i, op.disk.token))
              ELSE store
  /\ Release
  /\ UNCHANGED <<files, live, task, orphans>>

\* The administrator's client leaves.
AdminDisconnect ==
  /\ Disconnects
  /\ Administering
  /\ orphans' = IF op.done THEN orphans ELSE orphans \cup {op.disk}
  /\ Release
  /\ UNCHANGED <<files, store, live, task>>

-----------------------------------------------------------------------------
(* Startup and rescan *)

Rescan ==
  /\ Acquire(Scan("rescan"))
  /\ UNCHANGED <<files, store, live, task, orphans>>

Scanning == op # Nothing /\ op.kind = "scan"

Group(t) == {i \in Readable(op.found) : op.found[i] = t}

\* preferred_existing_record: the account to keep of those that have one token
\* (last_selected_at and the smaller id decide the rest, and are left open).
Outranks(a, b) ==
  \/ a.refreshing /\ ~b.refreshing
  \/ /\ a.refreshing = b.refreshing
     /\ a.users > b.users \/ (a.users = b.users /\ a.access /\ ~b.access)

Preferred(t) ==
  {i \in Attached(t) : \A j \in Attached(t) : ~Outranks(store[j], store[i])}

\* select_canonical_target: the account, and so the file, a group is merged into.
Canonical(t) ==
  IF op.mode = "rescan" /\ Attached(t) # {}
  THEN Preferred(t)
  ELSE {i \in Group(t) : \A j \in Group(t) : i <= j}

\* Mutant of Plan: the canonical file is written for its metadata only.
PlanSkipsMissing ==
  /\ Scanning
  /\ LET found == {op.found[i] : i \in Readable(op.found)} IN
     \E canonical \in [found -> Tokens] :
       /\ \A t \in found : canonical[t] \in Canonical(t)
       /\ \E merged \in SUBSET {t \in found : Group(t) \ {canonical[t]} # {}} :
            op' = [kind |-> "sync", mode |-> op.mode, found |-> found,
                   failed |-> DOMAIN op.found \ Readable(op.found),
                   writes |-> {<<canonical[t], t>> : t \in merged},
                   removals |-> UNION {Group(t) \ {canonical[t]} : t \in found},
                   upserts |-> {<<canonical[t], t>> : t \in found}]
  /\ UNCHANGED <<files, store, live, task, orphans>>

\* build_disk_sync_plan: the canonical file is written if it is not there, or if
\* another file of its group has metadata to add; the others are removed.
Plan ==
  /\ Scanning
  /\ LET found == {op.found[i] : i \in Readable(op.found)} IN
     \E canonical \in [found -> Tokens] :
       /\ \A t \in found : canonical[t] \in Canonical(t)
       /\ \E merged \in SUBSET {t \in found : Group(t) \ {canonical[t]} # {}} :
            op' = [kind |-> "sync", mode |-> op.mode, found |-> found,
                   failed |-> DOMAIN op.found \ Readable(op.found),
                   writes |-> {<<canonical[t], t>> : t \in
                     merged \cup {t \in found : canonical[t] \notin DOMAIN op.found}},
                   removals |-> UNION {Group(t) \ {canonical[t]} : t \in found},
                   upserts |-> {<<canonical[t], t>> : t \in found}]
  /\ UNCHANGED <<files, store, live, task, orphans>>

Syncing == op # Nothing /\ op.kind = "sync"

\* execute_disk_sync_fs: all writes, then all removals.
SyncDisk ==
  /\ Syncing
  /\ \/ \E p \in op.writes :
          /\ files' = Put(files, p[1], p[2])
          /\ op' = [op EXCEPT !.writes = @ \ {p}]
     \/ /\ op.writes = {}
        /\ \E i \in op.removals :
             /\ files' = Drop(files, i)
             /\ op' = [op EXCEPT !.removals = @ \ {i}]
  /\ UNCHANGED <<store, live, task, orphans>>

\* Mutant of SyncApply: a rescan updates the accounts it knows.
SyncApplyKnown ==
  /\ Syncing
  /\ op.writes = {} /\ op.removals = {}
  /\ LET seen == {p[1] : p \in op.upserts}
                   \cap IF op.mode = "rescan" THEN DOMAIN store ELSE Tokens
         idle == {i \in DOMAIN store \ seen : ~InUse(store[i])}
     IN  store' = [i \in (DOMAIN store \cup seen) \ idle |->
                     IF i \in seen
                     THEN Upserted(i, CHOOSE t \in op.found : <<i, t>> \in op.upserts)
                     ELSE [store[i] EXCEPT !.detached = TRUE]]
  /\ Release
  /\ UNCHANGED <<files, live, task, orphans>>

\* apply_disk_sync_plan
SyncApply ==
  /\ Syncing
  /\ op.writes = {} /\ op.removals = {}
  /\ LET seen == {p[1] : p \in op.upserts}
         kept == IF op.mode = "rescan" THEN op.failed ELSE {}
         idle == {i \in DOMAIN store \ (seen \cup kept) : ~InUse(store[i])}
     IN  store' = [i \in (DOMAIN store \cup seen) \ idle |->
                     IF i \in seen
                     THEN Upserted(i, CHOOSE t \in op.found : <<i, t>> \in op.upserts)
                     ELSE IF i \in kept THEN store[i]
                     ELSE [store[i] EXCEPT !.detached = TRUE]]
  /\ Release
  /\ UNCHANGED <<files, live, task, orphans>>

\* A rescan that fails is tried again at the next interval.
SyncFails ==
  /\ DiskErrors
  /\ Scanning \/ Syncing
  /\ op.mode = "rescan"
  /\ Release
  /\ UNCHANGED <<files, store, live, task, orphans>>

-----------------------------------------------------------------------------
(* Around the process *)

\* The process is killed and started again.
Crash ==
  /\ Crashes
  /\ store' = [i \in {} |-> Nothing]
  /\ op' = Scan("startup")
  /\ task' = [w \in Workers |-> Idle]
  /\ orphans' = {}
  /\ UNCHANGED <<files, live>>

\* The files the operation that holds the lock is about to write, remove or load.
InWork ==
  IF Administering THEN {op.disk.id}
  ELSE IF Scanning THEN DOMAIN op.found
  ELSE IF Syncing THEN op.removals \cup {p[1] : p \in op.upserts}
  ELSE {}

\* The operator does not give a file the name of an account, or of a file that is
\* being imported, deleted or merged.
FreeNames == Names \ (DOMAIN files \cup DOMAIN store \cup InWork)

\* The operator drops a file that no account is loaded from, renames, deletes or
\* breaks one (an editor's half-written save), the latter not between a scan and
\* the end of its merge.
Edit ==
  /\ \/ /\ "drop" \in Edits
        /\ \E i \in FreeNames, t \in Imports :
             files' = Put(files, i, t)
     \/ /\ "rename" \in Edits
        /\ \E i \in DOMAIN files, j \in FreeNames :
             files' = Put(Drop(files, i), j, files[i])
     \/ /\ "delete" \in Edits /\ ~Scanning /\ ~Syncing
        /\ \E i \in DOMAIN files : files' = Drop(files, i)
     \/ /\ "break" \in Edits /\ ~Scanning /\ ~Syncing
        /\ \E i \in DOMAIN files : files' = Put(files, i, Unreadable)
  /\ UNCHANGED <<store, live, op, task, orphans>>

\* The upstream revokes a token.
Revoke ==
  /\ \E t \in live : live' = live \ {t}
  /\ UNCHANGED <<files, store, op, task, orphans>>

-----------------------------------------------------------------------------

Work(w) ==
  \/ Select(w) \/ Settle(w) \/ Exchange(w) \/ RefreshFails(w)
  \/ FinishRefresh(w) \/ Persist(w) \/ Retire(w) \/ Trash(w)
  \/ Disconnect(w)

Sync == Rescan \/ Plan \/ SyncDisk \/ SyncApply \/ SyncFails

Administer ==
  \/ \E i \in Tokens : Import(i) \/ Delete(i)
  \/ AdminDisk \/ AdminApply \/ AdminDisconnect

Next ==
  \/ \E w \in Workers : Work(w)
  \/ Sync \/ Administer \/ Orphan \/ Crash \/ Edit \/ Revoke

Spec == Init /\ [][Next]_vars

\* Handlers, the scanner task and blocking tasks run when they can, the lock is
\* first in, first out, the upstream client has timeouts, and streams end.  The
\* interval of the scanner makes rescans recur; nothing else is started for sure.
Fairness ==
  /\ SF_vars(Rescan) /\ WF_vars(Plan \/ SyncDisk \/ SyncApply \/ SyncFails)
  /\ WF_vars(AdminDisk \/ AdminApply)
  /\ \A w \in Workers :
       /\ WF_vars(Exchange(w) \/ RefreshFails(w))
       /\ WF_vars(Persist(w) \/ Trash(w))
       /\ WF_vars(Settle(w))
       /\ SF_vars(FinishRefresh(w) \/ Retire(w))

FairSpec == Spec /\ Fairness

-----------------------------------------------------------------------------
(* Safety *)

OnDisk == {files[i] : i \in DOMAIN files} \ {Unreadable}

Serving(i) == ~store[i].detached /\ ~store[i].tombstone

\* DESIGN.md: "refresh tokens are the durable root credentials".  The refresh
\* token of every account in service is in the directory, unless the operation
\* that holds the disk lock is about to write it or is deleting the account: the
\* process may be killed at any other point and loses no credential, whatever
\* refreshes, rescans, imports and renamed files interleave
\* (finish_refresh_success, build_disk_sync_plan, upsert_disk_record).
TokenOnDisk ==
  \A i \in DOMAIN store :
    Serving(i) =>
      \/ store[i].token \in OnDisk
      \/ op # Nothing /\ op.kind \in {"persist", "delete"} /\ op.disk.id = i

\* "Duplicate imports are deduplicated by the current refresh token" (README.md):
\* imports, dropped and renamed files and rescans never put one token in service
\* twice, though the import looks for it long before it inserts.
OneAccountPerToken ==
  \A i, j \in DOMAIN store :
    (Serving(i) /\ Serving(j) /\ store[i].token = store[j].token) => i = j

\* Merging files of one token, a sync writes and removes one at a time, from a
\* plan made of an earlier scan: none of its steps takes the last readable copy
\* of a refresh token off the disk (execute_disk_sync_fs).
MergeKeepsTokens ==
  [][SyncDisk => OnDisk \subseteq OnDisk']_vars

\* Once an account is deleted (and its record detached, or gone), no refresh that
\* was under way writes its file again: a file appears only by an import, a
\* merge, the operator's hand, or for an account still attached.
DeletedStaysDeleted ==
  [][\A i \in DOMAIN files' \ DOMAIN files :
       \/ Edit \/ SyncDisk \/ AdminDisk
       \/ i \in DOMAIN store /\ ~store[i].detached]_vars

\* No rescan, deletion or retirement takes away the record of a request that
\* uses or refreshes it: apply_disk_sync_plan acts on a plan made before the
\* request came, but on in_flight_requests as they are.
UsersKeepAccounts ==
  \A w \in Workers :
    task[w].pc \in {"use", "refresh", "refreshed", "retire", "persist"} =>
      task[w].id \in DOMAIN store

\* "Memory wins" (DEVELOPMENT.md): whatever is on disk, imported again or lost, and
\* however refreshes overlap, an account never exchanges a refresh token the
\* token endpoint would still accept for another one.
TokenNeverGoesBack ==
  [][\A i \in DOMAIN store \cap DOMAIN store' :
       store'[i].token # store[i].token => store[i].token \notin live]_vars

-----------------------------------------------------------------------------
(* Liveness *)

\* README.md: new files "are picked up without restarting the service": a token
\* that stays in a file is in the pool in the end, whichever accounts were
\* renamed, deleted or retired under it.
HotLoaded ==
  \A i, t \in Tokens :
    (i \in DOMAIN files /\ files[i] = t) ~>
      \/ i \notin DOMAIN files \/ files[i] # t
      \/ Attached(t) # {}

=============================================================================
