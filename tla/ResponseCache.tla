--------------------------- MODULE ResponseCache ---------------------------
(***************************************************************************)
(* The runtime's own response cache, DirResponseCache: one file per entry, *)
(* written through a temporary file and a rename.  Queued calls load and   *)
(* store entries, the maintenance sweep prunes them by age and size, and   *)
(* the host purges those of an erased owner; all of them on one directory  *)
(* without a lock, each file operation a step of its own.  The process may *)
(* crash between any two of them.                                          *)
(***************************************************************************)
EXTENDS Naturals, FiniteSets, FiniteSetsExt

CONSTANTS
    Entries,      \* entry files: kind, scope and request hash
    Owners,       \* whom a response's trace records it was for
    Callers,      \* threads of the blocking pool that load and store
    Bytes,        \* a response's length, by owner
    MaxBytes,     \* response_max_bytes
    MaxAge,       \* response_max_age
    MaxStores,    \* bound: stores begun
    MaxTime,      \* bound: the clock
    MaxCrashes    \* bound: process crashes

ASSUME SizesAreNatural == Bytes \in [Owners -> Nat] /\ MaxBytes \in Nat

VARIABLES
    disk,         \* what each entry file holds: a response, nothing or a link
    caller,       \* each caller's load or store in progress
    job,          \* the prune and the purge in progress
    now, stores, crashes

vars == <<disk, caller, job, now, stores, crashes>>

\* A file: none, one the walk refuses (a symlink, another user's), or a
\* response: for whom, when it was written, whether to its end.  marked is
\* bookkeeping: there when the current purge began, and its owner's.
Nothing == [is |-> "none"]
Link == [is |-> "link"]
Response(o, time, whole) ==
    [is |-> "response", owner |-> o, at |-> time, whole |-> whole, marked |-> FALSE]

Jobs == {"prune", "purge"}

Waiting == [pc |-> "idle", entry |-> {}, file |-> Nothing]
Resting == [pc |-> "idle", owner |-> {}, began |-> 0, pending |-> {}, list |-> {},
            listed |-> {}, removed |-> {}, at |-> {}]

CacheInit ==
    /\ disk \in {d \in [Entries -> {Nothing, Link}] :
                   Cardinality({e \in Entries : d[e] = Link}) <= 1}
    /\ caller = [c \in Callers |-> Waiting]
    /\ job = [j \in Jobs |-> Resting]
    /\ now = 0 /\ stores = 0 /\ crashes = 0

(***************************************************************************)
(* Load: the file is checked, then read.  A missing or expired entry and a *)
(* refused component end the load at the check, which changes nothing; a   *)
(* file that is gone in between fails it.                                  *)
(***************************************************************************)
IsOlder(file, time) == time - file.at > MaxAge

LoadCheck(c, e) ==
    /\ caller[c].pc = "idle"
    /\ disk[e].is = "response" /\ ~ IsOlder(disk[e], now)
    /\ caller' = [caller EXCEPT ![c] = [pc |-> "read", entry |-> e, file |-> Nothing]]
    /\ UNCHANGED <<disk, job, now, stores, crashes>>

LoadRead(c) ==
    /\ caller[c].pc = "read"
    /\ LET found == disk[caller[c].entry]
       IN  caller' = [caller EXCEPT ![c] = IF found = Nothing THEN Waiting
                        ELSE [pc |-> "loaded", entry |-> {}, file |-> found]]
    /\ UNCHANGED <<disk, job, now, stores, crashes>>

(***************************************************************************)
(* Store: the entry is checked and a temporary file created beside it; the *)
(* response is written to it, or the write fails and the file is removed;  *)
(* the temporary file is renamed over the entry.  Until then the temporary *)
(* file is the caller's; one that a crash leaves is never an entry.  A     *)
(* store of an entry that is not the user's own, or that vanishes between  *)
(* the two checks of it, is refused and changes nothing.                   *)
(***************************************************************************)
\* A store that opens the entry itself for writing.
OpenedInPlace(d, e, file) == [d EXCEPT ![e] = file]

Opened(d, e, file) == d

StoreOpen(c, e, o) ==
    /\ caller[c].pc = "idle" /\ stores < MaxStores /\ disk[e] # Link
    /\ LET file == Response(o, now, FALSE)
       IN  /\ disk' = Opened(disk, e, file)
           /\ caller' = [caller EXCEPT ![c] = [pc |-> "write", entry |-> e, file |-> file]]
    /\ stores' = stores + 1
    /\ UNCHANGED <<job, now, crashes>>

StoreWrite(c, ok) ==
    /\ caller[c].pc = "write"
    /\ caller' = [caller EXCEPT ![c] = IF ~ ok THEN Waiting
         ELSE [pc |-> "rename", entry |-> @.entry, file |-> Response(@.file.owner, now, TRUE)]]
    /\ UNCHANGED <<disk, job, now, stores, crashes>>

StoreRename(c) ==
    /\ caller[c].pc = "rename"
    /\ disk' = [disk EXCEPT ![caller[c].entry] = caller[c].file]
    /\ caller' = [caller EXCEPT ![c] = Waiting]
    /\ UNCHANGED <<job, now, stores, crashes>>

\* The answer is used.
CallerEnds(c) ==
    /\ caller[c].pc = "loaded"
    /\ caller' = [caller EXCEPT ![c] = Waiting]
    /\ UNCHANGED <<disk, job, now, stores, crashes>>

(***************************************************************************)
(* Prune and purge begin by walking the whole tree, file by file; one      *)
(* component that is not the user's own refuses the walk before anything   *)
(* is deleted.  Temporary files are no entries.                            *)
(***************************************************************************)
Walk == [Resting EXCEPT !.pc = "walk", !.pending = Entries]

Marked(owner) ==
    [e \in Entries |-> IF disk[e].is = "response"
                       THEN [disk[e] EXCEPT !.marked = disk[e].owner = owner] ELSE disk[e]]

StartPrune ==
    /\ job["prune"].pc = "idle"
    /\ job' = [job EXCEPT !["prune"] = [Walk EXCEPT !.began = now]]
    /\ UNCHANGED <<disk, caller, now, stores, crashes>>

StartPurge(o) ==
    /\ job["purge"].pc = "idle"
    /\ job' = [job EXCEPT !["purge"] = [Walk EXCEPT !.owner = o]]
    /\ disk' = Marked(o)
    /\ UNCHANGED <<caller, now, stores, crashes>>

WalkFile(j, e) ==
    /\ job[j].pc = "walk" /\ e \in job[j].pending
    /\ LET found == IF disk[e].is = "response"
                    THEN {[entry |-> e, owner |-> disk[e].owner, at |-> disk[e].at]} ELSE {}
       IN  job' = [job EXCEPT ![j].pending = @ \ {e},
                              ![j].pc = IF disk[e] = Link THEN "refused" ELSE "walk",
                              ![j].list = @ \cup found,
                              ![j].listed = IF j = "prune" THEN @ \cup found ELSE {}]
    /\ UNCHANGED <<disk, caller, now, stores, crashes>>

\* A walk that hands each file on as it finds it.
WalkedSoFar(j) == job[j].pc = "walk"

Walked(j) == job[j].pc = "walk" /\ job[j].pending = {}

(***************************************************************************)
(* Prune: from the oldest, an entry goes when it is too old or while what  *)
(* the walk found still exceeds the size limit.  The lengths and times are *)
(* those the walk saw, the file removed is the one there now.              *)
(***************************************************************************)
TotalOf(list) == MapThenSumSet(LAMBDA f : Bytes[f.owner], list)

Remains(j) == job[j].listed \ job[j].removed

Oldest(list) == {f \in list : \A g \in list : f.at <= g.at}

\* A prune that stops one entry too early.
OverByOne(j) == TotalOf(Remains(j)) > MaxBytes + 1

Over(j) == TotalOf(Remains(j)) > MaxBytes

PruneFile(f) ==
    /\ Walked("prune") /\ f \in Oldest(job["prune"].list)
    /\ LET goes == IsOlder(f, job["prune"].began) \/ Over("prune")
       IN  /\ disk' = IF goes THEN [disk EXCEPT ![f.entry] = Nothing] ELSE disk
           /\ job' = [job EXCEPT !["prune"].list = @ \ {f},
                                 !["prune"].removed = IF goes THEN @ \cup {f} ELSE @]
    /\ UNCHANGED <<caller, now, stores, crashes>>

(***************************************************************************)
(* Purge: each entry is read and removed when its recorded owner matches.  *)
(* An entry that cannot be read is kept and reported, and the purge stops. *)
(***************************************************************************)
\* A purge that takes a vanished entry for the end of its work.
UnreadableEnds == "done"

Unreadable == "failed"

PurgeRead(f) ==
    /\ Walked("purge") /\ f \in job["purge"].list
    /\ LET found == disk[f.entry]
           matches == found # Nothing /\ found.owner = job["purge"].owner
       IN  job' = [job EXCEPT !["purge"].list = @ \ {f},
              !["purge"].pc = IF found = Nothing THEN Unreadable
                              ELSE IF matches THEN "remove" ELSE "walk",
              !["purge"].at = IF matches THEN f.entry ELSE {}]
    /\ UNCHANGED <<disk, caller, now, stores, crashes>>

PurgeRemove ==
    /\ job["purge"].pc = "remove"
    /\ disk' = [disk EXCEPT ![job["purge"].at] = Nothing]
    /\ job' = [job EXCEPT !["purge"].pc = "walk", !["purge"].at = {},
                          !["purge"].removed = @ \cup {job["purge"].at}]
    /\ UNCHANGED <<caller, now, stores, crashes>>

JobDone(j) ==
    /\ job[j].pc = "walk" /\ job[j].pending \cup job[j].list = {}
    /\ job' = [job EXCEPT ![j].pc = "done", ![j].at = {}]
    /\ UNCHANGED <<disk, caller, now, stores, crashes>>

JobEnds(j) ==
    /\ job[j].pc \in {"done", "refused", "failed"}
    /\ job' = [job EXCEPT ![j] = Resting]
    /\ disk' = IF j = "purge" THEN Marked({}) ELSE disk
    /\ UNCHANGED <<caller, now, stores, crashes>>

(***************************************************************************)
(* The environment: time, a crash of the process, and the host that puts a *)
(* refused component right.                                                *)
(***************************************************************************)
Tick == /\ now < MaxTime
        /\ now' = now + 1
        /\ UNCHANGED <<disk, caller, job, stores, crashes>>

CacheCrash ==
    /\ crashes < MaxCrashes
    /\ crashes' = crashes + 1
    /\ caller' = [c \in Callers |-> Waiting]
    /\ job' = [j \in Jobs |-> Resting]
    /\ disk' = Marked({})
    /\ UNCHANGED <<now, stores>>

Repair(e) ==
    /\ disk[e] = Link
    /\ disk' = [disk EXCEPT ![e] = Nothing]
    /\ UNCHANGED <<caller, job, now, stores, crashes>>

CacheNext ==
    \/ \E c \in Callers :
         \/ \E e \in Entries : LoadCheck(c, e)
         \/ LoadRead(c)
         \/ \E e \in Entries, o \in Owners : StoreOpen(c, e, o)
         \/ \E ok \in BOOLEAN : StoreWrite(c, ok)
         \/ StoreRename(c)
         \/ CallerEnds(c)
    \/ StartPrune
    \/ \E o \in Owners : StartPurge(o)
    \/ \E j \in Jobs : (\E e \in Entries : WalkFile(j, e)) \/ JobDone(j) \/ JobEnds(j)
    \/ \E f \in job["prune"].list : PruneFile(f)
    \/ \E f \in job["purge"].list : PurgeRead(f)
    \/ PurgeRemove
    \/ Tick
    \/ CacheCrash
    \/ \E e \in Entries : Repair(e)

CacheSpec == CacheInit /\ [][CacheNext]_vars

-----------------------------------------------------------------------------
(***************************************************************************)
(* Properties.                                                             *)
(***************************************************************************)

\* "Readers never see a partial file": whatever stores, crashes and sweeps
\* run beside it, a load returns a response that was written to its end.
LoadsWhole ==
    \A c \in Callers :
        caller[c].pc = "loaded" =>
            caller[c].file.is = "response" /\ caller[c].file.whole

\* A purge that reports success leaves no entry behind that held a response
\* of the erased owner when it began, although the sweep and other stores
\* change the directory under its walk.
ErasureComplete ==
    job["purge"].pc = "done" =>
        \A e \in Entries : disk[e].is = "response" => ~ disk[e].marked

\* A prune or purge that is refused for one component of the tree has
\* deleted nothing anywhere in it, and a finished prune keeps exactly the
\* newest responses that are young enough and fit: what it kept fits and has
\* not expired, and each younger response it removed did not fit together
\* with those at least as new.
SweepsExact ==
    /\ \A j \in Jobs : job[j].pc = "refused" => job[j].removed = {}
    /\ job["prune"].pc = "done" =>
        /\ TotalOf(Remains("prune")) <= MaxBytes
        /\ \A f \in Remains("prune") : ~ IsOlder(f, job["prune"].began)
        /\ \A f \in job["prune"].removed :
             ~ IsOlder(f, job["prune"].began) =>
                 TotalOf({g \in job["prune"].listed :
                            g.at >= f.at}) > MaxBytes
=============================================================================
