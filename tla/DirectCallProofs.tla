--------------------------- MODULE DirectCallProofs ---------------------------
(***************************************************************************)
(* What a direct call relies on, for any number of callers and processes:  *)
(* the files of the response cache, and the queue rows, receipts and rate  *)
(* gate of queued providers.                                               *)
(*                                                                         *)
(* First the response cache.  An entry file only ever comes from the       *)
(* rename of a file written to its end, so a load is whole; and what a     *)
(* purge has to erase stays before it, because a file that is replaced     *)
(* under it is a new one.                                                  *)
(*                                                                         *)
(* Then queued providers.  The argument follows the references: a grant    *)
(* gives an attempt of an item to one task, so a reservation belongs to    *)
(* one task until its evidence is recorded, the unresolved receipt of a    *)
(* request is its latest, and the latest receipt of an explicit request    *)
(* counts those that may have reached the provider.                        *)
(***************************************************************************)
EXTENDS ResponseCache, QueuedProvider, FiniteSetTheorems, WellFoundedInduction, TLAPS

----------------------------------------------------------------------------
(* The response cache.                                                     *)

\* The contents of a file, the records of a caller and of a sweep.
Responses == [is : {"response"}, owner : Owners, at : Nat, whole : BOOLEAN, marked : BOOLEAN]
Files == {Nothing, Link} \cup Responses
CallerState ==
    [pc : {"idle", "read", "loaded", "write", "rename"},
     entry : Entries \cup {{}}, file : Files]
Found == [entry : Entries, owner : Owners, at : Nat]
SweepState ==
    [pc : {"idle", "walk", "refused", "remove", "failed", "done"}, owner : Owners \cup {{}},
     began : Nat, pending : SUBSET Entries, list : SUBSET Found, listed : SUBSET Found,
     removed : SUBSET (Found \cup Entries), at : Entries \cup {{}}]

CacheTypeOK ==
    /\ disk \in [Entries -> Files] /\ caller \in [Callers -> CallerState]
    /\ job \in [Jobs -> SweepState]
    /\ now \in Nat /\ stores \in Nat /\ crashes \in Nat

\* Entry files are whole responses.  A caller reads an entry it has seen to
\* be a response, and what it writes or renames is its own unmarked file.
WholeInv ==
    /\ \A e \in Entries : disk[e] \in Responses => disk[e].whole
    /\ \A c \in Callers :
         /\ caller[c].pc = "read" => caller[c].entry \in Entries /\ disk[caller[c].entry] # Link
         /\ caller[c].pc = "loaded" => caller[c].file \in Responses /\ caller[c].file.whole
         /\ caller[c].pc \in {"write", "rename"} =>
              caller[c].entry \in Entries /\ caller[c].file \in Responses /\ ~ caller[c].file.marked
         /\ caller[c].pc = "rename" => caller[c].file.whole

\* What a sweep has listed was a response when it was walked, and no response
\* turns into a link.
ListInv == \A j \in Jobs : \A f \in job[j].list : disk[f.entry] # Link

\* A response that the purge must remove is still before it: not yet walked,
\* listed, or the one it is about to remove.
Ahead(e) ==
    \/ e \in job["purge"].pending
    \/ \E f \in job["purge"].list : f.entry = e
    \/ job["purge"].pc = "remove" /\ job["purge"].at = e
EraseInv ==
    /\ job["purge"].pc \in {"walk", "remove", "done"} =>
         \A e \in Entries : disk[e] \in Responses /\ disk[e].marked =>
             disk[e].owner = job["purge"].owner /\ Ahead(e)
    /\ job["purge"].pc = "remove" => job["purge"].at \in Entries
    /\ job["purge"].pc = "done" => job["purge"].pending = {} /\ job["purge"].list = {}

\* The inductive invariant.
CacheInv == CacheTypeOK /\ WholeInv /\ ListInv /\ EraseInv

----------------------------------------------------------------------------
(* Files.                                                                  *)

\* A response is told from the other files by what it is.
LEMMA FileKinds ==
    /\ Nothing \notin Responses /\ Link \notin Responses /\ Nothing # Link
    /\ \A f \in Files : (f.is = "response") <=> f \in Responses
    /\ Nothing \in Files /\ Link \in Files
BY DEF Responses, Files, Nothing, Link

LEMMA ResponseType ==
    ASSUME NEW o \in Owners, NEW time \in Nat, NEW whole \in BOOLEAN
    PROVE  /\ Response(o, time, whole) \in Responses
           /\ Response(o, time, whole).marked = FALSE
           /\ Response(o, time, whole).whole = whole
BY DEF Response, Responses

\* Marking the responses of an owner changes nothing else about them.
LEMMA MarkedFiles ==
    ASSUME NEW o, disk \in [Entries -> Files]
    PROVE  /\ Marked(o) \in [Entries -> Files]
           /\ \A e \in Entries :
                /\ Marked(o)[e] \in Responses <=> disk[e] \in Responses
                /\ Marked(o)[e] = Link <=> disk[e] = Link
                /\ disk[e] \in Responses =>
                     /\ Marked(o)[e].whole = disk[e].whole
                     /\ Marked(o)[e].owner = disk[e].owner
                     /\ Marked(o)[e].marked = (disk[e].owner = o)
<1>1. ASSUME NEW e \in Entries, disk[e] \in Responses
      PROVE  /\ Marked(o)[e] \in Responses
             /\ Marked(o)[e].whole = disk[e].whole
             /\ Marked(o)[e].owner = disk[e].owner
             /\ Marked(o)[e].marked = (disk[e].owner = o)
  <2>1. disk[e].is = "response" /\ (disk[e].owner = o) \in BOOLEAN
    BY <1>1 DEF Responses
  <2>2. Marked(o)[e] = [disk[e] EXCEPT !.marked = (disk[e].owner = o)]
    BY <2>1 DEF Marked
  <2> QED BY <1>1, <2>1, <2>2 DEF Responses
<1>2. ASSUME NEW e \in Entries, disk[e] \notin Responses
      PROVE  Marked(o)[e] = disk[e]
  BY <1>2, FileKinds DEF Marked
<1>3. Marked(o) \in [Entries -> Files]
  <2>1. \A e \in Entries : Marked(o)[e] \in Files
    BY <1>1, <1>2 DEF Files
  <2>2. Marked(o) = [e \in Entries |-> Marked(o)[e]]
    BY DEF Marked
  <2> QED BY <2>1, <2>2
<1> QED BY <1>1, <1>2, <1>3, FileKinds

LEMMA RestStates == Waiting \in CallerState /\ Resting \in SweepState
BY DEF Waiting, Resting, CallerState, SweepState, Files

----------------------------------------------------------------------------
(* Steps of the callers.                                                   *)

\* A caller moves and the directory stays as it is.
LEMMA CallerMoves ==
    ASSUME CacheInv, NEW c \in Callers, NEW n \in CallerState,
           caller' = [caller EXCEPT ![c] = n],
           UNCHANGED <<disk, job, now, crashes>>, stores' \in Nat,
           n.pc = "read" => n.entry \in Entries /\ disk[n.entry] # Link,
           n.pc = "loaded" => n.file \in Responses /\ n.file.whole,
           n.pc \in {"write", "rename"} =>
              n.entry \in Entries /\ n.file \in Responses /\ ~ n.file.marked,
           n.pc = "rename" => n.file.whole
    PROVE  CacheInv'
<1>1. CacheTypeOK'
  BY DEF CacheInv, CacheTypeOK
<1>2. WholeInv'
  BY DEF CacheInv, CacheTypeOK, WholeInv
<1>3. ListInv'
  BY DEF CacheInv, ListInv
<1>4. EraseInv'
  BY DEF CacheInv, EraseInv, Ahead
<1> QED BY <1>1, <1>2, <1>3, <1>4 DEF CacheInv

LEMMA LoadInv ==
    ASSUME CacheInv, NEW c \in Callers,
           (\E e \in Entries : LoadCheck(c, e)) \/ LoadRead(c) \/ CallerEnds(c)
    PROVE  CacheInv'
<1>0. caller[c] \in CallerState /\ disk \in [Entries -> Files] /\ stores \in Nat
  BY DEF CacheInv, CacheTypeOK
<1>1. ASSUME NEW e \in Entries, LoadCheck(c, e) PROVE CacheInv'
  <2>1. PICK n : n = [pc |-> "read", entry |-> e, file |-> Nothing]
    OBVIOUS
  <2>2. n \in CallerState /\ n.pc = "read" /\ n.entry = e
    BY <2>1 DEF CallerState, Files
  <2>3. caller' = [caller EXCEPT ![c] = n] /\ disk[e] # Link
    BY <1>1, <2>1 DEF LoadCheck, Link
  <2>4. UNCHANGED <<disk, job, now, crashes>> /\ stores' \in Nat
    BY <1>0, <1>1 DEF LoadCheck
  <2> QED BY <2>2, <2>3, <2>4, CallerMoves
<1>2. ASSUME LoadRead(c) PROVE CacheInv'
  <2>1. /\ caller[c].entry \in Entries /\ disk[caller[c].entry] # Link
        /\ disk[caller[c].entry] \in Files
        /\ disk[caller[c].entry] \in Responses => disk[caller[c].entry].whole
    BY <1>0, <1>2 DEF LoadRead, CacheInv, WholeInv
  <2>2. PICK found : found = disk[caller[c].entry]
    OBVIOUS
  <2>3. PICK n : n = IF found = Nothing THEN Waiting
                     ELSE [pc |-> "loaded", entry |-> {}, file |-> found]
    OBVIOUS
  <2>4. n \in CallerState /\ n.pc \in {"idle", "loaded"}
        /\ (n.pc = "loaded" => n.file = found /\ found # Nothing)
    BY <2>1, <2>2, <2>3, RestStates DEF CallerState, Waiting
  <2>5. caller' = [caller EXCEPT ![c] = n]
    BY <1>2, <2>2, <2>3 DEF LoadRead
  <2>6. UNCHANGED <<disk, job, now, crashes>> /\ stores' \in Nat
    BY <1>0, <1>2 DEF LoadRead
  <2>7. n.pc = "loaded" => n.file \in Responses /\ n.file.whole
    BY <2>1, <2>2, <2>4 DEF Files
  <2> QED BY <2>4, <2>5, <2>6, <2>7, CallerMoves
<1>3. ASSUME CallerEnds(c) PROVE CacheInv'
  <2>1. Waiting \in CallerState /\ Waiting.pc = "idle"
    BY RestStates DEF Waiting
  <2>2. caller' = [caller EXCEPT ![c] = Waiting] /\ UNCHANGED <<disk, job, now, crashes>>
        /\ stores' \in Nat
    BY <1>0, <1>3 DEF CallerEnds
  <2> QED BY <2>1, <2>2, CallerMoves
<1> QED BY <1>1, <1>2, <1>3

LEMMA StoreInv ==
    ASSUME CacheInv, NEW c \in Callers,
           \/ \E e \in Entries, o \in Owners : StoreOpen(c, e, o)
           \/ \E ok \in BOOLEAN : StoreWrite(c, ok)
    PROVE  CacheInv'
<1>0. caller \in [Callers -> CallerState] /\ caller[c] \in CallerState
      /\ stores \in Nat /\ now \in Nat
  BY DEF CacheInv, CacheTypeOK
<1>1. ASSUME NEW e \in Entries, NEW o \in Owners, StoreOpen(c, e, o) PROVE CacheInv'
  <2>1. PICK file : file = Response(o, now, FALSE) /\ file \in Responses /\ ~ file.marked
    BY <1>0, ResponseType
  <2>2. PICK n : n = [pc |-> "write", entry |-> e, file |-> file]
    OBVIOUS
  <2>3. n \in CallerState /\ n.entry = e /\ n.pc = "write" /\ n.file = file
    BY <2>1, <2>2 DEF CallerState, Files
  <2>4. caller' = [caller EXCEPT ![c] = n] /\ UNCHANGED <<disk, job, now, crashes>> /\ stores' \in Nat
    BY <1>0, <1>1, <2>1, <2>2 DEF StoreOpen, Opened
  <2> QED BY <2>1, <2>3, <2>4, CallerMoves
<1>2. ASSUME NEW ok \in BOOLEAN, StoreWrite(c, ok) PROVE CacheInv'
  <2>0. caller[c].entry \in Entries /\ caller[c].file.owner \in Owners
    BY <1>2 DEF StoreWrite, CacheInv, WholeInv, Responses
  <2>1. PICK file : /\ file = Response(caller[c].file.owner, now, TRUE) /\ file \in Responses
                    /\ ~ file.marked /\ file.whole
    <3>1. Response(caller[c].file.owner, now, TRUE) \in Responses
      BY <1>0, <2>0, ResponseType
    <3>2. /\ ~ Response(caller[c].file.owner, now, TRUE).marked
          /\ Response(caller[c].file.owner, now, TRUE).whole
      BY DEF Response
    <3> QED BY <3>1, <3>2
  <2>2. PICK n : n = IF ~ ok THEN Waiting
                     ELSE [pc |-> "rename", entry |-> caller[c].entry, file |-> file]
    OBVIOUS
  <2>3. n \in CallerState /\ n.pc \in {"idle", "rename"}
        /\ (n.pc = "rename" => n.entry = caller[c].entry /\ n.file = file)
    BY <2>0, <2>1, <2>2, RestStates DEF CallerState, Files, Waiting
  <2>4. caller' = [caller EXCEPT ![c] = n] /\ UNCHANGED <<disk, job, now, crashes>> /\ stores' \in Nat
    BY <1>0, <1>2, <2>1, <2>2 DEF StoreWrite
  <2> QED BY <2>0, <2>1, <2>3, <2>4, CallerMoves
<1> QED BY <1>1, <1>2

\* A response that takes the place of an entry is whole, and the purge does
\* not have to remove it.
LEMMA RenameInv ==
    ASSUME CacheInv, NEW c \in Callers, StoreRename(c)
    PROVE  CacheInv'
<1>0. disk \in [Entries -> Files] /\ caller \in [Callers -> CallerState]
  BY DEF CacheInv, CacheTypeOK
<1>1. PICK file \in Responses, e \in Entries :
         /\ disk' = [disk EXCEPT ![e] = file]
         /\ file.whole /\ ~ file.marked
  BY DEF StoreRename, CacheInv, WholeInv
<1>2. caller' = [caller EXCEPT ![c] = Waiting] /\ UNCHANGED <<job, now, stores, crashes>>
  BY DEF StoreRename
<1>3. /\ disk' \in [Entries -> Files] /\ disk'[e] = file
      /\ \A d \in Entries : d # e => disk'[d] = disk[d]
      /\ file # Link
  BY <1>0, <1>1, FileKinds DEF Files
<1>4. CacheTypeOK'
  BY <1>2, <1>3, RestStates DEF CacheInv, CacheTypeOK
<1>5. \A b \in Callers : caller'[b] = caller[b] \/ caller'[b] = Waiting
  BY <1>0, <1>2
<1>6. WholeInv'
  BY <1>1, <1>3, <1>5 DEF CacheInv, WholeInv, Waiting
<1>7. ListInv'
  BY <1>2, <1>3 DEF CacheInv, CacheTypeOK, ListInv, SweepState, Found
<1>8. EraseInv'
  BY <1>1, <1>2, <1>3 DEF CacheInv, EraseInv, Ahead
<1> QED BY <1>4, <1>6, <1>7, <1>8 DEF CacheInv

----------------------------------------------------------------------------
(* Steps of the sweeps.                                                    *)

\* A sweep moves and the directory stays as it is.
LEMMA SweepMoves ==
    ASSUME CacheInv, NEW j \in Jobs, NEW n \in SweepState,
           job' = [job EXCEPT ![j] = n], UNCHANGED <<disk, caller, now, stores, crashes>>,
           \A f \in n.list : disk[f.entry] # Link,
           j = "purge" => EraseInv'
    PROVE  CacheInv'
<1>0. job \in [Jobs -> SweepState] /\ \A k \in Jobs : k # j => job'[k] = job[k]
  BY DEF CacheInv, CacheTypeOK
<1>1. CacheTypeOK'
  BY DEF CacheInv, CacheTypeOK
<1>2. WholeInv'
  BY DEF CacheInv, WholeInv
<1>3. ListInv'
  BY <1>0 DEF CacheInv, ListInv
<1>4. EraseInv'
  <2>1. CASE j # "purge"
    BY <1>0, <2>1 DEF CacheInv, EraseInv, Ahead, Jobs
  <2> QED BY <2>1
<1> QED BY <1>1, <1>2, <1>3, <1>4 DEF CacheInv

LEMMA WalkState ==
    ASSUME NEW o \in Owners \cup {{}}, NEW t \in Nat
    PROVE  /\ [Walk EXCEPT !.began = t] \in SweepState /\ [Walk EXCEPT !.began = t].list = {}
           /\ [Walk EXCEPT !.owner = o] \in SweepState /\ [Walk EXCEPT !.owner = o].list = {}
           /\ [Walk EXCEPT !.owner = o].owner = o
           /\ [Walk EXCEPT !.owner = o].pending = Entries
           /\ [Walk EXCEPT !.owner = o].pc = "walk"
BY DEF Walk, Resting, SweepState

LEMMA StartPruneInv ==
    ASSUME CacheInv, StartPrune
    PROVE  CacheInv'
<1>1. now \in Nat
  BY DEF CacheInv, CacheTypeOK
<1>2. PICK n : n = [Walk EXCEPT !.began = now] /\ n \in SweepState /\ n.list = {}
  <2>1. {} \in Owners \cup {{}}
    OBVIOUS
  <2> QED BY <1>1, <2>1, WalkState
<1>3. "prune" \in Jobs /\ "prune" # "purge"
  BY DEF Jobs
<1>4. job' = [job EXCEPT !["prune"] = n] /\ UNCHANGED <<disk, caller, now, stores, crashes>>
  BY <1>2 DEF StartPrune
<1> QED BY <1>2, <1>3, <1>4, SweepMoves

\* The responses to erase are those of the owner now; the walk has all of
\* them before it.
LEMMA StartPurgeInv ==
    ASSUME CacheInv, NEW o \in Owners, StartPurge(o)
    PROVE  CacheInv'
<1>0. disk \in [Entries -> Files] /\ job \in [Jobs -> SweepState] /\ "purge" \in Jobs
  BY DEF CacheInv, CacheTypeOK, Jobs
<1>1. PICK n : /\ n = [Walk EXCEPT !.owner = o] /\ n \in SweepState /\ n.list = {}
               /\ n.owner = o /\ n.pending = Entries /\ n.pc = "walk"
  <2>1. 0 \in Nat /\ o \in Owners \cup {{}}
    OBVIOUS
  <2> QED BY <2>1, WalkState
<1>2. job' = [job EXCEPT !["purge"] = n] /\ disk' = Marked(o) /\ UNCHANGED <<caller, now, stores, crashes>>
  BY <1>1 DEF StartPurge
<1>3. job'["purge"] = n /\ \A k \in Jobs : k # "purge" => job'[k] = job[k]
  BY <1>0, <1>2
<1>4. /\ disk' \in [Entries -> Files]
      /\ \A e \in Entries :
           /\ disk'[e] \in Responses <=> disk[e] \in Responses
           /\ disk'[e] = Link <=> disk[e] = Link
           /\ disk[e] \in Responses =>
                /\ disk'[e].whole = disk[e].whole /\ disk'[e].owner = disk[e].owner
                /\ disk'[e].marked = (disk[e].owner = o)
  BY <1>0, <1>2, MarkedFiles
<1>5. CacheTypeOK'
  BY <1>1, <1>2, <1>4 DEF CacheInv, CacheTypeOK
<1>6. WholeInv'
  BY <1>2, <1>4 DEF CacheInv, WholeInv
<1>7. ListInv'
  BY <1>0, <1>1, <1>3, <1>4 DEF CacheInv, ListInv, SweepState, Found
<1>8. EraseInv'
  BY <1>1, <1>3, <1>4 DEF EraseInv, Ahead
<1> QED BY <1>5, <1>6, <1>7, <1>8 DEF CacheInv

LEMMA WalkFileInv ==
    ASSUME CacheInv, NEW j \in Jobs, NEW e \in Entries, WalkFile(j, e)
    PROVE  CacheInv'
<1>0. disk \in [Entries -> Files] /\ job \in [Jobs -> SweepState] /\ job[j] \in SweepState
  BY DEF CacheInv, CacheTypeOK
<1>1. PICK found : found = IF disk[e].is = "response"
                           THEN {[entry |-> e, owner |-> disk[e].owner, at |-> disk[e].at]} ELSE {}
  OBVIOUS
<1>2. /\ found \in SUBSET Found /\ \A f \in found : f.entry = e /\ disk[e] \in Responses
      /\ disk[e] \in Responses => \E f \in found : f.entry = e
  <2>1. CASE disk[e] \in Responses
    <3>1. PICK f : f = [entry |-> e, owner |-> disk[e].owner, at |-> disk[e].at]
      OBVIOUS
    <3>2. f \in Found /\ f.entry = e /\ disk[e].is = "response"
      BY <2>1, <3>1 DEF Responses, Found
    <3>3. found = {f}
      BY <1>1, <3>1, <3>2
    <3> QED BY <2>1, <3>2, <3>3
  <2>2. CASE disk[e] \notin Responses
    BY <1>0, <1>1, <2>2, FileKinds
  <2> QED BY <2>1, <2>2
<1>3. PICK n : n = [job[j] EXCEPT !.pending = @ \ {e}, !.pc = IF disk[e] = Link THEN "refused" ELSE "walk",
                       !.list = @ \cup found, !.listed = IF j = "prune" THEN @ \cup found ELSE {}]
  OBVIOUS
<1>4. job' = [job EXCEPT ![j] = n] /\ UNCHANGED <<disk, caller, now, stores, crashes>>
  BY <1>0, <1>1, <1>3 DEF WalkFile
<1>5. /\ n \in SweepState /\ n.list = job[j].list \cup found /\ n.pending = job[j].pending \ {e}
      /\ n.pc \in {"refused", "walk"} /\ n.owner = job[j].owner
  BY <1>0, <1>2, <1>3 DEF SweepState
<1>6. \A f \in n.list : disk[f.entry] # Link
  BY <1>2, <1>5, FileKinds DEF CacheInv, ListInv
<1>7. ASSUME j = "purge" PROVE EraseInv'
  <2>1. job'["purge"] = n /\ job["purge"].pc = "walk" /\ disk' = disk
    BY <1>0, <1>4, <1>7 DEF WalkFile
  <2>2. ASSUME NEW d \in Entries, disk[d] \in Responses, disk[d].marked
        PROVE  disk[d].owner = n.owner /\ Ahead(d)'
    <3>1. disk[d].owner = job["purge"].owner /\ Ahead(d)
      BY <2>1, <2>2 DEF CacheInv, EraseInv
    <3> QED BY <1>2, <1>5, <1>7, <2>1, <2>2, <3>1 DEF Ahead
  <2> QED BY <1>5, <2>1, <2>2 DEF EraseInv
<1> QED BY <1>4, <1>5, <1>6, <1>7, SweepMoves

\* A file disappears: nothing that was true of the others changes, and the
\* purge need not remove it.
LEMMA FileGoes ==
    ASSUME CacheInv, NEW e \in Entries, disk' = [disk EXCEPT ![e] = Nothing]
    PROVE  /\ disk' \in [Entries -> Files] /\ disk'[e] = Nothing
           /\ \A d \in Entries : d # e => disk'[d] = disk[d]
           /\ \A d \in Entries : disk'[d] \in Responses => disk'[d] = disk[d] /\ d # e
           /\ \A d \in Entries : disk[d] # Link => disk'[d] # Link
BY FileKinds DEF CacheInv, CacheTypeOK

LEMMA PruneFileInv ==
    ASSUME CacheInv, NEW f \in job["prune"].list, PruneFile(f)
    PROVE  CacheInv'
<1>0. /\ disk \in [Entries -> Files] /\ job \in [Jobs -> SweepState] /\ f \in Found
      /\ {"prune", "purge"} \subseteq Jobs /\ job["prune"] \in SweepState /\ f.entry \in Entries
  BY DEF CacheInv, CacheTypeOK, Jobs, SweepState, Found
<1>1. PICK goes \in BOOLEAN :
         /\ disk' = IF goes THEN [disk EXCEPT ![f.entry] = Nothing] ELSE disk
         /\ job' = [job EXCEPT !["prune"].list = @ \ {f},
                               !["prune"].removed = IF goes THEN @ \cup {f} ELSE @]
         /\ UNCHANGED <<caller, now, stores, crashes>>
  BY DEF PruneFile
<1>2. PICK n : n = [job["prune"] EXCEPT !.list = @ \ {f}, !.removed = IF goes THEN @ \cup {f} ELSE @]
  OBVIOUS
<1>3. job' = [job EXCEPT !["prune"] = n] /\ n \in SweepState /\ n.list \subseteq job["prune"].list
  BY <1>0, <1>1, <1>2 DEF SweepState
<1>4. CASE ~ goes
  <2>1. UNCHANGED <<disk, caller, now, stores, crashes>> /\ \A g \in n.list : disk[g.entry] # Link
    BY <1>0, <1>1, <1>3, <1>4 DEF CacheInv, ListInv
  <2> QED BY <1>0, <1>3, <2>1, SweepMoves
<1>5. CASE goes
  <2>1. /\ disk' \in [Entries -> Files]
        /\ \A d \in Entries : disk'[d] \in Responses => disk'[d] = disk[d]
        /\ \A d \in Entries : disk[d] # Link => disk'[d] # Link
    BY <1>0, <1>1, <1>5, FileGoes
  <2>2. job'["prune"] = n /\ job'["purge"] = job["purge"]
    BY <1>0, <1>3
  <2>3. CacheTypeOK'
    BY <1>0, <1>1, <1>3, <2>1 DEF CacheInv, CacheTypeOK
  <2>4. WholeInv'
    BY <1>1, <2>1 DEF CacheInv, WholeInv
  <2>5. ListInv'
    <3>1. \A g \in job["prune"].list \cup job["purge"].list : g.entry \in Entries /\ disk[g.entry] # Link
      BY <1>0 DEF CacheInv, ListInv, SweepState, Found
    <3> QED BY <1>3, <2>1, <2>2, <3>1 DEF ListInv, Jobs
  <2>6. EraseInv'
    BY <2>1, <2>2 DEF CacheInv, EraseInv, Ahead
  <2> QED BY <2>3, <2>4, <2>5, <2>6 DEF CacheInv
<1> QED BY <1>4, <1>5

\* An entry the purge reads and does not remove is no longer one to erase.
LEMMA PurgeReadInv ==
    ASSUME CacheInv, NEW f \in job["purge"].list, PurgeRead(f)
    PROVE  CacheInv'
<1>0. /\ disk \in [Entries -> Files] /\ job \in [Jobs -> SweepState] /\ f \in Found
      /\ "purge" \in Jobs /\ job["purge"] \in SweepState /\ f.entry \in Entries
      /\ disk[f.entry] \in Files \ {Link}
  BY DEF CacheInv, CacheTypeOK, ListInv, Jobs, SweepState, Found
<1>1. PICK found : found = disk[f.entry] /\ found \in {Nothing} \cup Responses
  BY <1>0 DEF Files
<1>2. PICK hit \in BOOLEAN : hit <=> (found # Nothing /\ found.owner = job["purge"].owner)
  OBVIOUS
<1>3. PICK n : n = [job["purge"] EXCEPT !.list = @ \ {f},
                      !.pc = IF found = Nothing THEN "failed" ELSE IF hit THEN "remove" ELSE "walk",
                      !.at = IF hit THEN f.entry ELSE {}]
  OBVIOUS
<1>4. job' = [job EXCEPT !["purge"] = n]
  BY <1>0, <1>1, <1>2, <1>3 DEF PurgeRead, Unreadable
<1>5. UNCHANGED <<disk, caller, now, stores, crashes>> /\ job["purge"].pc = "walk"
      /\ job["purge"].pending = {}
  BY DEF PurgeRead, Walked
<1>6. /\ n \in SweepState /\ n.list = job["purge"].list \ {f} /\ n.owner = job["purge"].owner
      /\ n.pending = job["purge"].pending /\ (hit => n.pc = "remove" /\ n.at = f.entry)
      /\ n.pc \in {"failed", "remove", "walk"} /\ (n.pc = "remove" => hit)
  <2>1. (IF found = Nothing THEN "failed" ELSE IF hit THEN "remove" ELSE "walk")
           \in {"failed", "remove", "walk"}
    OBVIOUS
  <2>2. (IF hit THEN f.entry ELSE {}) \in Entries \cup {{}}
    BY <1>0
  <2> QED BY <1>0, <1>2, <1>3, <2>1, <2>2 DEF SweepState
<1>7. \A g \in n.list : disk[g.entry] # Link
  BY <1>0, <1>6 DEF CacheInv, ListInv
<1>8. EraseInv'
  <2>1. job'["purge"] = n /\ disk' = disk
    BY <1>0, <1>4, <1>5
  <2>2. ASSUME NEW d \in Entries, disk[d] \in Responses, disk[d].marked
        PROVE  disk[d].owner = n.owner /\ Ahead(d)'
    <3>1. disk[d].owner = job["purge"].owner /\ Ahead(d)
      BY <1>5, <2>2 DEF CacheInv, EraseInv
    <3>2. CASE d = f.entry
      <4>1. hit
        BY <1>1, <1>2, <2>2, <3>1, <3>2, FileKinds
      <4> QED BY <1>6, <2>1, <3>1, <3>2, <4>1 DEF Ahead
    <3>3. CASE d # f.entry
      BY <1>5, <1>6, <2>1, <3>1, <3>3 DEF Ahead
    <3> QED BY <3>2, <3>3
  <2>3. n.pc = "remove" => n.at \in Entries
    BY <1>0, <1>6
  <2>4. n.pc # "done"
    BY <1>6
  <2> QED BY <2>1, <2>2, <2>3, <2>4 DEF EraseInv
<1> QED BY <1>0, <1>4, <1>5, <1>6, <1>7, <1>8, SweepMoves

LEMMA PurgeRemoveInv ==
    ASSUME CacheInv, PurgeRemove
    PROVE  CacheInv'
<1>0. /\ disk \in [Entries -> Files] /\ job \in [Jobs -> SweepState]
      /\ {"prune", "purge"} \subseteq Jobs /\ job["purge"] \in SweepState
      /\ job["purge"].pc = "remove" /\ job["purge"].at \in Entries
  BY DEF CacheInv, CacheTypeOK, EraseInv, PurgeRemove, Jobs
<1>1. PICK e \in Entries : e = job["purge"].at
  BY <1>0
<1>2. PICK n : n = [job["purge"] EXCEPT !.pc = "walk", !.at = {}, !.removed = @ \cup {e}]
  OBVIOUS
<1>3. job' = [job EXCEPT !["purge"] = n] /\ disk' = [disk EXCEPT ![e] = Nothing]
      /\ UNCHANGED <<caller, now, stores, crashes>>
  BY <1>0, <1>1, <1>2 DEF PurgeRemove
<1>4. /\ n \in SweepState /\ n.list = job["purge"].list /\ n.owner = job["purge"].owner
      /\ n.pending = job["purge"].pending /\ n.pc = "walk"
  BY <1>0, <1>1, <1>2 DEF SweepState
<1>5. /\ disk' \in [Entries -> Files]
      /\ \A d \in Entries : disk'[d] \in Responses => disk'[d] = disk[d] /\ d # e
      /\ \A d \in Entries : disk[d] # Link => disk'[d] # Link
  BY <1>3, FileGoes
<1>6. job'["purge"] = n /\ job'["prune"] = job["prune"]
  BY <1>0, <1>3
<1>7. CacheTypeOK'
  BY <1>0, <1>3, <1>4, <1>5 DEF CacheInv, CacheTypeOK
<1>8. WholeInv'
  BY <1>3, <1>5 DEF CacheInv, WholeInv
<1>9. ListInv'
  <2>1. \A g \in job["prune"].list \cup job["purge"].list : g.entry \in Entries /\ disk[g.entry] # Link
    BY <1>0 DEF CacheInv, ListInv, SweepState, Found
  <2> QED BY <1>4, <1>5, <1>6, <2>1 DEF ListInv, Jobs
<1>10. EraseInv'
  <2>1. ASSUME NEW d \in Entries, disk'[d] \in Responses, disk'[d].marked
        PROVE  disk'[d].owner = n.owner /\ Ahead(d)'
    <3>1. disk'[d] = disk[d] /\ d # e
      BY <1>5, <2>1
    <3>2. disk[d].owner = job["purge"].owner /\ Ahead(d)
      BY <1>0, <2>1, <3>1 DEF CacheInv, EraseInv
    <3> QED BY <1>1, <1>4, <1>6, <3>1, <3>2 DEF Ahead
  <2> QED BY <1>4, <1>6, <2>1 DEF EraseInv
<1> QED BY <1>7, <1>8, <1>9, <1>10 DEF CacheInv

LEMMA JobDoneInv ==
    ASSUME CacheInv, NEW j \in Jobs, JobDone(j)
    PROVE  CacheInv'
<1>0. job \in [Jobs -> SweepState] /\ job[j] \in SweepState
  BY DEF CacheInv, CacheTypeOK
<1>1. PICK n : n = [job[j] EXCEPT !.pc = "done", !.at = {}]
  OBVIOUS
<1>2. job' = [job EXCEPT ![j] = n] /\ UNCHANGED <<disk, caller, now, stores, crashes>>
      /\ job[j].pc = "walk" /\ job[j].pending = {} /\ job[j].list = {}
  BY <1>0, <1>1 DEF JobDone
<1>3. n \in SweepState /\ n.list = {} /\ n.pending = {} /\ n.pc = "done" /\ n.owner = job[j].owner
  BY <1>0, <1>1, <1>2 DEF SweepState
<1>4. ASSUME j = "purge" PROVE EraseInv'
  <2>1. job'["purge"] = n /\ disk' = disk
    BY <1>0, <1>2, <1>4
  <2>2. \A e \in Entries : ~ (disk[e] \in Responses /\ disk[e].marked)
    BY <1>2, <1>4 DEF CacheInv, EraseInv, Ahead
  <2> QED BY <1>3, <2>1, <2>2 DEF EraseInv
<1> QED BY <1>2, <1>3, <1>4, SweepMoves

\* The end of the purge, and a crash, take the marks away.
LEMMA MarksGo ==
    ASSUME CacheInv, disk' = Marked({}), caller' \in [Callers -> CallerState],
           \A c \in Callers : caller'[c] \in {caller[c], Waiting},
           job' \in [Jobs -> SweepState], \A k \in Jobs : job'[k] \in {job[k], Resting},
           job'["purge"] = Resting, UNCHANGED <<now, stores>>, crashes' \in Nat
    PROVE  CacheInv'
<1>0. disk \in [Entries -> Files] /\ job \in [Jobs -> SweepState]
  BY DEF CacheInv, CacheTypeOK
<1>1. /\ disk' \in [Entries -> Files]
      /\ \A e \in Entries :
           /\ disk'[e] \in Responses <=> disk[e] \in Responses
           /\ disk'[e] = Link <=> disk[e] = Link
           /\ disk[e] \in Responses => disk'[e].whole = disk[e].whole
  BY <1>0, MarkedFiles
<1>2. CacheTypeOK'
  BY <1>1 DEF CacheInv, CacheTypeOK
<1>3. WholeInv'
  BY <1>1 DEF CacheInv, WholeInv, Waiting
<1>4. ListInv'
  BY <1>0, <1>1 DEF CacheInv, ListInv, Resting, SweepState, Found
<1>5. EraseInv'
  BY DEF EraseInv, Resting
<1> QED BY <1>2, <1>3, <1>4, <1>5 DEF CacheInv

LEMMA JobEndsInv ==
    ASSUME CacheInv, NEW j \in Jobs, JobEnds(j)
    PROVE  CacheInv'
<1>0. /\ job \in [Jobs -> SweepState] /\ caller \in [Callers -> CallerState] /\ crashes \in Nat
      /\ Resting \in SweepState /\ Resting.list = {}
  BY RestStates DEF CacheInv, CacheTypeOK, Resting
<1>1. job' = [job EXCEPT ![j] = Resting] /\ UNCHANGED <<caller, now, stores, crashes>>
  BY DEF JobEnds
<1>2. CASE j = "purge"
  <2>1. disk' = Marked({}) /\ job'["purge"] = Resting /\ job' \in [Jobs -> SweepState]
    BY <1>0, <1>1, <1>2 DEF JobEnds
  <2>2. \A k \in Jobs : job'[k] \in {job[k], Resting}
    BY <1>0, <1>1
  <2> QED BY <1>0, <1>1, <2>1, <2>2, MarksGo
<1>3. CASE j # "purge"
  <2>1. UNCHANGED disk
    BY <1>3 DEF JobEnds
  <2> QED BY <1>0, <1>1, <1>3, <2>1, SweepMoves
<1> QED BY <1>2, <1>3

LEMMA CacheCrashInv ==
    ASSUME CacheInv, CacheCrash
    PROVE  CacheInv'
<1>1. crashes \in Nat /\ "purge" \in Jobs
  BY DEF CacheInv, CacheTypeOK, Jobs
<1>2. /\ disk' = Marked({}) /\ caller' = [c \in Callers |-> Waiting] /\ job' = [j \in Jobs |-> Resting]
      /\ UNCHANGED <<now, stores>> /\ crashes' \in Nat
  BY <1>1 DEF CacheCrash
<1> QED BY <1>1, <1>2, MarksGo, RestStates

LEMMA RepairInv ==
    ASSUME CacheInv, NEW e \in Entries, Repair(e)
    PROVE  CacheInv'
<1>1. /\ disk' \in [Entries -> Files]
      /\ \A d \in Entries : disk'[d] \in Responses => disk'[d] = disk[d]
      /\ \A d \in Entries : disk[d] # Link => disk'[d] # Link
  BY FileGoes DEF Repair
<1>2. UNCHANGED <<caller, job, now, stores, crashes>>
  BY DEF Repair
<1>3. CacheTypeOK'
  BY <1>1, <1>2 DEF CacheInv, CacheTypeOK
<1>4. WholeInv'
  BY <1>1, <1>2 DEF CacheInv, WholeInv
<1>5. ListInv'
  BY <1>1, <1>2 DEF CacheInv, CacheTypeOK, ListInv, SweepState, Found
<1>6. EraseInv'
  BY <1>1, <1>2 DEF CacheInv, EraseInv, Ahead
<1> QED BY <1>3, <1>4, <1>5, <1>6 DEF CacheInv

----------------------------------------------------------------------------
(* The theorems.                                                           *)

LEMMA InitCacheInv == CacheInit => CacheInv
<1> SUFFICES ASSUME CacheInit PROVE CacheInv
  OBVIOUS
<1>1. disk \in [Entries -> Files] /\ \A e \in Entries : disk[e] \notin Responses
  BY FileKinds DEF CacheInit, Files
<1>2. CacheTypeOK
  BY <1>1, RestStates DEF CacheInit, CacheTypeOK
<1>3. WholeInv
  BY <1>1 DEF CacheInit, WholeInv, Waiting
<1>4. ListInv /\ EraseInv
  BY <1>1 DEF CacheInit, ListInv, EraseInv, Resting, Jobs
<1> QED BY <1>2, <1>3, <1>4 DEF CacheInv

LEMMA NextCacheInv == CacheInv /\ [CacheNext]_vars => CacheInv'
<1> SUFFICES ASSUME CacheInv, [CacheNext]_vars PROVE CacheInv'
  OBVIOUS
<1>1. CASE UNCHANGED <<disk, caller, job, stores, crashes>> /\ now' \in Nat
  <2>1. CacheTypeOK' /\ WholeInv'
    BY <1>1 DEF CacheInv, CacheTypeOK, WholeInv
  <2>2. ListInv' /\ EraseInv'
    BY <1>1 DEF CacheInv, ListInv, EraseInv, Ahead
  <2> QED BY <2>1, <2>2 DEF CacheInv
<1>2. CASE UNCHANGED vars \/ Tick
  BY <1>1, <1>2 DEF vars, Tick, CacheInv, CacheTypeOK
<1>3. ASSUME NEW c \in Callers,
             \/ \E e \in Entries : LoadCheck(c, e)
             \/ LoadRead(c)
             \/ \E e \in Entries, o \in Owners : StoreOpen(c, e, o)
             \/ \E ok \in BOOLEAN : StoreWrite(c, ok)
             \/ StoreRename(c)
             \/ CallerEnds(c)
      PROVE  CacheInv'
  BY <1>3, LoadInv, StoreInv, RenameInv
<1>4. ASSUME NEW j \in Jobs, (\E e \in Entries : WalkFile(j, e)) \/ JobDone(j) \/ JobEnds(j)
      PROVE  CacheInv'
  BY <1>4, WalkFileInv, JobDoneInv, JobEndsInv
<1> QED BY <1>2, <1>3, <1>4, StartPruneInv, StartPurgeInv, PruneFileInv, PurgeReadInv,
           PurgeRemoveInv, CacheCrashInv, RepairInv DEF CacheNext

\* The invariant of the response cache: entry files are whole, and what a
\* purge has to erase is still before it (DirResponseCache).
THEOREM CacheInvariant == CacheSpec => []CacheInv
<1> QED BY InitCacheInv, NextCacheInv, PTL DEF CacheSpec

\* A load returns a response that was written to its end, for any number of
\* callers, entries, sweeps and crashes (load, store: temporary file, rename).
THEOREM LoadsAreWhole == CacheSpec => []LoadsWhole
<1>1. CacheInv => LoadsWhole
  BY DEF CacheInv, WholeInv, LoadsWhole, Responses
<1> QED BY <1>1, CacheInvariant, PTL

\* A purge that reports success has erased every response of the owner that
\* was there when it began (purge).
THEOREM ErasureIsComplete == CacheSpec => []ErasureComplete
<1>1. ASSUME CacheInv, job["purge"].pc = "done", NEW e \in Entries, disk[e].is = "response"
      PROVE  ~ disk[e].marked
  <2>1. disk[e] \in Responses
    BY <1>1, FileKinds DEF CacheInv, CacheTypeOK
  <2> QED BY <1>1, <2>1 DEF CacheInv, EraseInv, Ahead
<1>2. CacheInv => ErasureComplete
  BY <1>1 DEF ErasureComplete
<1> QED BY <1>2, CacheInvariant, PTL

----------------------------------------------------------------------------
(* Queued providers.                                                       *)

Errors == {"lease", "ledger", "completed", "reconcile", "attempts", "spend", "queue", "provider"}
Attempts == 1..LogicalAttempts
AllOutcomes == Answered \cup KnownZero \cup {"unsure", "unsure_transient"}
Results == {"answer", "error", "retry", "missing", "notclaimed"}

\* The records of an item, a plan, an attempt's task and a call.
ItemState ==
    [request : Requests, status : {"Pending", "Running", "Failed"} \cup Terminal,
     attempt : 0..LogicalAttempts, max : Attempts, used : Nat, owner : Processes \cup {NULL},
     lapsed : BOOLEAN, later : BOOLEAN, error : Errors \cup {NULL}, budget : Ids]
PlanState == [max : Attempts, used : Nat, delayed : BOOLEAN, budget : Ids \cup {NULL}]
TaskState ==
    [pc : Claimed \cup {"idle", "inspect", "reconsider", "replace", "claim", "chain", "done"},
     item : Ids \cup {NULL}, attempt : Attempts \cup {NULL}, seen : ItemState \cup {NULL},
     plan : PlanState \cup {NULL}, reserved : BOOLEAN, lost : BOOLEAN,
     outcome : AllOutcomes \cup {NULL}, error : Errors \cup {NULL},
     close : {"complete", "stop", "retry", NULL}, result : Results \cup {NULL}]
Following == {"loop", "permit", "throttle", "await", "follow", "decide", "replace", "reenqueue"}
CallState ==
    [request : Requests, pc : {"new", "enqueue", "ended", "gone"} \cup Following,
     item : Ids \cup {NULL}, seen : ItemState \cup {NULL}, joined : BOOLEAN,
     plan : PlanState \cup {NULL}, end : {"answer", "error", NULL}]
EnvState == [issued : Nat, troubles : Nat, evicted : BOOLEAN, lapsed : BOOLEAN]

ProviderTypeOK ==
    /\ items \in [Ids -> ItemState \cup {NULL}] /\ receipts \in [Refs -> Receipt \cup {NULL}]
    /\ latest \in [Requests -> Refs \cup {NULL}]
    /\ call \in [Calls -> CallState] /\ task \in [Calls -> TaskState]
    /\ tokens \in [Processes -> Nat] /\ gate \in [Processes -> Calls \cup {NULL}]
    /\ env \in EnvState

\* A call that follows an item has one, and what it decides on is a row and
\* a plan.
CallOK(k) ==
    /\ k.pc \in Following => k.item \in Ids
    /\ k.pc = "decide" => k.seen \in ItemState
    /\ k.pc = "replace" => k.plan \in PlanState

\* The attempt's task: from the claim on it has an item, an attempt and the
\* row it was granted; and nobody hands out that attempt of the item again.
RefOf(t) == <<t.item, t.attempt>>
Unreserved == {"inspect", "reconsider", "claim", "recover", "reserve", "refused"}
FlowOK(t) ==
    /\ t.pc # "idle" => t.item \in Ids
    /\ t.pc \in {"reconsider", "chain"} \cup Claimed => t.seen \in ItemState
    /\ t.pc \in Claimed => t.attempt \in Attempts
    /\ t.pc = "replace" => t.plan \in PlanState
    /\ t.pc = "record" => t.outcome \in AllOutcomes
    /\ t.pc \in Unreserved => ~ t.reserved
ClaimOK(t) ==
    t.pc \in Claimed =>
        /\ t.item <= env.issued
        /\ items[t.item] # NULL => t.attempt <= items[t.item].attempt

\* Before the send nothing was sent under the attempt's reference, and the
\* reservation is an open one of the request until the answer is recorded.
Presend == {"recover", "reserve", "heartbeat", "refused", "charge", "boundary", "abort"}
Holder(t) ==
    \/ t.pc \in {"charge", "boundary", "sending", "record"}
    \/ t.pc \in {"heartbeat", "abort"} /\ t.reserved
Open(f, r) ==
    /\ receipts[f] # NULL /\ receipts[f].request = r /\ receipts[f].state = "Unknown"
    /\ ~ receipts[f].pre /\ ~ receipts[f].output
SentRefs == {s[1] : s \in sent}
SpendOK(t, r) ==
    /\ t.pc \in Presend => RefOf(t) \notin SentRefs
    /\ t.pc \in {"recover", "reserve"} => receipts[RefOf(t)] = NULL
    /\ Holder(t) => Open(RefOf(t), r)

\* The gate of the process is its task's until the rate is charged.
Clearing == {"inspect", "reconsider", "claim", "recover", "reserve", "heartbeat", "charge"}
GateInv ==
    /\ \A c \in Calls : task[c].pc \in Clearing => gate[ProcessOf[c]] = c
    /\ \A p \in Processes : gate[p] # NULL => tokens[p] >= 1

\* References are handed out once.
RefInv ==
    /\ \A i \in Ids : items[i] # NULL => i <= env.issued
    /\ \A f \in Refs : receipts[f] # NULL =>
         /\ f[1] <= env.issued
         /\ items[f[1]] # NULL => f[2] <= items[f[1]].attempt
    /\ \A c, d \in Calls : c # d /\ task[c].pc \in Claimed /\ task[d].pc \in Claimed =>
         RefOf(task[c]) # RefOf(task[d])

\* What was sent has a receipt that is not released as unsent.
SentInv ==
    /\ \A s \in sent : s[1] \in Refs /\ receipts[s[1]] # NULL /\ ~ receipts[s[1]].pre
    /\ \A s, t \in sent : s[1] = t[1] => s = t

\* The ledger of a request: whatever is not its latest receipt is settled,
\* and released if it is explicit; the latest one of an explicit request
\* counts those that may have reached the provider.
Counted(r) == {f \in RefsOf(r) : ~ receipts[f].pre}
LedgerOf(r) ==
    /\ latest[r] = NULL => RefsOf(r) = {}
    /\ latest[r] # NULL => latest[r] \in RefsOf(r)
    /\ \A f \in RefsOf(r) : f # latest[r] =>
         receipts[f].state # "Unknown" /\ (r \in Explicit => receipts[f].state = "Released")
    /\ r \in Explicit =>
         /\ AttemptsUsed(r) = Cardinality(Counted(r))
         /\ AttemptsUsed(r) <= LogicalAttempts

\* The inductive invariant.
ProviderInv ==
    /\ ProviderTypeOK /\ GateInv /\ RefInv /\ SentInv
    /\ \A c \in Calls : /\ CallOK(call[c]) /\ FlowOK(task[c]) /\ ClaimOK(task[c])
                        /\ SpendOK(task[c], RequestOf(c))
    /\ \A r \in Requests : LedgerOf(r)

----------------------------------------------------------------------------
(* Numbers, references and plans.                                          *)

LEMMA Parameters ==
    /\ LogicalAttempts \in Nat \ {0} /\ RetryAttempts \in Nat \ {0} /\ RateCapacity \in Nat \ {0}
    /\ MaxItems \in Nat /\ Attempts \subseteq Nat /\ Ids \subseteq Nat /\ Explicit \subseteq Requests
    /\ ProcessOf \in [Calls -> Processes]
BY ProviderAssumption DEF Attempts, Ids

LEMMA MinPair ==
    ASSUME NEW a \in Int, NEW b \in Int
    PROVE  Min({a, b}) \in {a, b} /\ Min({a, b}) <= a /\ Min({a, b}) <= b
<1>1. \E x \in {a, b} : \A y \in {a, b} : x <= y
  OBVIOUS
<1>2. PICK m : m = Min({a, b}) /\ m \in {a, b} /\ \A y \in {a, b} : m <= y
  BY <1>1 DEF Min
<1> QED BY <1>2

LEMMA MaxOfIds ==
    ASSUME NEW S \in SUBSET Ids, S # {}
    PROVE  Max(S) \in S
<1> DEFINE T == {MaxItems - x : x \in S}
<1>1. T \subseteq Nat /\ T # {}
  <2>1. \A x \in S : x \in 1..MaxItems
    BY DEF Ids
  <2>2. \A x \in S : MaxItems - x \in Nat
    BY <2>1, Parameters
  <2> QED BY <2>2
<1>2. PICK m \in T : \A y \in T : ~(<<y, m>> \in OpToRel(<, Nat))
  <2> HIDE DEF T
  <2> QED BY <1>1, NatLessThanWellFounded, WFMin, Zenon
<1>3. PICK x \in S : m = MaxItems - x
  OBVIOUS
<1>4. \A y \in S : x >= y
  <2> TAKE y \in S
  <2>1. MaxItems - y \in T /\ m \in Nat /\ MaxItems - y \in Nat
    BY <1>1
  <2>2. ~ (MaxItems - y < m)
    BY <1>2, <2>1 DEF OpToRel
  <2>3. x \in Nat /\ y \in Nat /\ MaxItems \in Nat
    BY Parameters
  <2> HIDE DEF T
  <2> QED BY <1>3, <2>1, <2>2, <2>3
<1> QED BY <1>3, <1>4 DEF Max

LEMMA NewestStored ==
    ASSUME NEW r, Newest(r) # NULL
    PROVE  Newest(r) \in Ids /\ items[Newest(r)] # NULL
<1>1. Stored(r) # {} /\ Newest(r) = Max(Stored(r)) /\ Stored(r) \in SUBSET Ids
  BY DEF Newest, Stored
<1>2. Newest(r) \in Stored(r)
  BY <1>1, MaxOfIds
<1> QED BY <1>2 DEF Stored

\* What the ledger counts for a request is a number.
LEMMA UsedIsNatural ==
    ASSUME ProviderTypeOK, NEW r \in Requests, LedgerOf(r)
    PROVE  AttemptsUsed(r) \in Nat
<1>1. CASE latest[r] # NULL
  <2>1. latest[r] \in Refs /\ receipts[latest[r]] # NULL /\ receipts[latest[r]] \in Receipt \cup {NULL}
    BY <1>1 DEF LedgerOf, RefsOf, ProviderTypeOK
  <2> QED BY <1>1, <2>1 DEF AttemptsUsed, LatestReceipt, Receipt
<1> QED BY <1>1 DEF AttemptsUsed

LEMMA UsedSoFarIsNatural ==
    ASSUME ProviderTypeOK, \A r \in Requests : LedgerOf(r), NEW i, NEW item \in ItemState
    PROVE  UsedSoFar(i, item) \in Nat
<1>1. item.request \in Requests /\ item.used \in Nat /\ item.attempt \in Nat
  BY Parameters DEF ItemState
<1>2. AttemptsUsed(item.request) \in Nat
  BY <1>1, UsedIsNatural
<1>3. ProviderAttempts(i, item.attempt) \in Nat
  <2>1. IsFiniteSet(1..item.attempt)
    BY <1>1, FS_Interval
  <2>2. IsFiniteSet({a \in 1..item.attempt : ~AttemptUnused(<<i, a>>)})
    BY <2>1, FS_Subset
  <2> QED BY <2>2, FS_CardinalityType DEF ProviderAttempts
<1> QED BY <1>1, <1>2, <1>3 DEF UsedSoFar

LEMMA FreshPlanType == FreshPlan \in PlanState /\ ItemAttempts \in Attempts
<1>1. ItemAttempts \in {RetryAttempts, LogicalAttempts} /\ ItemAttempts <= LogicalAttempts
  <2>1. RetryAttempts \in Int /\ LogicalAttempts \in Int
    BY Parameters
  <2> QED BY <2>1, MinPair DEF ItemAttempts
<1>2. ItemAttempts \in Attempts
  BY <1>1, Parameters DEF Attempts
<1> QED BY <1>2 DEF FreshPlan, PlanState

LEMMA RemainingAttempts ==
    ASSUME NEW used \in Nat, used < LogicalAttempts, NEW most \in Nat \ {0}
    PROVE  Min({LogicalAttempts - used, most}) \in Attempts
<1>1. LogicalAttempts - used \in Int /\ most \in Int /\ LogicalAttempts \in Nat
  BY Parameters
<1>2. PICK m : /\ m = Min({LogicalAttempts - used, most}) /\ m \in {LogicalAttempts - used, most}
               /\ m <= LogicalAttempts - used
  BY <1>1, MinPair
<1>3. m \in Int /\ m >= 1 /\ m <= LogicalAttempts
  BY <1>1, <1>2
<1> QED BY <1>2, <1>3 DEF Attempts

LEMMA PlanTypes ==
    ASSUME ProviderTypeOK, \A r \in Requests : LedgerOf(r), NEW i, NEW item \in ItemState,
           NEW renewed \in BOOLEAN
    PROVE  /\ Reconsidered(i, item, renewed) \in PlanState \cup {NULL}
           /\ Continued(i, item) \in PlanState \cup {NULL}
<1>1. PICK used : used = UsedSoFar(i, item) /\ used \in Nat
  BY UsedSoFarIsNatural
<1>2. item.budget \in Ids /\ ItemAttempts \in Nat \ {0} /\ RetryAttempts \in Nat \ {0}
  BY FreshPlanType, Parameters DEF ItemState, Attempts
<1>3. ASSUME used < LogicalAttempts, NEW most \in Nat \ {0}, NEW delayed \in BOOLEAN
      PROVE  Plan(item, used, Min({LogicalAttempts - used, most}), delayed) \in PlanState
  BY <1>1, <1>2, <1>3, RemainingAttempts DEF Plan, PlanState
<1>4. Reconsidered(i, item, renewed) \in PlanState \cup {NULL}
  BY <1>1, <1>2, <1>3, FreshPlanType DEF Reconsidered
<1>5. Continued(i, item) \in PlanState \cup {NULL}
  <2>1. ~ (used >= LogicalAttempts) => used < LogicalAttempts
    BY <1>1, Parameters
  <2> QED BY <1>1, <1>2, <1>3, <2>1 DEF Continued
<1> QED BY <1>4, <1>5

LEMMA DecisionTypes ==
    ASSUME ProviderTypeOK, \A r \in Requests : LedgerOf(r), NEW r, NEW i, NEW item \in ItemState,
           NEW joined \in BOOLEAN, NEW renewed \in BOOLEAN
    PROVE  /\ Decision(r, i, item, joined, renewed).plan \in PlanState \cup {NULL}
           /\ Decision(r, i, item, joined, renewed).do = "replace" =>
                Decision(r, i, item, joined, renewed).plan \in PlanState
           /\ Decision(r, i, item, joined, renewed).do \in {"replace", "error", "answer", "wait"}
<1>1. /\ Reconsidered(i, item, renewed) \in PlanState \cup {NULL}
      /\ Continued(i, item) \in PlanState \cup {NULL} /\ FreshPlan \in PlanState
  BY PlanTypes, FreshPlanType
<1> QED BY <1>1 DEF Decision

----------------------------------------------------------------------------
(* Steps that leave the ledger alone.                                      *)

\* The rows of the queue only move on: a row stays, goes, or is replaced by
\* one with at least as many attempts; new ones have new numbers.
Carried(new, n) ==
    /\ new \in [Ids -> ItemState \cup {NULL}] /\ n \in Nat /\ n >= env.issued
    /\ \A i \in Ids : new[i] # NULL =>
         /\ i <= n
         /\ i <= env.issued => items[i] # NULL /\ new[i].attempt >= items[i].attempt

\* A task goes on with its claim, or without one.
Inherits(t, n) ==
    /\ n.pc \in Claimed => t.pc \in Claimed /\ n.item = t.item /\ n.attempt = t.attempt
    /\ n.pc \in Presend => t.pc \in Presend
    /\ n.pc \in {"recover", "reserve"} => t.pc \in {"recover", "reserve"}
    /\ Holder(n) => Holder(t)

\* The ledger of a request is a matter of receipts alone.
LEMMA LedgerDepends ==
    ASSUME NEW r, LedgerOf(r), UNCHANGED <<receipts, latest>>
    PROVE  LedgerOf(r)'
<1>1. RefsOf(r)' = RefsOf(r) /\ latest' = latest /\ receipts' = receipts
  BY DEF RefsOf
<1>2. Counted(r)' = Counted(r)
  BY <1>1 DEF Counted
<1>3. AttemptsUsed(r)' = AttemptsUsed(r)
  BY <1>1 DEF AttemptsUsed, LatestReceipt
<1> QED BY <1>1, <1>2, <1>3 DEF LedgerOf

LEMMA LedgerKept ==
    ASSUME ProviderInv, task' \in [Calls -> TaskState],
           \A d \in Calls : Inherits(task[d], task'[d]) /\ FlowOK(task'[d]),
           Carried(items', env'.issued), env' \in EnvState,
           call' \in [Calls -> CallState],
           \A d \in Calls : call'[d].request = call[d].request /\ CallOK(call'[d]),
           tokens' \in [Processes -> Nat], gate' \in [Processes -> Calls \cup {NULL}], GateInv',
           UNCHANGED <<receipts, latest, sent>>
    PROVE  ProviderInv'
<1>1. ProviderTypeOK'
  BY DEF ProviderInv, ProviderTypeOK, Carried
<1>2. RefInv'
  <2>0. /\ \A f \in Refs : f[1] \in Ids /\ f[1] \in Nat /\ f[2] \in Nat
        /\ \A i \in Ids : items'[i] # NULL => items'[i].attempt \in Nat
        /\ \A i \in Ids : items[i] # NULL => items[i].attempt \in Nat
        /\ env.issued \in Nat /\ env'.issued \in Nat /\ env'.issued >= env.issued
    BY Parameters DEF Refs, Ids, Carried, ProviderInv, ProviderTypeOK, ItemState, EnvState
  <2>1. \A i \in Ids : items'[i] # NULL => i <= env'.issued
    BY DEF Carried
  <2>2. ASSUME NEW f \in Refs, receipts[f] # NULL
        PROVE  /\ f[1] <= env'.issued
               /\ items'[f[1]] # NULL => f[2] <= items'[f[1]].attempt
    <3>1. f[1] <= env.issued /\ (items[f[1]] # NULL => f[2] <= items[f[1]].attempt)
      BY <2>2 DEF ProviderInv, RefInv
    <3> QED BY <2>0, <3>1 DEF Carried
  <2>3. ASSUME NEW c \in Calls, NEW d \in Calls, c # d, task'[c].pc \in Claimed, task'[d].pc \in Claimed
        PROVE  RefOf(task'[c]) # RefOf(task'[d])
    BY <2>3 DEF Inherits, RefOf, ProviderInv, RefInv
  <2> QED BY <2>1, <2>2, <2>3 DEF RefInv, RefOf
<1>3. SentInv'
  BY DEF ProviderInv, SentInv
<1>4. ASSUME NEW d \in Calls PROVE ClaimOK(task[d])' /\ SpendOK(task[d], RequestOf(d))'
  <2>0. task'[d] \in TaskState /\ FlowOK(task'[d]) /\ Inherits(task[d], task'[d])
    OBVIOUS
  <2>1. ClaimOK(task[d])'
    <3> SUFFICES ASSUME task'[d].pc \in Claimed
                 PROVE  /\ task'[d].item <= env'.issued
                        /\ items'[task'[d].item] # NULL =>
                             task'[d].attempt <= items'[task'[d].item].attempt
      BY DEF ClaimOK
    <3>1. /\ task'[d].item = task[d].item /\ task'[d].attempt = task[d].attempt
          /\ task[d].item <= env.issued /\ task[d].item \in Ids /\ task[d].attempt \in Attempts
          /\ items[task[d].item] # NULL => task[d].attempt <= items[task[d].item].attempt
      <4>1. ClaimOK(task[d]) /\ FlowOK(task[d])
        BY DEF ProviderInv
      <4>2. /\ task'[d].item = task[d].item /\ task'[d].attempt = task[d].attempt
            /\ task[d].pc \in Claimed
        BY <2>0 DEF Inherits
      <4> QED BY <4>1, <4>2 DEF FlowOK, ClaimOK, Claimed
    <3>2. /\ env.issued \in Nat /\ env'.issued \in Nat /\ env'.issued >= env.issued
          /\ task[d].item \in Nat /\ task[d].attempt \in Nat
      BY <3>1, Parameters DEF Carried, ProviderInv, ProviderTypeOK, EnvState
    <3>3. /\ items'[task[d].item] # NULL => items'[task[d].item].attempt \in Nat
          /\ items[task[d].item] # NULL => items[task[d].item].attempt \in Nat
      <4>1. /\ items[task[d].item] \in ItemState \cup {NULL}
            /\ items'[task[d].item] \in ItemState \cup {NULL}
        BY <3>1 DEF Carried, ProviderInv, ProviderTypeOK
      <4> QED BY <4>1, Parameters DEF ItemState
    <3> QED BY <3>1, <3>2, <3>3 DEF Carried
  <2>2. SpendOK(task[d], RequestOf(d))'
    <3>1. SpendOK(task[d], call[d].request) /\ call'[d].request = call[d].request
      BY DEF ProviderInv, RequestOf
    <3>2. task'[d].pc \in Presend \/ Holder(task'[d]) => RefOf(task'[d]) = RefOf(task[d])
      BY <2>0 DEF Inherits, Presend, Holder, Claimed, RefOf
    <3> QED BY <2>0, <3>1, <3>2 DEF SpendOK, Open, SentRefs, RequestOf, Holder, Inherits, RefOf, Presend
  <2> QED BY <2>1, <2>2
<1>5. ASSUME NEW r \in Requests PROVE LedgerOf(r)'
  BY LedgerDepends DEF ProviderInv
<1> QED BY <1>1, <1>2, <1>3, <1>4, <1>5 DEF ProviderInv

LEMMA InvTypes ==
    ASSUME ProviderInv
    PROVE  /\ items \in [Ids -> ItemState \cup {NULL}] /\ receipts \in [Refs -> Receipt \cup {NULL}]
           /\ latest \in [Requests -> Refs \cup {NULL}]
           /\ call \in [Calls -> CallState] /\ task \in [Calls -> TaskState]
           /\ tokens \in [Processes -> Nat] /\ gate \in [Processes -> Calls \cup {NULL}]
           /\ env \in EnvState /\ env.issued \in Nat /\ env.troubles \in Nat
           /\ ProviderTypeOK /\ GateInv /\ RefInv /\ SentInv
           /\ \A c \in Calls : CallOK(call[c]) /\ FlowOK(task[c]) /\ RequestOf(c) \in Requests
           /\ \A r \in Requests : LedgerOf(r)
BY DEF ProviderInv, ProviderTypeOK, EnvState, RequestOf, CallState

LEMMA GateSame ==
    ASSUME ProviderInv, \A d \in Calls : task'[d].pc \in Clearing => task[d].pc \in Clearing,
           UNCHANGED <<gate, tokens>>
    PROVE  /\ GateInv' /\ tokens' \in [Processes -> Nat]
           /\ gate' \in [Processes -> Calls \cup {NULL}]
BY InvTypes DEF GateInv

\* A task that leaves gives back the gate it holds, and no other.
LEMMA GateLeft ==
    ASSUME ProviderInv, NEW c \in Calls, task'[c].pc \notin Clearing,
           \A d \in Calls : d # c => task'[d] = task[d],
           gate' = [p \in Processes |-> IF gate[p] = c THEN NULL ELSE gate[p]], UNCHANGED tokens
    PROVE  /\ GateInv' /\ tokens' \in [Processes -> Nat]
           /\ gate' \in [Processes -> Calls \cup {NULL}]
<1>1. /\ gate \in [Processes -> Calls \cup {NULL}] /\ tokens \in [Processes -> Nat] /\ GateInv
      /\ ProcessOf \in [Calls -> Processes]
  BY InvTypes, Parameters
<1> QED BY <1>1 DEF GateInv

LEMMA InheritsSelf == ASSUME NEW t PROVE Inherits(t, t)
BY DEF Inherits

\* A call moves, and the tasks and limits stay.
LEMMA CallMoves ==
    ASSUME ProviderInv, NEW c \in Calls, NEW n \in CallState, n.request = RequestOf(c), CallOK(n),
           call' = [call EXCEPT ![c] = n], Carried(items', env'.issued), env' \in EnvState,
           UNCHANGED <<task, receipts, latest, sent, tokens, gate>>
    PROVE  ProviderInv'
<1>1. \A d \in Calls : Inherits(task[d], task'[d]) /\ FlowOK(task'[d])
  BY InheritsSelf, InvTypes
<1>2. /\ call' \in [Calls -> CallState]
      /\ \A d \in Calls : call'[d].request = call[d].request /\ CallOK(call'[d])
  BY InvTypes DEF RequestOf
<1>3. GateInv' /\ tokens' \in [Processes -> Nat] /\ gate' \in [Processes -> Calls \cup {NULL}]
  BY GateSame
<1>4. task' \in [Calls -> TaskState]
  BY InvTypes
<1> QED BY <1>1, <1>2, <1>3, <1>4, LedgerKept

----------------------------------------------------------------------------
(* The rows of the queue.                                                  *)

LEMMA CarriedSame == ASSUME ProviderInv PROVE Carried(items, env.issued)
<1>1. \A i \in Ids : items[i] # NULL => i <= env.issued /\ items[i].attempt \in Nat
  BY InvTypes, Parameters DEF RefInv, ItemState
<1> QED BY <1>1, InvTypes DEF Carried

LEMMA CarriedChange ==
    ASSUME ProviderInv, NEW i \in Ids, items[i] # NULL, NEW x \in ItemState,
           x.attempt >= items[i].attempt
    PROVE  Carried([items EXCEPT ![i] = x], env.issued)
<1>1. PICK new : new = [items EXCEPT ![i] = x]
  OBVIOUS
<1>2. /\ new \in [Ids -> ItemState \cup {NULL}] /\ new[i] = x
      /\ \A j \in Ids : j # i => new[j] = items[j]
  BY <1>1, InvTypes
<1>3. Carried(items, env.issued)
  BY CarriedSame
<1> QED BY <1>1, <1>2, <1>3 DEF Carried

LEMMA ReclaimedType ==
    ASSUME NEW item \in ItemState \cup {NULL}
    PROVE  /\ ReclaimedItem(item) \in ItemState \cup {NULL}
           /\ item = NULL => ReclaimedItem(item) = NULL
           /\ item # NULL => /\ ReclaimedItem(item) \in ItemState
                             /\ ReclaimedItem(item).attempt = item.attempt
                             /\ ReclaimedItem(item).max = item.max
<1>1. CASE item # NULL
  <2>1. item \in ItemState
    BY <1>1
  <2>2. PICK status : status = IF item.attempt >= item.max THEN "Dead" ELSE "Failed"
    OBVIOUS
  <2>3. [item EXCEPT !.owner = NULL, !.lapsed = FALSE, !.error = "lease", !.status = status] \in ItemState
    BY <2>1, <2>2 DEF ItemState, Errors, Terminal
  <2>4. \/ ReclaimedItem(item) = item
        \/ ReclaimedItem(item) =
              [item EXCEPT !.owner = NULL, !.lapsed = FALSE, !.error = "lease", !.status = status]
    BY <2>2 DEF ReclaimedItem
  <2> QED BY <1>1, <2>1, <2>3, <2>4 DEF ItemState
<1>2. CASE item = NULL
  BY <1>2 DEF ReclaimedItem
<1> QED BY <1>1, <1>2

LEMMA CarriedReclaimed == ASSUME ProviderInv PROVE Carried(Reclaimed, env.issued)
<1>1. /\ \A i \in Ids : items[i] \in ItemState \cup {NULL} /\ Reclaimed[i] = ReclaimedItem(items[i])
      /\ Carried(items, env.issued)
  BY InvTypes, CarriedSame DEF Reclaimed
<1>2. Reclaimed \in [Ids -> ItemState \cup {NULL}]
  BY <1>1, ReclaimedType DEF Reclaimed
<1>3. \A i \in Ids : Reclaimed[i] # NULL =>
        items[i] # NULL /\ Reclaimed[i].attempt = items[i].attempt /\ items[i].attempt \in Nat
  BY <1>1, ReclaimedType, Parameters DEF ItemState
<1> QED BY <1>1, <1>2, <1>3 DEF Carried

LEMMA InsertType ==
    ASSUME NEW r \in Requests, NEW plan \in PlanState, NEW i \in Ids
    PROVE  Insert(r, plan, i) \in ItemState /\ Insert(r, plan, i).attempt = 0
<1>1. PICK b \in Ids : b = IF plan.budget = NULL THEN i ELSE plan.budget
  BY DEF PlanState
<1>2. 0 \in 0..LogicalAttempts
  BY Parameters
<1> QED BY <1>1, <1>2 DEF Insert, NewItem, ItemState, PlanState

LEMMA CarriedInsert ==
    ASSUME ProviderInv, NEW r \in Requests, NEW plan \in PlanState, env.issued + 1 \in Ids
    PROVE  Carried([items EXCEPT ![env.issued + 1] = Insert(r, plan, env.issued + 1)], env.issued + 1)
<1>1. PICK i \in Ids : i = env.issued + 1
  OBVIOUS
<1>2. PICK x : x = Insert(r, plan, i) /\ x \in ItemState
  BY InsertType
<1>3. PICK new : new = [items EXCEPT ![i] = x]
  OBVIOUS
<1>4. /\ new \in [Ids -> ItemState \cup {NULL}] /\ new[i] = x
      /\ \A j \in Ids : j # i => new[j] = items[j]
  BY <1>2, <1>3, InvTypes
<1>5. Carried(items, env.issued) /\ env.issued \in Nat /\ i \in Nat
  BY CarriedSame, InvTypes, Parameters
<1>6. ASSUME NEW j \in Ids, new[j] # NULL
      PROVE  j <= i /\ (j <= env.issued => items[j] # NULL /\ new[j].attempt >= items[j].attempt)
  <2>1. CASE j = i
    BY <1>1, <1>5, <2>1
  <2>2. CASE j # i
    <3>1. j \in Nat
      BY Parameters
    <3> QED BY <1>1, <1>4, <1>5, <1>6, <2>2, <3>1 DEF Carried
  <2> QED BY <2>1, <2>2
<1>7. i >= env.issued
  BY <1>1, <1>5
<1>8. Carried(new, i)
  BY <1>4, <1>5, <1>6, <1>7 DEF Carried
<1> QED BY <1>1, <1>2, <1>3, <1>8

LEMMA CarriedReplacement ==
    ASSUME ProviderInv, NEW r \in Requests, NEW plan \in PlanState, NEW current,
           env.issued + 1 \in Ids
    PROVE  Carried(Replacement(r, plan, current, env.issued + 1), env.issued + 1)
<1>1. PICK i \in Ids : i = env.issued + 1
  OBVIOUS
<1>2. PICK new : new = Replacement(r, plan, current, i)
  OBVIOUS
<1>3. Carried(items, env.issued) /\ env.issued \in Nat /\ i \in Nat
      /\ items \in [Ids -> ItemState \cup {NULL}]
  BY CarriedSame, InvTypes, Parameters
<1>4. new[i] \in ItemState
  BY <1>2, InsertType DEF Replacement
<1>5. ASSUME NEW j \in Ids, j # i
      PROVE  /\ new[j] \in ItemState \cup {NULL}
             /\ new[j] # NULL => items[j] # NULL /\ new[j].attempt = items[j].attempt
  <2>1. \/ new[j] = items[j]
        \/ items[j] # NULL /\ new[j] = [items[j] EXCEPT !.status = "Stopped"]
    BY <1>2, <1>5 DEF Replacement
  <2> QED BY <1>3, <2>1 DEF ItemState, Terminal
<1>6. new \in [Ids -> ItemState \cup {NULL}]
  <2>1. new = [j \in Ids |-> new[j]]
    BY <1>2 DEF Replacement
  <2> QED BY <1>4, <1>5, <2>1
<1>7. ASSUME NEW j \in Ids, new[j] # NULL
      PROVE  j <= i /\ (j <= env.issued => items[j] # NULL /\ new[j].attempt >= items[j].attempt)
  <2>0. j \in Nat
    BY Parameters
  <2>1. CASE j = i
    BY <1>1, <1>3, <2>1
  <2>2. CASE j # i
    <3>1. items[j] # NULL /\ new[j].attempt = items[j].attempt
      BY <1>5, <1>7, <2>2
    <3>2. j <= env.issued /\ items[j].attempt \in Nat
      BY <1>3, <3>1, Parameters DEF Carried, ItemState
    <3> QED BY <1>1, <1>3, <2>0, <3>1, <3>2
  <2> QED BY <2>1, <2>2
<1>8. Carried(new, i)
  BY <1>1, <1>3, <1>6, <1>7 DEF Carried
<1> QED BY <1>1, <1>2, <1>8

\* What a plan leads to.
LEMMA FollowedRows ==
    ASSUME ProviderInv, NEW r \in Requests, NEW plan \in PlanState, NEW current,
           Followed(r, plan, current).item \in Ids
    PROVE  /\ Carried(Followed(r, plan, current).items, Followed(r, plan, current).issued)
           /\ [env EXCEPT !.issued = Followed(r, plan, current).issued] \in EnvState
           /\ [env EXCEPT !.issued = Followed(r, plan, current).issued].issued
                = Followed(r, plan, current).issued
<1>1. CASE Replaces(r, current)
  <2>1. /\ Followed(r, plan, current).item = env.issued + 1
        /\ Followed(r, plan, current).items = Replacement(r, plan, current, env.issued + 1)
        /\ Followed(r, plan, current).issued = env.issued + 1
    BY <1>1 DEF Followed
  <2>2. env.issued + 1 \in Ids /\ env.issued \in Nat /\ env \in EnvState
    BY <2>1, InvTypes
  <2> QED BY <2>1, <2>2, CarriedReplacement DEF EnvState
<1>2. CASE ~ Replaces(r, current)
  <2>1. /\ Followed(r, plan, current).items = items
        /\ Followed(r, plan, current).issued = env.issued
    BY <1>2 DEF Followed
  <2> QED BY <2>1, InvTypes, CarriedSame DEF EnvState
<1> QED BY <1>1, <1>2

----------------------------------------------------------------------------
(* The steps of a call.                                                    *)

LEMMA EndTypes ==
    ASSUME NEW r \in Requests, NEW pc \in {"ended", "gone"}, NEW e \in {"answer", "error", NULL}
    PROVE  /\ [NewCall(r) EXCEPT !.pc = pc, !.end = e] \in CallState
           /\ [NewCall(r) EXCEPT !.pc = pc, !.end = e].request = r
           /\ CallOK([NewCall(r) EXCEPT !.pc = pc, !.end = e])
           /\ [NewCall(r) EXCEPT !.pc = pc] \in CallState
           /\ [NewCall(r) EXCEPT !.pc = pc].request = r
           /\ CallOK([NewCall(r) EXCEPT !.pc = pc])
BY DEF NewCall, CallState, CallOK, Following

\* A call ends, or goes on from where it is, without a store call.
LEMMA CallEnds ==
    ASSUME ProviderInv, NEW c \in Calls, NEW e \in {"answer", "error", NULL}, Ends(c, e),
           UNCHANGED <<items, env, task, receipts, latest, sent, tokens, gate>>
    PROVE  ProviderInv'
<1>1. PICK n : n = [NewCall(RequestOf(c)) EXCEPT !.pc = "ended", !.end = e]
  OBVIOUS
<1>2. n \in CallState /\ n.request = RequestOf(c) /\ CallOK(n)
  BY <1>1, EndTypes, InvTypes
<1>3. call' = [call EXCEPT ![c] = n]
  BY <1>1 DEF Ends
<1>4. Carried(items', env'.issued) /\ env' \in EnvState
  BY CarriedSame, InvTypes
<1> QED BY <1>2, <1>3, <1>4, CallMoves

LEMMA CallGoes ==
    ASSUME ProviderInv, NEW c \in Calls, NEW pc \in Following \cup {"enqueue", "gone"}, Goto(c, pc),
           pc \in Following => call[c].item \in Ids, pc \notin {"decide", "replace"},
           UNCHANGED <<items, env, task, receipts, latest, sent, tokens, gate>>
    PROVE  ProviderInv'
<1>1. PICK n : n = [call[c] EXCEPT !.pc = pc]
  OBVIOUS
<1>2. call[c] \in CallState /\ RequestOf(c) = call[c].request
  BY InvTypes DEF RequestOf
<1>3. n \in CallState /\ n.request = RequestOf(c) /\ CallOK(n)
  BY <1>1, <1>2 DEF CallState, CallOK
<1>4. call' = [call EXCEPT ![c] = n]
  BY <1>1 DEF Goto
<1>5. Carried(items', env'.issued) /\ env' \in EnvState
  BY CarriedSame, InvTypes
<1> QED BY <1>3, <1>4, <1>5, CallMoves

LEMMA KnownTypes ==
    ASSUME NEW r
    PROVE  Known(r) \in {"answer", "error", NULL} /\ Recovered(r) \in {"answer", "error", NULL}
BY DEF Known, Recovered

LEMMA StartStep == ASSUME ProviderInv, NEW c \in Calls, Start(c) PROVE ProviderInv'
<1>1. UNCHANGED <<items, env, task, receipts, latest, sent, tokens, gate>>
  BY DEF Start, queueVars, ledgerRows, limits, history
<1>2. Known(RequestOf(c)) \in {"answer", "error", NULL}
  BY KnownTypes
<1>3. \/ Ends(c, Known(RequestOf(c)))
      \/ call[c].pc = "new" /\ Goto(c, "enqueue")
      \/ call[c].pc = "loop" /\ Goto(c, "permit")
  BY DEF Start
<1>4. call[c].pc = "loop" => call[c].item \in Ids
  BY InvTypes DEF CallOK, Following
<1> QED BY <1>1, <1>2, <1>3, <1>4, CallEnds, CallGoes DEF Following

LEMMA EnqueueStep == ASSUME ProviderInv, NEW c \in Calls, Enqueue(c) PROVE ProviderInv'
<1>1. PICK r \in Requests : r = RequestOf(c)
  BY InvTypes
<1>2. /\ UNCHANGED <<task, receipts, latest, sent, tokens, gate>>
      /\ call[c] \in CallState /\ call[c].request = r /\ items \in [Ids -> ItemState \cup {NULL}]
  BY <1>1, InvTypes DEF Enqueue, ledgerRows, limits, RequestOf
<1>3. CASE Newest(r) # NULL
  <2>1. Newest(r) \in Ids /\ items[Newest(r)] \in ItemState
    BY <1>2, <1>3, NewestStored
  <2>2. PICK ended \in BOOLEAN :
          ended = (items[Newest(r)].status \in Terminal /\ call[c].pc = "enqueue")
    OBVIOUS
  <2>3. PICK n : n = [call[c] EXCEPT !.item = Newest(r),
                        !.seen = IF ended THEN items[Newest(r)] ELSE NULL,
                        !.joined = ended, !.pc = IF ended THEN "decide" ELSE "loop"]
    OBVIOUS
  <2>4. n \in CallState /\ n.request = r /\ CallOK(n)
    BY <1>2, <2>1, <2>3 DEF CallState, CallOK, Following
  <2>5. call' = [call EXCEPT ![c] = n] /\ items' = items /\ env' = env
    BY <1>1, <1>3, <2>2, <2>3 DEF Enqueue
  <2>6. Carried(items', env'.issued) /\ env' \in EnvState
    BY <2>5, CarriedSame, InvTypes
  <2> QED BY <1>1, <1>2, <2>4, <2>5, <2>6, CallMoves
<1>4. CASE Newest(r) = NULL
  <2>1. PICK i \in Ids : i = env.issued + 1
    BY <1>1, <1>4 DEF Enqueue
  <2>3. PICK n : n = [call[c] EXCEPT !.item = i, !.seen = NULL, !.joined = FALSE, !.pc = "loop"]
    OBVIOUS
  <2>4. n \in CallState /\ n.request = r /\ CallOK(n)
    BY <1>2, <2>1, <2>3 DEF CallState, CallOK, Following
  <2>5. /\ call' = [call EXCEPT ![c] = n]
        /\ items' = [items EXCEPT ![i] = Insert(r, FreshPlan, i)] /\ env' = [env EXCEPT !.issued = i]
    BY <1>1, <1>4, <2>1, <2>3 DEF Enqueue
  <2>6. env' \in EnvState /\ env'.issued = i
    BY <2>1, <2>5, InvTypes, Parameters DEF EnvState
  <2>7. Carried(items', env'.issued)
    BY <2>1, <2>5, <2>6, CarriedInsert, FreshPlanType
  <2> QED BY <1>1, <1>2, <2>4, <2>5, <2>6, <2>7, CallMoves
<1> QED BY <1>3, <1>4

LEMMA DecideStep == ASSUME ProviderInv, NEW c \in Calls, Decide(c) PROVE ProviderInv'
<1>1. PICK r \in Requests : r = RequestOf(c)
  BY InvTypes
<1>2. /\ UNCHANGED <<items, env, task, receipts, latest, sent, tokens, gate>>
      /\ call[c] \in CallState /\ call[c].request = r /\ call[c].pc = "decide"
  BY <1>1, InvTypes DEF Decide, queueVars, ledgerRows, limits, history, RequestOf
<1>3. call[c].item \in Ids /\ call[c].seen \in ItemState /\ call[c].joined \in BOOLEAN
  BY <1>2, InvTypes DEF CallOK, Following, CallState
<1>4. PICK renewed \in Renewals(call[c].seen) :
        LET decision == Decision(r, call[c].item, call[c].seen, call[c].joined, renewed)
        IN  IF Recovered(r) # NULL THEN Ends(c, Recovered(r))
            ELSE IF decision.do \in {"answer", "error"} THEN Ends(c, decision.do)
            ELSE call' = [call EXCEPT ![c].plan = decision.plan, ![c].seen = NULL,
                             ![c].pc = IF decision.do = "replace" THEN "replace" ELSE "loop"]
  BY <1>1 DEF Decide
<1>5. renewed \in BOOLEAN
  BY DEF Renewals
<1>6. PICK decision : decision = Decision(r, call[c].item, call[c].seen, call[c].joined, renewed)
  OBVIOUS
<1>7. /\ decision.plan \in PlanState \cup {NULL} /\ (decision.do = "replace" => decision.plan \in PlanState)
      /\ decision.do \in {"replace", "error", "answer", "wait"}
  BY <1>3, <1>5, <1>6, DecisionTypes, InvTypes
<1>8. CASE Recovered(r) # NULL
  BY <1>2, <1>4, <1>8, KnownTypes, CallEnds
<1>9. CASE Recovered(r) = NULL /\ decision.do \in {"answer", "error"}
  BY <1>2, <1>4, <1>6, <1>9, CallEnds
<1>10. CASE Recovered(r) = NULL /\ decision.do \notin {"answer", "error"}
  <2>1. PICK n : n = [call[c] EXCEPT !.plan = decision.plan, !.seen = NULL,
                         !.pc = IF decision.do = "replace" THEN "replace" ELSE "loop"]
    OBVIOUS
  <2>2. call' = [call EXCEPT ![c] = n]
    BY <1>4, <1>6, <1>10, <2>1
  <2>3. n \in CallState /\ n.request = r /\ CallOK(n)
    BY <1>2, <1>3, <1>7, <2>1 DEF CallState, CallOK, Following
  <2>4. Carried(items', env'.issued) /\ env' \in EnvState
    BY <1>2, CarriedSame, InvTypes
  <2> QED BY <1>1, <1>2, <2>2, <2>3, <2>4, CallMoves
<1> QED BY <1>8, <1>9, <1>10

LEMMA ReplaceItemStep == ASSUME ProviderInv, NEW c \in Calls, ReplaceItem(c) PROVE ProviderInv'
<1>1. PICK r \in Requests : r = RequestOf(c)
  BY InvTypes
<1>2. /\ UNCHANGED <<task, receipts, latest, sent, tokens, gate>>
      /\ call[c] \in CallState /\ call[c].request = r /\ call[c].pc = "replace"
  BY <1>1, InvTypes DEF ReplaceItem, ledgerRows, limits, RequestOf
<1>3. call[c].plan \in PlanState
  BY <1>2, InvTypes DEF CallOK
<1>4. PICK next : /\ next = Followed(r, call[c].plan, call[c].item)
                  /\ next.item \in Ids /\ items' = next.items /\ env' = [env EXCEPT !.issued = next.issued]
                  /\ call' = [call EXCEPT ![c].item = next.item, ![c].plan = NULL, ![c].pc = "loop"]
  BY <1>1 DEF ReplaceItem
<1>5. Carried(items', env'.issued) /\ env' \in EnvState
  BY <1>3, <1>4, FollowedRows
<1>6. PICK n : n = [call[c] EXCEPT !.item = next.item, !.plan = NULL, !.pc = "loop"]
  OBVIOUS
<1>7. n \in CallState /\ n.request = r /\ CallOK(n)
  BY <1>2, <1>4, <1>6 DEF CallState, CallOK, Following
<1>8. call' = [call EXCEPT ![c] = n]
  BY <1>4, <1>6
<1> QED BY <1>1, <1>2, <1>5, <1>7, <1>8, CallMoves

LEMMA AcquireStep == ASSUME ProviderInv, NEW c \in Calls, Acquire(c) PROVE ProviderInv'
<1>1. UNCHANGED <<items, env, task, receipts, latest, sent, tokens, gate>> /\ Goto(c, "throttle")
  BY DEF Acquire, queueVars, ledgerRows, history
<1>2. call[c].item \in Ids
  BY InvTypes DEF Acquire, CallOK, Following
<1> QED BY <1>1, <1>2, CallGoes DEF Following

LEMMA LookStep == ASSUME ProviderInv, NEW c \in Calls, Look(c) PROVE ProviderInv'
<1>1. /\ UNCHANGED <<items, env, task, receipts, latest, sent, tokens, gate>>
      /\ call[c] \in CallState /\ call[c].pc = "follow" /\ call[c].request = RequestOf(c)
  BY InvTypes DEF Look, queueVars, ledgerRows, limits, history, RequestOf
<1>2. call[c].item \in Ids /\ items[call[c].item] \in ItemState \cup {NULL}
  BY <1>1, InvTypes DEF CallOK, Following
<1>3. CASE Recovered(RequestOf(c)) # NULL
  BY <1>1, <1>3, KnownTypes, CallEnds DEF Look
<1>4. CASE Recovered(RequestOf(c)) = NULL /\ items[call[c].item] = NULL
  BY <1>1, <1>2, <1>4, CallGoes DEF Look, Following
<1>5. CASE Recovered(RequestOf(c)) = NULL /\ items[call[c].item] # NULL
  <2>1. PICK n : n = [call[c] EXCEPT !.seen = items[call[c].item], !.joined = FALSE, !.pc = "decide"]
    OBVIOUS
  <2>2. call' = [call EXCEPT ![c] = n]
    BY <1>5, <2>1 DEF Look
  <2>3. n \in CallState /\ n.request = RequestOf(c) /\ CallOK(n)
    BY <1>1, <1>2, <1>5, <2>1 DEF CallState, CallOK, Following
  <2>4. Carried(items', env'.issued) /\ env' \in EnvState
    BY <1>1, CarriedSame, InvTypes
  <2> QED BY <1>1, <2>2, <2>3, <2>4, CallMoves
<1> QED BY <1>3, <1>4, <1>5

LEMMA AbandonStep == ASSUME ProviderInv, NEW c \in Calls, Abandon(c) PROVE ProviderInv'
<1>1. UNCHANGED <<items, env, task, receipts, latest, sent, tokens, gate>>
  BY DEF Abandon, queueVars, ledgerRows, history
<1>2. PICK n : n = [NewCall(RequestOf(c)) EXCEPT !.pc = "gone"]
  OBVIOUS
<1>3. n \in CallState /\ n.request = RequestOf(c) /\ CallOK(n) /\ call' = [call EXCEPT ![c] = n]
  BY <1>2, EndTypes, InvTypes DEF Abandon
<1>4. Carried(items', env'.issued) /\ env' \in EnvState
  BY <1>1, CarriedSame, InvTypes
<1> QED BY <1>1, <1>3, <1>4, CallMoves

\* A task without a claim, that waits or has ended.
LEMMA IdleTypes ==
    /\ Idle \in TaskState /\ FlowOK(Idle) /\ \A t : Inherits(t, Idle) /\ Idle.pc \notin Clearing
    /\ \A i \in Ids, result \in Results :
         LET n == [Idle EXCEPT !.pc = "done", !.result = result, !.item = i]
         IN  n \in TaskState /\ FlowOK(n) /\ (\A t : Inherits(t, n)) /\ n.pc \notin Clearing
    /\ \A i \in Ids :
         LET n == [Idle EXCEPT !.pc = "inspect", !.item = i]
         IN  n \in TaskState /\ FlowOK(n) /\ \A t : Inherits(t, n)
<1>1. /\ Idle \in TaskState
      /\ \A i \in Ids, result \in Results :
           [Idle EXCEPT !.pc = "done", !.result = result, !.item = i] \in TaskState
      /\ \A i \in Ids : [Idle EXCEPT !.pc = "inspect", !.item = i] \in TaskState
  BY DEF Idle, TaskState
<1>2. ASSUME NEW n, n.pc \in {"idle", "done", "inspect"}, NEW t PROVE Inherits(t, n)
  BY <1>2 DEF Inherits, Claimed, Presend, Holder
<1>3. ASSUME NEW n, n.pc \in {"idle", "done", "inspect"}, n.pc # "idle" => n.item \in Ids,
             ~ n.reserved
      PROVE  FlowOK(n)
  BY <1>3 DEF FlowOK, Claimed
<1>4. "idle" \notin Clearing /\ "done" \notin Clearing
  BY DEF Clearing
<1>5. Idle.pc = "idle" /\ ~ Idle.reserved /\ FlowOK(Idle)
  BY <1>3 DEF Idle
<1>7. ASSUME NEW i \in Ids, NEW n, n = [Idle EXCEPT !.pc = "inspect", !.item = i]
      PROVE  n.pc = "inspect" /\ n.item = i /\ ~ n.reserved /\ FlowOK(n)
  <2>1. n.pc = "inspect" /\ n.item = i /\ ~ n.reserved
    BY <1>7 DEF Idle
  <2> QED BY <2>1, <1>3
<1>8. \A t : Inherits(t, Idle) /\ Idle.pc \notin Clearing
  BY <1>2, <1>4, <1>5
<1>9. ASSUME NEW i \in Ids, NEW result \in Results
      PROVE  LET n == [Idle EXCEPT !.pc = "done", !.result = result, !.item = i]
             IN  n \in TaskState /\ FlowOK(n) /\ (\A t : Inherits(t, n)) /\ n.pc \notin Clearing
  <2>1. PICK n : n = [Idle EXCEPT !.pc = "done", !.result = result, !.item = i]
    OBVIOUS
  <2>2. n.pc = "done" /\ n.item = i /\ ~ n.reserved
    BY <2>1 DEF Idle
  <2>5. FlowOK(n)
    BY <1>3, <2>2
  <2>3. n \in TaskState
    BY <1>1, <2>1
  <2>4. \A t : Inherits(t, n)
    BY <1>2, <2>2
  <2> QED BY <1>4, <2>1, <2>2, <2>3, <2>4, <2>5
<1>10. ASSUME NEW i \in Ids
       PROVE  LET n == [Idle EXCEPT !.pc = "inspect", !.item = i]
              IN  n \in TaskState /\ FlowOK(n) /\ \A t : Inherits(t, n)
  <2>1. PICK n : n = [Idle EXCEPT !.pc = "inspect", !.item = i]
    OBVIOUS
  <2>2. n.pc = "inspect" /\ FlowOK(n)
    BY <1>7, <2>1
  <2>3. n \in TaskState
    BY <1>1, <2>1
  <2>4. \A t : Inherits(t, n)
    BY <1>2, <2>2
  <2> QED BY <2>1, <2>2, <2>3, <2>4
<1> QED BY <1>1, <1>5, <1>8, <1>9, <1>10

\* The gate is taken while the budget lasts: nobody else clears.
LEMMA CheckRateStep == ASSUME ProviderInv, NEW c \in Calls, CheckRate(c) PROVE ProviderInv'
<1>1. /\ UNCHANGED <<items, env, receipts, latest, sent, tokens>>
      /\ call[c] \in CallState /\ call[c].pc = "throttle" /\ call[c].request = RequestOf(c)
      /\ gate[ProcessOf[c]] = NULL
  BY InvTypes DEF CheckRate, queueVars, ledgerRows, history, RequestOf, GateFree
<1>2. call[c].item \in Ids
  BY <1>1, InvTypes DEF CallOK, Following
<1>3. CASE ~(tokens[ProcessOf[c]] >= 1)
  <2>1. UNCHANGED <<task, gate>> /\ Goto(c, "follow")
    BY <1>3 DEF CheckRate
  <2> QED BY <1>1, <1>2, <2>1, CallGoes DEF Following
<1>4. CASE tokens[ProcessOf[c]] >= 1
  <2>1. PICK n : n = [Idle EXCEPT !.pc = "inspect", !.item = call[c].item]
    OBVIOUS
  <2>2. /\ task' = [task EXCEPT ![c] = n] /\ gate' = [gate EXCEPT ![ProcessOf[c]] = c]
        /\ Goto(c, "await")
    BY <1>4, <2>1 DEF CheckRate
  <2>3. n \in TaskState /\ FlowOK(n) /\ \A t : Inherits(t, n)
    BY <1>2, <2>1, IdleTypes
  <2>4. /\ task' \in [Calls -> TaskState]
        /\ \A d \in Calls : Inherits(task[d], task'[d]) /\ FlowOK(task'[d])
    BY <2>2, <2>3, InvTypes, InheritsSelf
  <2>5. /\ call' \in [Calls -> CallState]
        /\ \A d \in Calls : call'[d].request = call[d].request /\ CallOK(call'[d])
    <3>1. PICK k : k = [call[c] EXCEPT !.pc = "await"]
      OBVIOUS
    <3>2. call' = [call EXCEPT ![c] = k] /\ k \in CallState /\ CallOK(k) /\ k.request = call[c].request
      BY <1>1, <1>2, <2>2, <3>1 DEF Goto, CallState, CallOK, Following
    <3> QED BY <3>2, InvTypes
  <2>6. gate' \in [Processes -> Calls \cup {NULL}] /\ tokens' \in [Processes -> Nat]
    BY <1>1, <2>2, InvTypes
  <2>7. GateInv'
    <3>1. /\ ProcessOf[c] \in Processes /\ gate \in [Processes -> Calls \cup {NULL}] /\ GateInv
          /\ task \in [Calls -> TaskState] /\ \A d \in Calls : ProcessOf[d] \in Processes /\ d # NULL
      BY InvTypes, Parameters, NullIsNothing
    <3>2. ASSUME NEW d \in Calls, task'[d].pc \in Clearing PROVE gate'[ProcessOf[d]] = d
      <4>1. CASE d = c
        BY <2>2, <3>1, <4>1
      <4>2. CASE d # c
        <5>1. task'[d] = task[d]
          BY <2>2, <3>1, <4>2
        <5>2. gate[ProcessOf[d]] = d /\ ProcessOf[d] # ProcessOf[c]
          BY <1>1, <3>1, <3>2, <5>1 DEF GateInv
        <5> QED BY <2>2, <3>1, <5>2
      <4> QED BY <4>1, <4>2
    <3>3. \A p \in Processes : gate'[p] # NULL => tokens'[p] >= 1
      BY <1>1, <1>4, <2>2, <3>1 DEF GateInv
    <3> QED BY <3>2, <3>3 DEF GateInv
  <2>8. Carried(items', env'.issued) /\ env' \in EnvState
    BY <1>1, CarriedSame, InvTypes
  <2> QED BY <1>1, <2>4, <2>5, <2>6, <2>7, <2>8, LedgerKept
<1> QED BY <1>3, <1>4

LEMMA ResumeStep == ASSUME ProviderInv, NEW c \in Calls, Resume(c) PROVE ProviderInv'
<1>1. /\ UNCHANGED <<items, env, receipts, latest, sent, tokens, gate>>
      /\ call[c] \in CallState /\ call[c].request = RequestOf(c) /\ RequestOf(c) \in Requests
      /\ task' = [task EXCEPT ![c] = Idle]
  BY InvTypes DEF Resume, queueVars, ledgerRows, history, RequestOf, limits
<1>2. task[c].item \in Ids
  BY InvTypes DEF Resume, FlowOK
<1>3. PICK n \in CallState : n.request = RequestOf(c) /\ CallOK(n) /\ call' = [call EXCEPT ![c] = n]
  <2>1. CASE task[c].result \in {"answer", "error"}
    <3>1. PICK result \in {"answer", "error"} : result = task[c].result
      BY <2>1
    <3>2. PICK n : n = [NewCall(RequestOf(c)) EXCEPT !.pc = "ended", !.end = result]
      OBVIOUS
    <3>3. n \in CallState /\ n.request = RequestOf(c) /\ CallOK(n)
      BY <1>1, <3>2, EndTypes
    <3>4. call' = [call EXCEPT ![c] = n]
      BY <3>1, <3>2 DEF Resume, Ends
    <3> QED BY <3>3, <3>4
  <2>2. CASE task[c].result \notin {"answer", "error"}
    <3>1. PICK pc \in {"reenqueue", "follow", "loop"} : pc = After(task[c].result)
      BY DEF After
    <3>2. PICK n : n = [call[c] EXCEPT !.item = task[c].item, !.pc = pc]
      OBVIOUS
    <3>3. n \in CallState /\ n.request = RequestOf(c) /\ CallOK(n)
      BY <1>1, <1>2, <3>1, <3>2 DEF CallState, CallOK, Following
    <3>4. call' = [call EXCEPT ![c] = n]
      BY <2>2, <3>1, <3>2 DEF Resume
    <3> QED BY <3>3, <3>4
  <2> QED BY <2>1, <2>2
<1>4. /\ task' \in [Calls -> TaskState]
      /\ \A d \in Calls : Inherits(task[d], task'[d]) /\ FlowOK(task'[d])
      /\ \A d \in Calls : task'[d].pc \in Clearing => task[d].pc \in Clearing
  BY <1>1, IdleTypes, InvTypes, InheritsSelf
<1>5. /\ call' \in [Calls -> CallState]
      /\ \A d \in Calls : call'[d].request = call[d].request /\ CallOK(call'[d])
  BY <1>1, <1>3, InvTypes
<1>6. Carried(items', env'.issued) /\ env' \in EnvState
  BY <1>1, CarriedSame, InvTypes
<1>7. GateInv' /\ tokens' \in [Processes -> Nat] /\ gate' \in [Processes -> Calls \cup {NULL}]
  BY <1>1, <1>4, GateSame
<1> QED BY <1>1, <1>4, <1>5, <1>6, <1>7, LedgerKept

----------------------------------------------------------------------------
(* The steps of an attempt that leave the ledger alone.                    *)

LEMMA Unclaims == ASSUME NEW t, NEW n, n.pc \notin Claimed PROVE Inherits(t, n)
BY DEF Inherits, Claimed, Presend, Holder

LEMMA FaultTypes ==
    ASSUME ProviderInv, NEW f \in BOOLEAN, Fault(f)
    PROVE  env' \in EnvState /\ env'.issued = env.issued
BY InvTypes DEF Fault, EnvState

LEMMA CarriedStays ==
    ASSUME ProviderInv, items' = items, env'.issued = env.issued
    PROVE  Carried(items', env'.issued)
BY CarriedSame

LEMMA TaskMoves ==
    ASSUME ProviderInv, NEW c \in Calls, NEW n \in TaskState, FlowOK(n), Inherits(task[c], n),
           task' = [task EXCEPT ![c] = n], n.pc \in Clearing => task[c].pc \in Clearing,
           Carried(items', env'.issued), env' \in EnvState,
           UNCHANGED <<call, receipts, latest, sent, tokens, gate>>
    PROVE  ProviderInv'
<1>1. /\ task' \in [Calls -> TaskState]
      /\ \A d \in Calls : Inherits(task[d], task'[d]) /\ FlowOK(task'[d])
      /\ \A d \in Calls : task'[d].pc \in Clearing => task[d].pc \in Clearing
  BY InvTypes, InheritsSelf
<1>2. /\ call' \in [Calls -> CallState]
      /\ \A d \in Calls : call'[d].request = call[d].request /\ CallOK(call'[d])
  BY InvTypes
<1>3. GateInv' /\ tokens' \in [Processes -> Nat] /\ gate' \in [Processes -> Calls \cup {NULL}]
  BY <1>1, GateSame
<1> QED BY <1>1, <1>2, <1>3, LedgerKept

LEMMA TaskLeaves ==
    ASSUME ProviderInv, NEW c \in Calls, NEW result \in Results, NEW i \in Ids, Leave(c, result, i),
           Carried(items', env'.issued), env' \in EnvState,
           UNCHANGED <<call, receipts, latest, sent, tokens>>
    PROVE  ProviderInv'
<1>1. PICK n : n = IF call[c].pc = "gone" THEN Idle
                   ELSE [Idle EXCEPT !.pc = "done", !.result = result, !.item = i]
  OBVIOUS
<1>2. n \in TaskState /\ FlowOK(n) /\ (\A t : Inherits(t, n)) /\ n.pc \notin Clearing
  BY <1>1, IdleTypes
<1>3. /\ task' = [task EXCEPT ![c] = n]
      /\ gate' = [p \in Processes |-> IF gate[p] = c THEN NULL ELSE gate[p]]
  BY <1>1 DEF Leave
<1>4. /\ task' \in [Calls -> TaskState] /\ task'[c] = n /\ \A d \in Calls : d # c => task'[d] = task[d]
  BY <1>2, <1>3, InvTypes
<1>5. \A d \in Calls : Inherits(task[d], task'[d]) /\ FlowOK(task'[d])
  BY <1>2, <1>4, InvTypes, InheritsSelf
<1>6. /\ call' \in [Calls -> CallState]
      /\ \A d \in Calls : call'[d].request = call[d].request /\ CallOK(call'[d])
  BY InvTypes
<1>7. GateInv' /\ tokens' \in [Processes -> Nat] /\ gate' \in [Processes -> Calls \cup {NULL}]
  BY <1>2, <1>3, <1>4, GateLeft
<1> QED BY <1>4, <1>5, <1>6, <1>7, LedgerKept

LEMMA InspectStep == ASSUME ProviderInv, NEW c \in Calls, Inspect(c) PROVE ProviderInv'
<1>1. /\ UNCHANGED <<env, call, receipts, latest, sent, tokens, gate>>
      /\ task[c] \in TaskState /\ FlowOK(task[c]) /\ task[c].pc = "inspect"
      /\ items \in [Ids -> ItemState \cup {NULL}]
  BY InvTypes DEF Inspect, ledgerRows, limits, history
<1>2. PICK i \in Ids : i = task[c].item
  BY <1>1 DEF FlowOK
<1>3. PICK table : table = IF items[i] # NULL /\ items[i].status = "Running" /\ items[i].lapsed
                           THEN Reclaimed ELSE items
  OBVIOUS
<1>4. Carried(table, env.issued) /\ table[i] \in ItemState \cup {NULL}
  BY <1>3, CarriedSame, CarriedReclaimed DEF Carried
<1>5. PICK reconsiders \in BOOLEAN : reconsiders =
        (table[i] # NULL /\ table[i].status \in {"Failed", "Dead"} /\ table[i].error = "lease")
  OBVIOUS
<1>6. PICK n : n = [task[c] EXCEPT !.pc = IF reconsiders THEN "reconsider" ELSE "claim",
                                   !.seen = IF reconsiders THEN table[i] ELSE NULL]
  OBVIOUS
<1>7. items' = table /\ task' = [task EXCEPT ![c] = n]
  BY <1>2, <1>3, <1>5, <1>6 DEF Inspect
<1>8. n \in TaskState
  <2>1. PICK pc \in {"reconsider", "claim"} : pc = IF reconsiders THEN "reconsider" ELSE "claim"
    OBVIOUS
  <2>2. PICK seen \in ItemState \cup {NULL} : seen = IF reconsiders THEN table[i] ELSE NULL
    BY <1>4
  <2>3. [task[c] EXCEPT !.pc = pc, !.seen = seen] \in TaskState
    BY <1>1 DEF TaskState
  <2> QED BY <1>6, <2>1, <2>2, <2>3
<1>9. FlowOK(n)
  BY <1>1, <1>2, <1>4, <1>5, <1>6 DEF TaskState, FlowOK, Unreserved, Claimed
<1>10. Inherits(task[c], n) /\ task[c].pc \in Clearing
  <2>1. n.pc \in {"reconsider", "claim"}
    BY <1>1, <1>6 DEF TaskState
  <2>2. n.pc \notin Claimed
    BY <2>1 DEF Claimed
  <2> QED BY <1>1, <2>2, Unclaims DEF Clearing
<1>11. Carried(items', env'.issued) /\ env' \in EnvState
  BY <1>1, <1>4, <1>7, InvTypes
<1> QED BY <1>1, <1>7, <1>8, <1>9, <1>10, <1>11, TaskMoves

LEMMA ReconsiderStep == ASSUME ProviderInv, NEW c \in Calls, Reconsider(c) PROVE ProviderInv'
<1>1. /\ UNCHANGED <<items, env, call, receipts, latest, sent, tokens, gate>>
      /\ task[c] \in TaskState /\ FlowOK(task[c]) /\ task[c].pc = "reconsider"
  BY InvTypes DEF Reconsider, ledgerRows, limits, history, queueVars
<1>2. task[c].item \in Ids /\ task[c].seen \in ItemState /\ ~ task[c].reserved
  BY <1>1 DEF FlowOK, Unreserved
<1>3. PICK plan : /\ plan \in PlanState \cup {NULL}
                  /\ task' = [task EXCEPT ![c].plan = plan, ![c].seen = NULL,
                                          ![c].pc = IF plan = NULL THEN "claim" ELSE "replace"]
  <2>1. PICK renewed \in Renewals(task[c].seen) :
          task' = [task EXCEPT ![c].plan = Reconsidered(task[c].item, task[c].seen, renewed),
                      ![c].seen = NULL,
                      ![c].pc = IF Reconsidered(task[c].item, task[c].seen, renewed) = NULL
                                THEN "claim" ELSE "replace"]
    BY DEF Reconsider
  <2>2. renewed \in BOOLEAN
    BY DEF Renewals
  <2>3. Reconsidered(task[c].item, task[c].seen, renewed) \in PlanState \cup {NULL}
    BY <1>2, <2>2, PlanTypes, InvTypes
  <2> QED BY <2>1, <2>3
<1>4. PICK n : n = [task[c] EXCEPT !.plan = plan, !.seen = NULL,
                                   !.pc = IF plan = NULL THEN "claim" ELSE "replace"]
  OBVIOUS
<1>5. n \in TaskState /\ task' = [task EXCEPT ![c] = n]
  <2>1. PICK pc \in {"replace", "claim"} : pc = IF plan = NULL THEN "claim" ELSE "replace"
    OBVIOUS
  <2>2. [task[c] EXCEPT !.plan = plan, !.seen = NULL, !.pc = pc] \in TaskState
    BY <1>1, <1>3 DEF TaskState
  <2> QED BY <1>3, <1>4, <2>1, <2>2
<1>6. FlowOK(n)
  BY <1>1, <1>2, <1>3, <1>4 DEF FlowOK, Unreserved, Claimed, TaskState
<1>7. Inherits(task[c], n) /\ task[c].pc \in Clearing
  <2>1. n.pc \in {"replace", "claim"}
    BY <1>1, <1>4 DEF TaskState
  <2>2. n.pc \notin Claimed
    BY <2>1 DEF Claimed
  <2> QED BY <1>1, <2>2, Unclaims DEF Clearing
<1>8. Carried(items', env'.issued) /\ env' \in EnvState
  BY <1>1, CarriedSame, InvTypes
<1> QED BY <1>1, <1>5, <1>6, <1>7, <1>8, TaskMoves

LEMMA ReplaceClaimStep == ASSUME ProviderInv, NEW c \in Calls, ReplaceClaim(c) PROVE ProviderInv'
<1>1. PICK r \in Requests : r = RequestOf(c)
  BY InvTypes
<1>2. UNCHANGED <<call, receipts, latest, sent, tokens>> /\ task[c].plan \in PlanState
  BY InvTypes DEF ReplaceClaim, ledgerRows, FlowOK
<1>3. PICK next : /\ next = Followed(r, task[c].plan, task[c].item)
                  /\ next.item \in Ids /\ items' = next.items /\ env' = [env EXCEPT !.issued = next.issued]
                  /\ Leave(c, "retry", next.item)
  BY <1>1 DEF ReplaceClaim
<1>4. Carried(items', env'.issued) /\ env' \in EnvState
  BY <1>2, <1>3, FollowedRows
<1> QED BY <1>2, <1>3, <1>4, TaskLeaves DEF Results

\* A task that keeps its claim.
LEMMA KeepsClaim ==
    ASSUME NEW t \in TaskState, FlowOK(t), t.pc \in Claimed, NEW n \in TaskState, n.pc \in Claimed,
           n.item = t.item, n.attempt = t.attempt, n.seen = t.seen,
           n.pc = "record" => n.outcome \in AllOutcomes, n.pc \in Unreserved => ~ n.reserved
    PROVE  FlowOK(n)
BY DEF FlowOK, Claimed

LEMMA ClaimedTypes ==
    ASSUME ProviderInv, NEW c \in Calls, task[c].pc \in Claimed
    PROVE  /\ task[c] \in TaskState /\ FlowOK(task[c]) /\ task[c].item \in Ids
           /\ task[c].attempt \in Attempts /\ task[c].seen \in ItemState
           /\ RefOf(task[c]) \in Refs /\ Ref(c) = RefOf(task[c])
BY InvTypes DEF FlowOK, Claimed, RefOf, Ref, Refs, Attempts

LEMMA RenewStep == ASSUME ProviderInv, NEW c \in Calls, Renew(c) PROVE ProviderInv'
<1>1. /\ UNCHANGED <<items, env, call, receipts, latest, sent, tokens, gate>>
      /\ task[c].pc \in {"recover", "reserve", "heartbeat", "refused", "charge", "boundary"}
  BY DEF Renew, ledgerRows, limits, history, queueVars
<1>2. task[c].pc \in Claimed
  BY <1>1 DEF Claimed
<1>3. task[c] \in TaskState /\ FlowOK(task[c])
  BY <1>2, ClaimedTypes
<1>4. PICK n : n = [task[c] EXCEPT !.lost = TRUE]
  OBVIOUS
<1>5. /\ n \in TaskState /\ n.pc = task[c].pc /\ n.item = task[c].item /\ n.attempt = task[c].attempt
      /\ n.seen = task[c].seen /\ n.reserved = task[c].reserved
  BY <1>3, <1>4 DEF TaskState
<1>6. FlowOK(n)
  BY <1>1, <1>2, <1>3, <1>5, KeepsClaim DEF FlowOK
<1>7. Inherits(task[c], n)
  BY <1>5 DEF Inherits, Holder
<1>8. Carried(items', env'.issued) /\ env' \in EnvState /\ task' = [task EXCEPT ![c] = n]
  BY <1>1, <1>4, CarriedSame, InvTypes DEF Renew
<1> QED BY <1>1, <1>5, <1>6, <1>7, <1>8, TaskMoves

LEMMA RecoverClaimStep == ASSUME ProviderInv, NEW c \in Calls, RecoverClaim(c) PROVE ProviderInv'
<1>1. /\ UNCHANGED <<items, env, call, receipts, latest, sent, tokens, gate>>
      /\ task[c].pc \in {"recover", "refused"}
  BY DEF RecoverClaim, ledgerRows, limits, history, queueVars
<1>2. task[c].pc \in Claimed
  BY <1>1 DEF Claimed
<1>3. task[c] \in TaskState /\ FlowOK(task[c]) /\ ~ task[c].reserved
  BY <1>1, <1>2, ClaimedTypes DEF FlowOK, Unreserved
<1>4. PICK n : /\ task' = [task EXCEPT ![c] = n]
               /\ \/ n = [task[c] EXCEPT !.pc = "close", !.close = "complete", !.result = "answer"]
                  \/ task[c].pc = "recover" /\ n = [task[c] EXCEPT !.pc = "reserve"]
                  \/ \E e \in {"completed", task[c].error} :
                        n = [task[c] EXCEPT !.pc = "abort", !.error = e]
  <2>1. CASE Recovered(RequestOf(c)) = "answer"
    <3>1. PICK n : n = [task[c] EXCEPT !.pc = "close", !.close = "complete", !.result = "answer"]
      OBVIOUS
    <3>2. task' = [task EXCEPT ![c] = n]
      BY <2>1, <3>1 DEF RecoverClaim
    <3> QED BY <3>1, <3>2
  <2>2. CASE Recovered(RequestOf(c)) # "answer" /\ Recovered(RequestOf(c)) = NULL /\ task[c].pc = "recover"
    BY <2>2 DEF RecoverClaim, Step
  <2>3. CASE Recovered(RequestOf(c)) # "answer"
             /\ ~(Recovered(RequestOf(c)) = NULL /\ task[c].pc = "recover")
    <3>1. PICK e \in {"completed", task[c].error} :
            e = IF task[c].pc = "recover" THEN "completed" ELSE task[c].error
      OBVIOUS
    <3>2. task' = [task EXCEPT ![c] = [task[c] EXCEPT !.pc = "abort", !.error = e]]
      BY <2>3, <3>1 DEF RecoverClaim
    <3> QED BY <3>2
  <2> QED BY <2>1, <2>2, <2>3
<1>5. /\ n \in TaskState /\ n.pc \in {"close", "reserve", "abort"} /\ n.item = task[c].item
      /\ n.attempt = task[c].attempt /\ n.seen = task[c].seen /\ n.reserved = task[c].reserved
      /\ n.pc = "reserve" => task[c].pc = "recover"
  <2>1. CASE n = [task[c] EXCEPT !.pc = "close", !.close = "complete", !.result = "answer"]
    BY <1>3, <2>1 DEF TaskState, Claimed, Results
  <2>2. CASE task[c].pc = "recover" /\ n = [task[c] EXCEPT !.pc = "reserve"]
    BY <1>3, <2>2 DEF TaskState, Claimed
  <2>3. ASSUME NEW e \in {"completed", task[c].error},
               n = [task[c] EXCEPT !.pc = "abort", !.error = e]
        PROVE  <1>5
    <3>1. e \in Errors \cup {NULL}
      BY <1>3 DEF TaskState, Errors
    <3> QED BY <1>3, <2>3, <3>1 DEF TaskState, Claimed
  <2> QED BY <1>4, <2>1, <2>2, <2>3
<1>6. FlowOK(n)
  BY <1>1, <1>2, <1>3, <1>5, KeepsClaim DEF Claimed
<1>7. Inherits(task[c], n) /\ (n.pc \in Clearing => task[c].pc \in Clearing)
  BY <1>1, <1>2, <1>3, <1>5 DEF Inherits, Holder, Presend, Clearing
<1>8. Carried(items', env'.issued) /\ env' \in EnvState
  BY <1>1, CarriedSame, InvTypes
<1> QED BY <1>1, <1>4, <1>5, <1>6, <1>7, <1>8, TaskMoves

LEMMA CheckClaimStep == ASSUME ProviderInv, NEW c \in Calls, CheckClaim(c) PROVE ProviderInv'
<1>1. /\ UNCHANGED <<items, env, call, receipts, latest, sent, tokens, gate>>
      /\ task[c].pc = "heartbeat"
  BY DEF CheckClaim, ledgerRows, limits, history, queueVars
<1>2. task[c].pc \in Claimed
  BY <1>1 DEF Claimed
<1>3. task[c] \in TaskState /\ FlowOK(task[c])
  BY <1>2, ClaimedTypes
<1>4. PICK n : /\ task' = [task EXCEPT ![c] = n]
               /\ \/ n = [task[c] EXCEPT !.pc = "abort", !.error = "queue"]
                  \/ task[c].reserved /\ n = [task[c] EXCEPT !.pc = "charge", !.error = task[c].error]
                  \/ /\ ~ task[c].reserved
                     /\ n = [task[c] EXCEPT !.pc = "refused", !.error = task[c].error]
  <2>1. CASE ~ HeartbeatHeld(c)
    BY <2>1 DEF CheckClaim
  <2>2. CASE HeartbeatHeld(c) /\ task[c].reserved
    BY <1>3, <2>2 DEF CheckClaim, Reserves, TaskState
  <2>3. CASE HeartbeatHeld(c) /\ ~ task[c].reserved
    BY <1>3, <2>3 DEF CheckClaim, Reserves, TaskState
  <2> QED BY <2>1, <2>2, <2>3
<1>5. /\ n \in TaskState /\ n.pc \in {"abort", "charge", "refused"} /\ n.item = task[c].item
      /\ n.attempt = task[c].attempt /\ n.seen = task[c].seen /\ n.reserved = task[c].reserved
      /\ (n.pc = "charge" => task[c].reserved) /\ (n.pc = "refused" => ~ task[c].reserved)
  <2>1. CASE n = [task[c] EXCEPT !.pc = "abort", !.error = "queue"]
    BY <1>3, <2>1 DEF TaskState, Claimed, Errors
  <2>2. CASE task[c].reserved /\ n = [task[c] EXCEPT !.pc = "charge", !.error = task[c].error]
    BY <1>3, <2>2 DEF TaskState, Claimed
  <2>3. CASE ~ task[c].reserved /\ n = [task[c] EXCEPT !.pc = "refused", !.error = task[c].error]
    BY <1>3, <2>3 DEF TaskState, Claimed
  <2> QED BY <1>4, <2>1, <2>2, <2>3
<1>6. FlowOK(n)
  BY <1>2, <1>3, <1>5, KeepsClaim DEF Claimed, Unreserved
<1>7. Inherits(task[c], n) /\ task[c].pc \in Clearing
  BY <1>1, <1>2, <1>3, <1>5 DEF Inherits, Holder, Presend, Clearing
<1>8. Carried(items', env'.issued) /\ env' \in EnvState
  BY <1>1, CarriedSame, InvTypes
<1> QED BY <1>1, <1>4, <1>5, <1>6, <1>7, <1>8, TaskMoves

\* The holder of the gate spends what it was cleared for.
LEMMA ChargeRateStep == ASSUME ProviderInv, NEW c \in Calls, ChargeRate(c) PROVE ProviderInv'
<1>1. /\ UNCHANGED <<items, env, call, receipts, latest, sent>> /\ task[c].pc = "charge"
  BY DEF ChargeRate, ledgerRows, history, queueVars
<1>2. task[c].pc \in Claimed /\ task[c].pc \in Clearing
  BY <1>1 DEF Claimed, Clearing
<1>3. task[c] \in TaskState /\ FlowOK(task[c])
  BY <1>2, ClaimedTypes
<1>4. PICK n : n = [task[c] EXCEPT !.pc = "boundary"]
  OBVIOUS
<1>5. /\ n \in TaskState /\ n.pc = "boundary" /\ n.item = task[c].item
      /\ n.attempt = task[c].attempt /\ n.seen = task[c].seen /\ n.reserved = task[c].reserved
  BY <1>3, <1>4 DEF TaskState, Claimed
<1>6. FlowOK(n)
  BY <1>2, <1>3, <1>5, KeepsClaim DEF Claimed, Unreserved
<1>7. Inherits(task[c], n)
  BY <1>1, <1>2, <1>3, <1>5 DEF Inherits, Holder, Presend
<1>8. PICK p \in Processes : p = ProcessOf[c] /\ gate[p] = c /\ tokens[p] >= 1
  BY <1>2, Parameters, InvTypes, NullIsNothing DEF GateInv
<1>9. /\ task' = [task EXCEPT ![c] = n] /\ tokens' = [tokens EXCEPT ![p] = @ - 1]
      /\ gate' = [gate EXCEPT ![p] = NULL]
  BY <1>4, <1>8 DEF ChargeRate, Step, SpendGrant
<1>10. /\ task' \in [Calls -> TaskState] /\ task'[c] = n
       /\ \A d \in Calls : d # c => task'[d] = task[d]
       /\ \A d \in Calls : Inherits(task[d], task'[d]) /\ FlowOK(task'[d])
  BY <1>5, <1>6, <1>7, <1>9, InvTypes, InheritsSelf
<1>11. gate' \in [Processes -> Calls \cup {NULL}] /\ tokens' \in [Processes -> Nat]
  <2>1. tokens \in [Processes -> Nat] /\ tokens[p] - 1 \in Nat
    BY <1>8, InvTypes
  <2> QED BY <1>9, <2>1, InvTypes
<1>12. GateInv'
  <2>0. /\ gate \in [Processes -> Calls \cup {NULL}] /\ tokens \in [Processes -> Nat] /\ GateInv
        /\ \A d \in Calls : ProcessOf[d] \in Processes
    BY InvTypes, Parameters
  <2>1. ASSUME NEW d \in Calls, task'[d].pc \in Clearing PROVE gate'[ProcessOf[d]] = d
    <3>1. d # c
      BY <1>5, <1>10, <2>1 DEF Clearing
    <3>2. gate[ProcessOf[d]] = d
      BY <1>10, <2>0, <2>1, <3>1 DEF GateInv
    <3> QED BY <1>8, <1>9, <2>0, <3>1, <3>2
  <2>2. ASSUME NEW q \in Processes, gate'[q] # NULL PROVE tokens'[q] >= 1
    <3>1. q # p
      BY <1>9, <2>0, <2>2
    <3> QED BY <1>9, <2>0, <2>2, <3>1 DEF GateInv
  <2> QED BY <2>1, <2>2 DEF GateInv
<1>13. /\ call' \in [Calls -> CallState]
       /\ \A d \in Calls : call'[d].request = call[d].request /\ CallOK(call'[d])
  BY <1>1, InvTypes
<1>14. Carried(items', env'.issued) /\ env' \in EnvState
  BY <1>1, CarriedSame, InvTypes
<1> QED BY <1>1, <1>10, <1>11, <1>12, <1>13, <1>14, LedgerKept

LEMMA RespondStep == ASSUME ProviderInv, NEW c \in Calls, Respond(c) PROVE ProviderInv'
<1>1. /\ UNCHANGED <<items, env, call, receipts, latest, sent, tokens, gate>>
      /\ task[c].pc = "sending"
  BY DEF Respond, ledgerRows, limits, history, queueVars
<1>2. task[c].pc \in Claimed
  BY <1>1 DEF Claimed
<1>3. task[c] \in TaskState /\ FlowOK(task[c])
  BY <1>2, ClaimedTypes
<1>4. PICK o \in AllOutcomes : task' = [task EXCEPT ![c].pc = "record", ![c].outcome = o]
  BY ProviderAssumption DEF Respond, AllOutcomes
<1>5. PICK n : n = [task[c] EXCEPT !.pc = "record", !.outcome = o]
  OBVIOUS
<1>6. /\ n \in TaskState /\ n.pc = "record" /\ n.item = task[c].item /\ n.outcome = o
      /\ n.attempt = task[c].attempt /\ n.seen = task[c].seen /\ n.reserved = task[c].reserved
  BY <1>3, <1>5 DEF TaskState, Claimed
<1>7. FlowOK(n)
  BY <1>2, <1>3, <1>6, KeepsClaim DEF Claimed, Unreserved
<1>8. Inherits(task[c], n) /\ n.pc \notin Clearing
  BY <1>1, <1>2, <1>3, <1>6 DEF Inherits, Holder, Presend, Clearing
<1>9. Carried(items', env'.issued) /\ env' \in EnvState /\ task' = [task EXCEPT ![c] = n]
  BY <1>1, <1>4, <1>5, CarriedSame, InvTypes
<1> QED BY <1>1, <1>6, <1>7, <1>8, <1>9, TaskMoves

LEMMA StoreCacheStep == ASSUME ProviderInv, NEW c \in Calls, StoreCache(c) PROVE ProviderInv'
<1>1. /\ UNCHANGED <<items, call, receipts, latest, sent, tokens, gate>>
      /\ task[c].pc = "cache" /\ Step(c, "close")
  BY DEF StoreCache, ledgerRows, limits, queueVars
<1>2. env' \in EnvState /\ env'.issued = env.issued
  BY FaultTypes DEF StoreCache
<1>3. task[c].pc \in Claimed
  BY <1>1 DEF Claimed
<1>4. task[c] \in TaskState /\ FlowOK(task[c])
  BY <1>3, ClaimedTypes
<1>5. PICK n : n = [task[c] EXCEPT !.pc = "close"]
  OBVIOUS
<1>6. /\ n \in TaskState /\ n.pc = "close" /\ n.item = task[c].item
      /\ n.attempt = task[c].attempt /\ n.seen = task[c].seen /\ n.reserved = task[c].reserved
  BY <1>4, <1>5 DEF TaskState, Claimed
<1>7. FlowOK(n)
  BY <1>3, <1>4, <1>6, KeepsClaim DEF Claimed, Unreserved
<1>8. Inherits(task[c], n) /\ n.pc \notin Clearing
  BY <1>3, <1>6 DEF Inherits, Holder, Presend, Clearing
<1>9. Carried(items', env'.issued) /\ task' = [task EXCEPT ![c] = n]
  BY <1>1, <1>2, <1>5, CarriedStays DEF Step
<1> QED BY <1>1, <1>2, <1>6, <1>7, <1>8, <1>9, TaskMoves

LEMMA CoolStep == ASSUME ProviderInv, NEW c \in Calls, Cool(c) PROVE ProviderInv'
<1>1. UNCHANGED <<items, call, receipts, latest, sent, tokens, gate>> /\ task[c].pc = "cooldown"
  BY DEF Cool, ledgerRows, limits
<1>2. task[c].pc \in Claimed
  BY <1>1 DEF Claimed
<1>3. task[c] \in TaskState /\ FlowOK(task[c])
  BY <1>2, ClaimedTypes
<1>4. PICK f \in BOOLEAN :
        /\ Fault(f)
        /\ task' = [task EXCEPT ![c].pc = "close", ![c].error = IF f THEN "queue" ELSE @,
                                ![c].close = IF f THEN "stop" ELSE @]
  BY DEF Cool
<1>5. env' \in EnvState /\ env'.issued = env.issued
  BY <1>4, FaultTypes
<1>6. PICK e \in Errors \cup {NULL} : e = IF f THEN "queue" ELSE task[c].error
  BY <1>3 DEF Errors, TaskState
<1>7. PICK k \in {"complete", "stop", "retry", NULL} : k = IF f THEN "stop" ELSE task[c].close
  BY <1>3 DEF TaskState
<1>8. PICK n : n = [task[c] EXCEPT !.pc = "close", !.error = e, !.close = k]
  OBVIOUS
<1>9. /\ n \in TaskState /\ n.pc = "close" /\ n.item = task[c].item
      /\ n.attempt = task[c].attempt /\ n.seen = task[c].seen /\ n.reserved = task[c].reserved
  BY <1>3, <1>8 DEF TaskState, Claimed
<1>10. FlowOK(n)
  BY <1>2, <1>3, <1>9, KeepsClaim DEF Claimed, Unreserved
<1>11. Inherits(task[c], n) /\ n.pc \notin Clearing
  BY <1>2, <1>9 DEF Inherits, Holder, Presend, Clearing
<1>12. Carried(items', env'.issued) /\ task' = [task EXCEPT ![c] = n]
  BY <1>1, <1>4, <1>5, <1>6, <1>7, <1>8, CarriedStays
<1> QED BY <1>1, <1>5, <1>9, <1>10, <1>11, <1>12, TaskMoves

LEMMA ClosedType ==
    ASSUME NEW item \in ItemState, NEW close, NEW error \in Errors \cup {NULL}
    PROVE  ClosedItem(item, close, error) \in ItemState
           /\ ClosedItem(item, close, error).attempt = item.attempt
<1>1. PICK e \in Errors \cup {NULL} : e = IF close = "complete" THEN item.error ELSE error
  BY DEF ItemState
<1>2. PICK status \in {"Dead", "Failed", "Succeeded", "Stopped"} :
        status = CASE close = "complete" -> "Succeeded"
                   [] close = "stop" -> "Stopped"
                   [] OTHER -> IF item.attempt >= item.max THEN "Dead" ELSE "Failed"
  OBVIOUS
<1>3. ClosedItem(item, close, error) =
        [item EXCEPT !.owner = NULL, !.error = e, !.later = close = "retry", !.status = status]
  BY <1>1, <1>2 DEF ClosedItem
<1>4. (close = "retry") \in BOOLEAN
  OBVIOUS
<1> QED BY <1>3, <1>4 DEF ItemState, Terminal

LEMMA CloseStep == ASSUME ProviderInv, NEW c \in Calls, Close(c) PROVE ProviderInv'
<1>1. /\ UNCHANGED <<call, receipts, latest, sent, tokens>> /\ task[c].pc \in {"close", "unrecorded"}
      /\ items \in [Ids -> ItemState \cup {NULL}]
  BY InvTypes DEF Close, ledgerRows
<1>2. task[c].pc \in Claimed
  BY <1>1 DEF Claimed
<1>3. /\ task[c] \in TaskState /\ FlowOK(task[c]) /\ task[c].error \in Errors \cup {NULL}
      /\ task[c].seen \in ItemState
  BY <1>2, ClaimedTypes DEF TaskState
<1>4. PICK i \in Ids : i = task[c].item
  BY <1>2, ClaimedTypes
<1>5. PICK close : close = IF task[c].pc = "unrecorded" THEN "stop" ELSE task[c].close
  OBVIOUS
<1>6. PICK closed : closed = ClosedItem(items[i], close, task[c].error)
  OBVIOUS
<1>7. PICK f \in BOOLEAN :
         /\ Fault(f)
         /\ items' = IF Holds(c) /\ ~f THEN [items EXCEPT ![i] = closed] ELSE items
         /\ IF close = "retry" /\ Holds(c) /\ ~f
            THEN IF closed.status = "Failed" THEN Leave(c, "retry", i)
                 ELSE Step(c, "chain") /\ slot' = slot \ {c} /\ UNCHANGED gate
            ELSE Leave(c, IF close = "complete" THEN "answer" ELSE "error", i)
  BY <1>4, <1>5, <1>6 DEF Close
<1>8. env' \in EnvState /\ env'.issued = env.issued
  BY <1>7, FaultTypes
<1>9. Carried(items', env'.issued)
  <2>1. CASE Holds(c) /\ ~f
    <3>1. items[i] # NULL /\ items[i] \in ItemState
      BY <1>1, <1>4, <2>1 DEF Holds, Owns
    <3>2. closed \in ItemState /\ closed.attempt = items[i].attempt /\ items[i].attempt \in Nat
      BY <1>3, <1>6, <3>1, ClosedType, Parameters DEF ItemState
    <3>3. closed.attempt >= items[i].attempt
      BY <3>2
    <3> QED BY <1>7, <1>8, <2>1, <3>1, <3>2, <3>3, CarriedChange
  <2>2. CASE ~ (Holds(c) /\ ~f)
    BY <1>7, <1>8, <2>2, CarriedStays
  <2> QED BY <2>1, <2>2
<1>10. CASE \E result \in Results : Leave(c, result, i)
  BY <1>1, <1>8, <1>9, <1>10, TaskLeaves
<1>11. CASE Step(c, "chain") /\ UNCHANGED gate
  <2>1. PICK n : n = [task[c] EXCEPT !.pc = "chain"]
    OBVIOUS
  <2>2. n \in TaskState /\ n.pc = "chain" /\ n.item = i /\ n.seen \in ItemState
    BY <1>3, <1>4, <2>1 DEF TaskState
  <2>3. FlowOK(n)
    BY <2>2 DEF FlowOK, Unreserved, Claimed
  <2>4. Inherits(task[c], n)
    BY <2>2, Unclaims DEF Claimed
  <2>5. n.pc \notin Clearing /\ task' = [task EXCEPT ![c] = n]
    BY <1>11, <2>1, <2>2 DEF Clearing, Step
  <2> QED BY <1>1, <1>8, <1>9, <1>11, <2>2, <2>3, <2>4, <2>5, TaskMoves
<1> QED
  <2>1. "retry" \in Results /\ "answer" \in Results /\ "error" \in Results
    BY DEF Results
  <2> QED BY <1>7, <1>10, <1>11, <2>1

LEMMA ChainStep == ASSUME ProviderInv, NEW c \in Calls, Chain(c) PROVE ProviderInv'
<1>1. /\ UNCHANGED <<items, env, call, receipts, latest, sent, tokens>> /\ task[c].pc = "chain"
      /\ items \in [Ids -> ItemState \cup {NULL}] /\ task[c] \in TaskState
  BY InvTypes DEF Chain, ledgerRows, history, queueVars
<1>2. task[c].seen \in ItemState /\ task[c].item \in Ids
  BY <1>1, InvTypes DEF FlowOK
<1>3. PICK i \in Ids : i = task[c].item
  BY <1>2
<1>4. PICK dead \in ItemState : dead = IF items[i] = NULL THEN task[c].seen ELSE items[i]
  BY <1>1, <1>2
<1>5. PICK plan \in PlanState \cup {NULL} : plan = Continued(i, dead)
  <2>1. FALSE \in BOOLEAN
    OBVIOUS
  <2> QED BY <2>1, PlanTypes, InvTypes
<1>6. Carried(items', env'.issued) /\ env' \in EnvState
  BY <1>1, CarriedSame, InvTypes
<1>7. CASE plan = NULL
  <2>1. Leave(c, "error", i)
    BY <1>3, <1>4, <1>5, <1>7 DEF Chain
  <2> QED BY <1>1, <1>6, <2>1, TaskLeaves DEF Results
<1>8. CASE plan # NULL
  <2>1. PICK n : n = [task[c] EXCEPT !.pc = "replace", !.plan = plan, !.seen = NULL]
    OBVIOUS
  <2>2. task' = [task EXCEPT ![c] = n] /\ UNCHANGED gate
    BY <1>3, <1>4, <1>5, <1>8, <2>1 DEF Chain
  <2>3. n \in TaskState /\ n.pc = "replace" /\ n.plan = plan /\ n.item = i
    BY <1>1, <1>3, <2>1 DEF TaskState
  <2>4. FlowOK(n)
    BY <1>8, <2>3 DEF FlowOK, Unreserved, Claimed
  <2>5. Inherits(task[c], n)
    BY <2>3, Unclaims DEF Claimed
  <2>6. n.pc \notin Clearing
    BY <2>3 DEF Clearing
  <2> QED BY <1>1, <1>6, <2>2, <2>3, <2>4, <2>5, <2>6, TaskMoves
<1> QED BY <1>7, <1>8

----------------------------------------------------------------------------
(* The steps that change the claims, the ledger or what was sent.          *)

\* A grant: the attempt's reference is one that nobody had.
LEMMA GrantStep ==
    ASSUME ProviderInv, NEW c \in Calls, task[c].pc = "claim", NEW table, Carried(table, env.issued),
           NEW i \in Ids, items[i] # NULL, NEW a \in Attempts, a > items[i].attempt,
           NEW x \in ItemState, x.attempt = a, items' = [table EXCEPT ![i] = x],
           NEW n \in TaskState, n.pc = "recover", n.item = i, n.attempt = a, FlowOK(n),
           task' = [task EXCEPT ![c] = n],
           UNCHANGED <<env, call, receipts, latest, sent, tokens, gate>>
    PROVE  ProviderInv'
<1>1. a \in Nat /\ items[i].attempt \in Nat /\ i <= env.issued
  <2>1. items[i] \in ItemState
    BY InvTypes
  <2> QED BY <2>1, Parameters, InvTypes DEF ItemState, RefInv
<1>10. PICK f \in Refs : f = <<i, a>> /\ f = RefOf(n)
  BY DEF Refs, RefOf, Attempts
<1>11. receipts[f] = NULL /\ f \notin SentRefs
  <2>1. f[1] = i /\ f[2] = a
    BY <1>10
  <2>2. receipts[f] = NULL
    <3>1. SUFFICES ASSUME receipts[f] # NULL PROVE FALSE
      OBVIOUS
    <3>2. f[2] <= items[f[1]].attempt
      BY <2>1, <3>1, InvTypes DEF RefInv
    <3> QED BY <1>1, <2>1, <3>2
  <2> QED BY <2>2, InvTypes DEF SentInv, SentRefs
<1>12. ASSUME NEW d \in Calls, d # c, task[d].pc \in Claimed PROVE RefOf(task[d]) # f
  <2>1. ClaimOK(task[d]) /\ task[d].attempt \in Attempts
    BY <1>12, ClaimedTypes DEF ProviderInv
  <2>2. task[d].item = i => task[d].attempt <= items[i].attempt
    BY <1>12, <2>1 DEF ClaimOK
  <2>3. task[d].attempt \in Nat
    BY <2>1, Parameters
  <2> QED BY <1>1, <1>10, <2>2, <2>3 DEF RefOf
<1>13. Carried(items', env.issued)
  <2>1. PICK new : new = [table EXCEPT ![i] = x]
    OBVIOUS
  <2>2. /\ new \in [Ids -> ItemState \cup {NULL}] /\ new[i] = x
        /\ \A j \in Ids : j # i => new[j] = table[j]
    BY <2>1 DEF Carried
  <2>3. x.attempt >= items[i].attempt
    BY <1>1
  <2>4. Carried(new, env.issued)
    BY <1>1, <2>2, <2>3 DEF Carried
  <2> QED BY <2>1, <2>4
<1>14. /\ task' \in [Calls -> TaskState] /\ task'[c] = n
       /\ \A d \in Calls : d # c => task'[d] = task[d]
  BY InvTypes
<1>15. ProviderTypeOK'
  BY <1>13, <1>14, InvTypes DEF ProviderTypeOK, Carried
<1>16. GateInv'
  <2>1. \A d \in Calls : task'[d].pc \in Clearing => task[d].pc \in Clearing
    BY <1>14 DEF Clearing
  <2> QED BY <2>1, GateSame
<1>17. items'[i] = x
  BY DEF Carried
<1>18. RefInv'
  <2>0. /\ \A g \in Refs : g[1] \in Ids /\ g[2] \in Nat
        /\ \A j \in Ids : items'[j] # NULL => items'[j].attempt \in Nat
        /\ \A j \in Ids : items[j] # NULL => items[j].attempt \in Nat
    <3>1. \A j \in Ids : items'[j] \in ItemState \cup {NULL} /\ items[j] \in ItemState \cup {NULL}
      BY <1>13, InvTypes DEF Carried
    <3>2. \A y \in ItemState : y.attempt \in Nat
      BY Parameters DEF ItemState
    <3>3. \A g \in Refs : g[1] \in Ids /\ g[2] \in Nat
      BY Parameters DEF Refs, Ids
    <3> QED BY <3>1, <3>2, <3>3
  <2>1. \A j \in Ids : items'[j] # NULL => j <= env'.issued
    BY <1>13 DEF Carried
  <2>2. ASSUME NEW g \in Refs, receipts[g] # NULL
        PROVE  g[1] <= env.issued /\ (items'[g[1]] # NULL => g[2] <= items'[g[1]].attempt)
    <3>1. g[1] <= env.issued /\ (items[g[1]] # NULL => g[2] <= items[g[1]].attempt)
      BY <2>2, InvTypes DEF RefInv
    <3>2. PICK j \in Ids, b \in Nat : j = g[1] /\ b = g[2]
      BY <2>0
    <3>3. items'[j] # NULL => items[j] # NULL /\ items'[j].attempt >= items[j].attempt
      BY <1>13, <3>1, <3>2 DEF Carried
    <3>4. items'[j] # NULL => b <= items'[j].attempt
      BY <2>0, <3>1, <3>2, <3>3
    <3> QED BY <3>1, <3>2, <3>4
  <2>3. ASSUME NEW d \in Calls, NEW e \in Calls, d # e, task'[d].pc \in Claimed, task'[e].pc \in Claimed
        PROVE  RefOf(task'[d]) # RefOf(task'[e])
    <3>1. CASE d = c
      BY <1>10, <1>12, <1>14, <2>3, <3>1
    <3>2. CASE e = c
      BY <1>10, <1>12, <1>14, <2>3, <3>2
    <3>3. CASE d # c /\ e # c
      BY <1>14, <2>3, <3>3, InvTypes DEF RefInv
    <3> QED BY <3>1, <3>2, <3>3
  <2> QED BY <2>1, <2>2, <2>3 DEF RefInv, RefOf
<1>19. SentInv'
  BY InvTypes DEF SentInv
<1>20. ASSUME NEW d \in Calls
       PROVE  (CallOK(call[d]) /\ FlowOK(task[d]) /\ ClaimOK(task[d]) /\ SpendOK(task[d], RequestOf(d)))'
  <2>1. CallOK(call'[d]) /\ FlowOK(task'[d])
    BY <1>14, InvTypes
  <2>2. CASE d = c
    <3>1. ClaimOK(task[d])'
      BY <1>1, <1>14, <1>17, <2>2 DEF ClaimOK
    <3>2. SpendOK(task[d], RequestOf(d))'
      <4>1. RefOf(task'[d]) = f /\ ~ Holder(task'[d]) /\ SentRefs' = SentRefs /\ receipts' = receipts
        BY <1>10, <1>14, <2>2 DEF Holder, SentRefs
      <4> QED BY <1>11, <4>1 DEF SpendOK, RefOf, Holder
    <3> QED BY <2>1, <3>1, <3>2
  <2>3. CASE d # c
    <3>1. task'[d] = task[d] /\ ClaimOK(task[d]) /\ SpendOK(task[d], RequestOf(d))
      BY <1>14, <2>3 DEF ProviderInv
    <3>2. ClaimOK(task[d])'
      <4>1. SUFFICES ASSUME task[d].pc \in Claimed
                     PROVE  /\ task[d].item <= env.issued
                            /\ items'[task[d].item] # NULL => task[d].attempt <= items'[task[d].item].attempt
        BY <3>1 DEF ClaimOK
      <4>2. /\ task[d].item \in Ids /\ task[d].attempt \in Nat /\ task[d].item <= env.issued
            /\ items[task[d].item] # NULL => task[d].attempt <= items[task[d].item].attempt
        BY <3>1, <4>1, ClaimedTypes, Parameters DEF ClaimOK
      <4>3. /\ items'[task[d].item] # NULL => items'[task[d].item].attempt \in Nat
            /\ items[task[d].item] # NULL => items[task[d].item].attempt \in Nat
        <5>1. \A j \in Ids : items'[j] \in ItemState \cup {NULL} /\ items[j] \in ItemState \cup {NULL}
          BY <1>13, InvTypes DEF Carried
        <5>2. \A y \in ItemState : y.attempt \in Nat
          BY Parameters DEF ItemState
        <5> QED BY <4>2, <5>1, <5>2
      <4>4. PICK j \in Ids, b \in Nat : j = task[d].item /\ b = task[d].attempt
        BY <4>2
      <4>5. items'[j] # NULL => items[j] # NULL /\ items'[j].attempt >= items[j].attempt
        BY <1>13, <4>2, <4>4 DEF Carried
      <4>6. items'[j] # NULL => b <= items'[j].attempt
        BY <4>2, <4>3, <4>4, <4>5
      <4> QED BY <4>2, <4>4, <4>6
    <3>3. SpendOK(task[d], RequestOf(d))'
      BY <3>1 DEF SpendOK, Open, SentRefs, RequestOf, Holder, RefOf
    <3> QED BY <2>1, <3>2, <3>3
  <2> QED BY <2>2, <2>3
<1>21. ASSUME NEW r \in Requests PROVE LedgerOf(r)'
  BY LedgerDepends, InvTypes
<1> QED BY <1>15, <1>16, <1>18, <1>19, <1>20, <1>21 DEF ProviderInv

LEMMA ClaimItemStep == ASSUME ProviderInv, NEW c \in Calls, ClaimItem(c) PROVE ProviderInv'
<1>1. /\ UNCHANGED <<env, call, receipts, latest, sent, tokens>> /\ task[c].pc = "claim"
      /\ items \in [Ids -> ItemState \cup {NULL}] /\ env \in EnvState
  BY InvTypes DEF ClaimItem, ledgerRows, history
<1>2. PICK i \in Ids : i = task[c].item
  BY <1>1, InvTypes DEF FlowOK
<1>3. PICK table : table = IF cooling THEN items ELSE Reclaimed
  OBVIOUS
<1>4. /\ Carried(table, env.issued) /\ Carried(items, env.issued) /\ table[i] \in ItemState \cup {NULL}
      /\ table[i] # NULL => items[i] # NULL
      /\ table[i] # NULL => table[i] \in ItemState /\ table[i].attempt = items[i].attempt
  <2>1. Carried(table, env.issued) /\ Carried(items, env.issued) /\ table[i] \in ItemState \cup {NULL}
    BY <1>3, CarriedSame, CarriedReclaimed DEF Carried
  <2>2. table[i] = items[i] \/ table[i] = ReclaimedItem(items[i])
    BY <1>3 DEF Reclaimed
  <2>3. PICK y, z : /\ y \in ItemState \cup {NULL} /\ y = items[i] /\ z = table[i]
                    /\ z = y \/ z = ReclaimedItem(y)
    BY <1>1, <2>2
  <2>4. z # NULL => y # NULL /\ z \in ItemState /\ z.attempt = y.attempt
    BY <2>3, ReclaimedType
  <2> QED BY <2>1, <2>3, <2>4
<1>5. PICK granted \in BOOLEAN :
        /\ granted => table[i] # NULL /\ table[i].attempt < table[i].max
        /\ items' = IF table[i] = NULL THEN items
                    ELSE IF granted
                    THEN [table EXCEPT ![i].status = "Running", ![i].owner = ProcessOf[c],
                                       ![i].attempt = @ + 1]
                    ELSE table
        /\ IF granted
           THEN /\ task' = [task EXCEPT ![c].pc = "recover", ![c].attempt = table[i].attempt + 1,
                                        ![c].seen = [table[i] EXCEPT !.attempt = @ + 1]]
                /\ UNCHANGED <<slot, gate>>
           ELSE Leave(c, IF table[i] = NULL THEN "missing" ELSE "notclaimed", i)
  BY <1>2, <1>3 DEF ClaimItem
<1>6. CASE granted
  <2>1. /\ items[i] # NULL /\ table[i] \in ItemState /\ table[i].attempt = items[i].attempt
        /\ table[i].attempt < table[i].max /\ UNCHANGED gate
    BY <1>4, <1>5, <1>6
  <2>2. PICK a : a = table[i].attempt + 1
    OBVIOUS
  <2>3. a \in Attempts /\ a > items[i].attempt /\ a \in 0..LogicalAttempts
    <3>1. PICK k, m : /\ k = table[i].attempt /\ m = table[i].max /\ k \in 0..LogicalAttempts
                      /\ m \in 1..LogicalAttempts
      BY <2>1 DEF ItemState, Attempts
    <3>2. a = k + 1 /\ k < m /\ k = items[i].attempt /\ LogicalAttempts \in Nat
      BY <2>1, <2>2, <3>1, Parameters
    <3> QED BY <3>1, <3>2 DEF Attempts
  <2>4. PICK x : x = [table[i] EXCEPT !.status = "Running", !.owner = ProcessOf[c], !.attempt = a]
    OBVIOUS
  <2>5. x \in ItemState /\ x.attempt = a
    <3>1. PICK p \in Processes \cup {NULL} : p = ProcessOf[c]
      BY Parameters
    <3>2. x = [table[i] EXCEPT !.status = "Running", !.owner = p, !.attempt = a]
      BY <2>4, <3>1
    <3> QED BY <2>1, <2>3, <3>2 DEF ItemState
  <2>6. PICK seen : seen = [table[i] EXCEPT !.attempt = a]
    OBVIOUS
  <2>7. seen \in ItemState
    BY <2>1, <2>3, <2>6 DEF ItemState
  <2>8. PICK n : n = [task[c] EXCEPT !.pc = "recover", !.attempt = a, !.seen = seen]
    OBVIOUS
  <2>9. items' = [table EXCEPT ![i] = x]
    BY <1>4, <1>5, <1>6, <2>2, <2>4 DEF Carried
  <2>10. task' = [task EXCEPT ![c] = n]
    BY <1>5, <1>6, <2>2, <2>6, <2>8
  <2>11. task[c] \in TaskState /\ FlowOK(task[c])
    BY InvTypes
  <2>12. /\ n \in TaskState /\ n.pc = "recover" /\ n.item = i /\ n.attempt = a /\ n.seen = seen
         /\ n.reserved = task[c].reserved
    BY <1>2, <2>3, <2>7, <2>8, <2>11 DEF TaskState, Claimed
  <2>13. FlowOK(n)
    BY <1>1, <2>3, <2>7, <2>11, <2>12 DEF FlowOK, Unreserved
  <2> QED BY <1>1, <1>4, <2>1, <2>3, <2>5, <2>9, <2>10, <2>12, <2>13, GrantStep
<1>7. CASE ~ granted
  <2>1. PICK result \in Results : Leave(c, result, i)
    BY <1>5, <1>7 DEF Results
  <2>2. Carried(items', env'.issued) /\ env' \in EnvState
    BY <1>1, <1>4, <1>5, <1>7
  <2> QED BY <1>1, <2>1, <2>2, TaskLeaves
<1> QED BY <1>6, <1>7

\* A row of the ledger changes, and the ledgers of the other requests do not.
LEMMA LedgerOther ==
    ASSUME ProviderTypeOK, NEW q \in Requests, LedgerOf(q), NEW f \in Refs, NEW x \in Receipt,
           receipts' = [receipts EXCEPT ![f] = x], x.request # q,
           receipts[f] # NULL => receipts[f].request # q, latest'[q] = latest[q]
    PROVE  LedgerOf(q)'
<1>0. receipts \in [Refs -> Receipt \cup {NULL}]
  BY DEF ProviderTypeOK
<1>1. RefsOf(q)' = RefsOf(q) /\ f \notin RefsOf(q)
  BY <1>0 DEF RefsOf
<1>2. \A g \in RefsOf(q) : receipts'[g] = receipts[g]
  BY <1>0, <1>1 DEF RefsOf
<1>3. Counted(q)' = Counted(q)
  BY <1>1, <1>2 DEF Counted
<1>4. AttemptsUsed(q)' = AttemptsUsed(q)
  <2>1. latest[q] # NULL => receipts'[latest[q]] = receipts[latest[q]]
    BY <1>2 DEF LedgerOf
  <2> QED BY <2>1 DEF AttemptsUsed, LatestReceipt
<1> QED BY <1>1, <1>2, <1>3, <1>4 DEF LedgerOf

LEMMA FiniteRefs ==
    ASSUME NEW S \in SUBSET Refs
    PROVE  IsFiniteSet(S) /\ Cardinality(S) \in Nat
<1>1. IsFiniteSet(Ids) /\ IsFiniteSet(1..LogicalAttempts)
  BY Parameters, FS_Interval DEF Ids
<1>2. IsFiniteSet(Refs)
  BY <1>1, FS_Product DEF Refs
<1> QED BY <1>2, FS_Subset, FS_CardinalityType

LEMMA CountedRefs ==
    ASSUME NEW r
    PROVE  IsFiniteSet(Counted(r)) /\ Cardinality(Counted(r)) \in Nat /\ Counted(r) \subseteq Refs
<1>1. Counted(r) \in SUBSET Refs
  BY DEF Counted, RefsOf
<1> QED BY <1>1, FiniteRefs

\* Evidence about the latest receipt of a request.
LEMMA LedgerEvidence ==
    ASSUME ProviderTypeOK, NEW r \in Requests, LedgerOf(r), NEW f \in Refs, f = latest[r],
           NEW x \in Receipt, receipts' = [receipts EXCEPT ![f] = x], x.request = r,
           x.pre = receipts[f].pre, x.used = receipts[f].used, latest' = latest
    PROVE  LedgerOf(r)'
<1>0. receipts \in [Refs -> Receipt \cup {NULL}] /\ f # NULL /\ x # NULL
  BY NullIsNothing DEF ProviderTypeOK
<1>1. RefsOf(r)' = RefsOf(r) /\ f \in RefsOf(r)
  BY <1>0 DEF RefsOf, LedgerOf
<1>2. /\ \A g \in RefsOf(r) : g # f => receipts'[g] = receipts[g]
      /\ receipts'[f] = x
  BY <1>0, <1>1 DEF RefsOf
<1>3. Counted(r)' = Counted(r)
  BY <1>1, <1>2 DEF Counted
<1>4. AttemptsUsed(r)' = AttemptsUsed(r)
  BY <1>0, <1>2 DEF AttemptsUsed, LatestReceipt
<1> QED BY <1>1, <1>2, <1>3, <1>4 DEF LedgerOf

\* An unsent attempt is given back.
LEMMA LedgerReleased ==
    ASSUME ProviderTypeOK, NEW r \in Requests, LedgerOf(r), NEW f \in Refs, f = latest[r],
           ~ receipts[f].pre, NEW x \in Receipt, receipts' = [receipts EXCEPT ![f] = x],
           x.request = r, x.pre, x.used = IF r \in Explicit THEN receipts[f].used - 1 ELSE receipts[f].used,
           latest' = latest
    PROVE  LedgerOf(r)'
<1>0. receipts \in [Refs -> Receipt \cup {NULL}] /\ f # NULL /\ x # NULL
  BY NullIsNothing DEF ProviderTypeOK
<1>1. RefsOf(r)' = RefsOf(r) /\ f \in RefsOf(r)
  BY <1>0 DEF RefsOf, LedgerOf
<1>2. /\ \A g \in RefsOf(r) : g # f => receipts'[g] = receipts[g]
      /\ receipts'[f] = x
  BY <1>0, <1>1 DEF RefsOf
<1>3. Counted(r)' = Counted(r) \ {f} /\ f \in Counted(r)
  BY <1>1, <1>2 DEF Counted
<1>4. r \in Explicit => AttemptsUsed(r)' = AttemptsUsed(r) - 1
  BY <1>0, <1>2 DEF AttemptsUsed, LatestReceipt
<1>5. Cardinality(Counted(r) \ {f}) = Cardinality(Counted(r)) - 1
  BY <1>3, CountedRefs, FS_RemoveElement
<1>6. r \in Explicit => AttemptsUsed(r)' = Cardinality(Counted(r)') /\ AttemptsUsed(r)' <= LogicalAttempts
  <2>1. Cardinality(Counted(r)) \in Nat /\ LogicalAttempts \in Nat
    BY CountedRefs, Parameters
  <2>2. r \in Explicit => /\ AttemptsUsed(r) = Cardinality(Counted(r))
                          /\ AttemptsUsed(r) <= LogicalAttempts
    BY DEF LedgerOf
  <2> QED BY <1>3, <1>4, <1>5, <2>1, <2>2
<1> QED BY <1>1, <1>2, <1>6 DEF LedgerOf

\* What a reservation that is not refused says about the ledger.
LEMMA NotRefused ==
    ASSUME NEW r, Refusal(r) = NULL
    PROVE  /\ \A f \in RefsOf(r) : receipts[f].state # "Unknown"
           /\ r \in Explicit =>
                /\ latest[r] # NULL => LatestReceipt(r).state # "Settled"
                /\ ~ (AttemptsUsed(r) >= LogicalAttempts)
<1>1. NULL \notin {"completed", "reconcile", "attempts", "spend", "ledger"}
  BY NullIsNothing
<1> QED BY <1>1 DEF Refusal

LEMMA LedgerReserved ==
    ASSUME ProviderTypeOK, NEW r \in Requests, LedgerOf(r), NEW f \in Refs, receipts[f] = NULL,
           Refusal(r) = NULL, NEW x \in Receipt, receipts' = [receipts EXCEPT ![f] = x],
           x.request = r, ~ x.pre, r \in Explicit => x.used = AttemptsUsed(r) + 1,
           latest' = [latest EXCEPT ![r] = f]
    PROVE  LedgerOf(r)'
<1>0. /\ receipts \in [Refs -> Receipt \cup {NULL}] /\ f # NULL /\ x # NULL
      /\ latest \in [Requests -> Refs \cup {NULL}]
  BY NullIsNothing DEF ProviderTypeOK
<1>1. RefsOf(r)' = RefsOf(r) \cup {f} /\ f \notin RefsOf(r)
  BY <1>0 DEF RefsOf
<1>2. /\ \A g \in RefsOf(r) : receipts'[g] = receipts[g]
      /\ receipts'[f] = x /\ latest'[r] = f
  BY <1>0, <1>1 DEF RefsOf
<1>3. Counted(r)' = Counted(r) \cup {f} /\ f \notin Counted(r)
  BY <1>1, <1>2 DEF Counted
<1>4. r \in Explicit => AttemptsUsed(r)' = AttemptsUsed(r) + 1
  BY <1>0, <1>2 DEF AttemptsUsed, LatestReceipt
<1>5. Cardinality(Counted(r) \cup {f}) = Cardinality(Counted(r)) + 1
  BY <1>3, CountedRefs, FS_AddElement
<1>6. r \in Explicit => AttemptsUsed(r)' = Cardinality(Counted(r)') /\ AttemptsUsed(r)' <= LogicalAttempts
  <2>1. Cardinality(Counted(r)) \in Nat /\ LogicalAttempts \in Nat
    BY CountedRefs, Parameters
  <2>2. r \in Explicit => /\ AttemptsUsed(r) = Cardinality(Counted(r))
                          /\ ~ (AttemptsUsed(r) >= LogicalAttempts)
    BY NotRefused DEF LedgerOf
  <2> QED BY <1>3, <1>4, <1>5, <2>1, <2>2
<1>7. ASSUME NEW g \in RefsOf(r)
      PROVE  receipts[g].state # "Unknown" /\ (r \in Explicit => receipts[g].state = "Released")
  <2>1. receipts[g].state # "Unknown"
    BY NotRefused
  <2>2. ASSUME r \in Explicit, g = latest[r] PROVE receipts[g].state = "Released"
    <3>1. latest[r] # NULL /\ receipts[g] \in Receipt
      BY <1>0, <1>7, <2>2, NullIsNothing DEF RefsOf
    <3>2. receipts[g].state # "Settled"
      BY <2>2, <3>1, NotRefused DEF LatestReceipt
    <3> QED BY <2>1, <3>1, <3>2 DEF Receipt
  <2> QED BY <2>1, <2>2 DEF LedgerOf
<1>8. ASSUME NEW g \in RefsOf(r)', g # latest'[r]
      PROVE  receipts'[g].state # "Unknown" /\ (r \in Explicit => receipts'[g].state = "Released")
  <2>1. g \in RefsOf(r)
    BY <1>1, <1>2, <1>8
  <2> QED BY <1>2, <1>7, <2>1
<1>9. latest'[r] \in RefsOf(r)' /\ latest'[r] # NULL
  BY <1>0, <1>1, <1>2
<1> QED BY <1>6, <1>8, <1>9 DEF LedgerOf

\* An open reservation is its request's latest receipt.
LEMMA OpenIsLatest ==
    ASSUME ProviderInv, NEW f \in Refs, receipts[f] # NULL, receipts[f].state = "Unknown"
    PROVE  receipts[f] \in Receipt /\ receipts[f].request \in Requests /\ f = latest[receipts[f].request]
<1>1. receipts[f] \in Receipt
  BY InvTypes
<1>2. receipts[f].request \in Requests /\ f \in RefsOf(receipts[f].request)
  BY <1>1 DEF Receipt, RefsOf
<1>3. LedgerOf(receipts[f].request)
  BY <1>2 DEF ProviderInv
<1> QED BY <1>1, <1>2, <1>3 DEF LedgerOf

\* A step that writes one receipt, whose task is the only one that has its
\* reference; the ledger itself is left to the step.
LEMMA RowMoves ==
    ASSUME ProviderInv, NEW f \in Refs, NEW x \in Receipt, receipts' = [receipts EXCEPT ![f] = x],
           f[1] <= env.issued, items[f[1]] # NULL => f[2] <= items[f[1]].attempt,
           f \in SentRefs => ~ x.pre,
           latest' \in [Requests -> Refs \cup {NULL}], \A r \in Requests : LedgerOf(r)',
           task' \in [Calls -> TaskState],
           \A d \in Calls :
              /\ FlowOK(task'[d])
              /\ task'[d].pc \in Claimed =>
                   /\ task[d].pc \in Claimed /\ task'[d].item = task[d].item
                   /\ task'[d].attempt = task[d].attempt
              /\ task'[d].pc \in Clearing => task[d].pc \in Clearing
              /\ SpendOK(task[d], RequestOf(d))',
           env' \in EnvState, env'.issued = env.issued,
           UNCHANGED <<items, call, sent, tokens, gate>>
    PROVE  ProviderInv'
<1>1. receipts \in [Refs -> Receipt \cup {NULL}] /\ receipts'[f] = x /\ x # NULL
      /\ \A g \in Refs : g # f => receipts'[g] = receipts[g]
  BY InvTypes, NullIsNothing
<1>2. ProviderTypeOK'
  BY <1>1, InvTypes DEF ProviderTypeOK
<1>3. GateInv'
  BY GateSame
<1>4. RefInv'
  <2>1. \A i \in Ids : items[i] # NULL => i <= env.issued
    BY InvTypes DEF RefInv
  <2>2. ASSUME NEW g \in Refs, receipts'[g] # NULL
        PROVE  g[1] <= env.issued /\ (items[g[1]] # NULL => g[2] <= items[g[1]].attempt)
    <3>1. CASE g = f
      BY <3>1
    <3>2. CASE g # f
      BY <1>1, <2>2, <3>2, InvTypes DEF RefInv
    <3> QED BY <3>1, <3>2
  <2>3. ASSUME NEW c \in Calls, NEW d \in Calls, c # d, task'[c].pc \in Claimed, task'[d].pc \in Claimed
        PROVE  RefOf(task'[c]) # RefOf(task'[d])
    BY <2>3, InvTypes DEF RefOf, RefInv
  <2> QED BY <2>1, <2>2, <2>3 DEF RefInv, RefOf
<1>5. SentInv'
  <2>1. ASSUME NEW s \in sent PROVE s[1] \in Refs /\ receipts'[s[1]] # NULL /\ ~ receipts'[s[1]].pre
    <3>1. s[1] \in Refs /\ receipts[s[1]] # NULL /\ ~ receipts[s[1]].pre
      BY InvTypes DEF SentInv
    <3>2. CASE s[1] = f
      BY <1>1, <3>2 DEF SentRefs
    <3>3. CASE s[1] # f
      BY <1>1, <3>1, <3>3
    <3> QED BY <3>1, <3>2, <3>3
  <2> QED BY <2>1, InvTypes DEF SentInv
<1>6. ASSUME NEW d \in Calls
      PROVE  (CallOK(call[d]) /\ FlowOK(task[d]) /\ ClaimOK(task[d]) /\ SpendOK(task[d], RequestOf(d)))'
  <2>1. CallOK(call'[d]) /\ FlowOK(task'[d]) /\ SpendOK(task[d], RequestOf(d))'
    BY InvTypes
  <2>2. ClaimOK(task[d])'
    <3>1. ClaimOK(task[d])
      BY DEF ProviderInv
    <3> QED BY <3>1 DEF ClaimOK
  <2> QED BY <2>1, <2>2
<1> QED BY <1>2, <1>3, <1>4, <1>5, <1>6 DEF ProviderInv

\* The tasks of other references are not concerned.
LEMMA SpendOther ==
    ASSUME ProviderInv, NEW f \in Refs, NEW x, receipts' = [receipts EXCEPT ![f] = x], sent' = sent,
           NEW d \in Calls, task'[d] = task[d], call' = call,
           task[d].pc \in Claimed => RefOf(task[d]) # f
    PROVE  SpendOK(task[d], RequestOf(d))'
<1>1. PICK t : t = task[d]
  OBVIOUS
<1>2. PICK r : r = call[d].request
  OBVIOUS
<1>3. SpendOK(t, r)
  BY <1>1, <1>2 DEF ProviderInv, RequestOf
<1>4. CASE t.pc \in Claimed
  <2>1. PICK g \in Refs : g = RefOf(t) /\ g # f
    BY <1>1, <1>4, ClaimedTypes
  <2>2. receipts'[g] = receipts[g]
    BY <2>1, InvTypes
  <2>3. SpendOK(t, r)'
    BY <1>3, <2>1, <2>2 DEF SpendOK, Open, SentRefs, RefOf, Holder
  <2> QED BY <1>1, <1>2, <2>3 DEF SpendOK, Open, SentRefs, RefOf, Holder, RequestOf
<1>5. CASE t.pc \notin Claimed
  BY <1>1, <1>5 DEF SpendOK, Claimed, Presend, Holder
<1> QED BY <1>4, <1>5

\* A task writes the receipt of its own reference.
LEMMA TaskWrites ==
    ASSUME ProviderInv, NEW c \in Calls, task[c].pc \in Claimed, NEW f, f = RefOf(task[c]),
           NEW x \in Receipt, receipts' = [receipts EXCEPT ![f] = x], f \in SentRefs => ~ x.pre,
           NEW n \in TaskState, FlowOK(n), n.pc \in Claimed \ {"recover", "reserve"},
           n.item = task[c].item, n.attempt = task[c].attempt,
           n.pc \in Clearing => task[c].pc \in Clearing, task' = [task EXCEPT ![c] = n],
           n.pc \in Presend => f \notin SentRefs,
           Holder(n) => /\ x.request = RequestOf(c) /\ x.state = "Unknown"
                        /\ ~ x.pre /\ ~ x.output,
           latest' \in [Requests -> Refs \cup {NULL}], \A r \in Requests : LedgerOf(r)',
           env' \in EnvState, env'.issued = env.issued, UNCHANGED <<items, call, sent, tokens, gate>>
    PROVE  ProviderInv'
<1>1. f \in Refs /\ f[1] = task[c].item /\ f[2] = task[c].attempt /\ RefOf(n) = f
  BY ClaimedTypes DEF RefOf
<1>2. f[1] <= env.issued /\ (items[f[1]] # NULL => f[2] <= items[f[1]].attempt)
  BY <1>1 DEF ProviderInv, ClaimOK
<1>3. /\ task' \in [Calls -> TaskState] /\ task'[c] = n
      /\ \A d \in Calls : d # c => task'[d] = task[d]
  BY InvTypes
<1>4. \A d \in Calls :
        /\ FlowOK(task'[d])
        /\ task'[d].pc \in Claimed =>
             /\ task[d].pc \in Claimed /\ task'[d].item = task[d].item
             /\ task'[d].attempt = task[d].attempt
        /\ task'[d].pc \in Clearing => task[d].pc \in Clearing
  BY <1>3, InvTypes
<1>5. ASSUME NEW d \in Calls PROVE SpendOK(task[d], RequestOf(d))'
  <2>1. CASE d = c
    <3>1. receipts'[f] = x /\ x # NULL
      BY <1>1, InvTypes, NullIsNothing
    <3>2. RefOf(task'[d]) = f /\ SentRefs' = SentRefs /\ task'[d] = n /\ RequestOf(d)' = RequestOf(c)
      BY <1>1, <1>3, <2>1 DEF SentRefs, RequestOf
    <3>3. /\ task'[d].pc \in Presend => RefOf(task'[d]) \notin SentRefs'
          /\ task'[d].pc \notin {"recover", "reserve"}
          /\ Holder(task'[d]) => Open(f, RequestOf(c))'
      BY <3>1, <3>2 DEF Open, RequestOf
    <3>4. Open(f, RequestOf(c))' => Open(RefOf(task[d]), RequestOf(d))'
      BY <2>1, <3>2 DEF Open, RefOf
    <3> QED BY <3>2, <3>3, <3>4 DEF SpendOK, RefOf, Holder
  <2>2. CASE d # c
    <3>1. task'[d] = task[d] /\ (task[d].pc \in Claimed => RefOf(task[d]) # f)
      BY <1>3, <2>2, InvTypes DEF RefInv
    <3> QED BY <1>1, <3>1, SpendOther
  <2> QED BY <2>1, <2>2
<1> QED BY <1>1, <1>2, <1>3, <1>4, <1>5, RowMoves

LEMMA ReserveStep == ASSUME ProviderInv, NEW c \in Calls, Reserve(c) PROVE ProviderInv'
<1>1. UNCHANGED <<items, call, sent, tokens, gate>> /\ task[c].pc = "reserve"
  BY DEF Reserve, limits, queueVars
<1>2. task[c].pc \in Claimed /\ task[c].pc \in Presend /\ task[c].pc \in Clearing
  BY <1>1 DEF Claimed, Presend, Clearing
<1>3. /\ task[c] \in TaskState /\ FlowOK(task[c]) /\ RefOf(task[c]) \in Refs /\ Ref(c) = RefOf(task[c])
      /\ ~ task[c].reserved
  BY <1>1, <1>2, ClaimedTypes DEF FlowOK, Unreserved
<1>4. PICK f, refusal :
        /\ f \in BOOLEAN /\ refusal = IF f THEN "ledger" ELSE Refusal(RequestOf(c))
        /\ Fault(f)
        /\ IF refusal = NULL THEN Reserved(c) ELSE UNCHANGED ledgerRows
        /\ task' = [task EXCEPT ![c].pc = "heartbeat", ![c].reserved = refusal = NULL,
                                ![c].error = refusal]
  BY DEF Reserve
<1>5. env' \in EnvState /\ env'.issued = env.issued
  BY <1>4, FaultTypes
<1>6. refusal \in Errors \cup {NULL}
  <2>1. Refusal(RequestOf(c)) \in {"completed", "reconcile", "attempts", "spend", NULL}
    BY DEF Refusal
  <2> QED BY <1>4, <2>1 DEF Errors
<1>7. PICK b \in BOOLEAN : b = (refusal = NULL)
  OBVIOUS
<1>8. PICK n : n = [task[c] EXCEPT !.pc = "heartbeat", !.reserved = b, !.error = refusal]
  OBVIOUS
<1>9. /\ n \in TaskState /\ n.pc = "heartbeat" /\ n.item = task[c].item
      /\ n.attempt = task[c].attempt /\ n.seen = task[c].seen /\ (~ b => ~ n.reserved)
  <2>1. CASE b
    <3>1. n = [task[c] EXCEPT !.pc = "heartbeat", !.reserved = TRUE, !.error = refusal]
      BY <1>8, <2>1
    <3> QED BY <1>3, <1>6, <2>1, <3>1 DEF TaskState, Claimed
  <2>2. CASE ~ b
    <3>1. n = [task[c] EXCEPT !.pc = "heartbeat", !.reserved = FALSE, !.error = refusal]
      BY <1>8, <2>2
    <3> QED BY <1>3, <1>6, <2>2, <3>1 DEF TaskState, Claimed
  <2> QED BY <2>1, <2>2
<1>10. FlowOK(n)
  BY <1>2, <1>3, <1>9, KeepsClaim DEF Claimed, Unreserved
<1>11. task' = [task EXCEPT ![c] = n] /\ n.pc \in Claimed \ {"recover", "reserve"}
  BY <1>4, <1>7, <1>8, <1>9 DEF Claimed
<1>12. CASE ~ b
  <2>1. UNCHANGED <<receipts, latest>>
    BY <1>4, <1>7, <1>12 DEF ledgerRows
  <2>2. Inherits(task[c], n)
    BY <1>2, <1>9, <1>12 DEF Inherits, Holder
  <2>3. Carried(items', env'.issued)
    BY <1>1, <1>5, CarriedStays
  <2> QED BY <1>1, <1>2, <1>5, <1>9, <1>10, <1>11, <2>1, <2>2, <2>3, TaskMoves
<1>13. CASE b
  <2>1. PICK g \in Refs, r \in Requests : g = Ref(c) /\ r = RequestOf(c)
    BY <1>3, InvTypes
  <2>2. PICK x : x = [request |-> r, state |-> "Unknown", pre |-> FALSE, output |-> FALSE,
                      used |-> IF r \in Explicit THEN AttemptsUsed(r) + 1 ELSE 0]
    OBVIOUS
  <2>3. receipts' = [receipts EXCEPT ![g] = x] /\ latest' = [latest EXCEPT ![r] = g] /\ ~ f
    <3>1. Reserved(c)
      BY <1>4, <1>7, <1>13
    <3>2. ~ f
      BY <1>4, <1>7, <1>13, NullIsNothing
    <3> QED BY <2>1, <2>2, <3>1, <3>2 DEF Reserved
  <2>4. Refusal(r) = NULL
    BY <1>4, <1>7, <1>13, <2>1, <2>3
  <2>5. x \in Receipt /\ x.request = r /\ ~ x.pre /\ ~ x.output /\ x.state = "Unknown"
        /\ (r \in Explicit => x.used = AttemptsUsed(r) + 1)
    <3>1. PICK u \in Nat : u = IF r \in Explicit THEN AttemptsUsed(r) + 1 ELSE 0
      BY UsedIsNatural, InvTypes
    <3> QED BY <2>2, <3>1 DEF Receipt
  <2>6. SpendOK(task[c], r)
    BY <2>1 DEF ProviderInv
  <2>7. receipts[g] = NULL /\ g \notin SentRefs
    BY <1>1, <1>2, <1>3, <2>1, <2>6 DEF SpendOK
  <2>8. ASSUME NEW q \in Requests PROVE LedgerOf(q)'
    <3>1. CASE q = r
      BY <2>3, <2>4, <2>5, <2>7, <3>1, LedgerReserved, InvTypes
    <3>2. CASE q # r
      <4>1. latest'[q] = latest[q]
        BY <2>3, <3>2, InvTypes
      <4> QED BY <2>3, <2>5, <2>7, <3>2, <4>1, LedgerOther, InvTypes
    <3> QED BY <3>1, <3>2
  <2>9. latest' \in [Requests -> Refs \cup {NULL}]
    BY <2>3, InvTypes
  <2> QED BY <1>1, <1>2, <1>3, <1>5, <1>9, <1>10, <1>11, <2>1, <2>3, <2>5, <2>7, <2>8, <2>9, TaskWrites
<1> QED BY <1>12, <1>13

\* The send: under an open reservation, and the first one under it.
LEMMA SendStep ==
    ASSUME ProviderInv, NEW c \in Calls, task[c].pc = "boundary", NEW n \in TaskState, FlowOK(n),
           n.pc = "sending", n.item = task[c].item, n.attempt = task[c].attempt,
           task' = [task EXCEPT ![c] = n], NEW b, sent' = sent \cup {<<Ref(c), b>>},
           UNCHANGED <<items, env, call, receipts, latest, tokens, gate>>
    PROVE  ProviderInv'
<1>1. task[c].pc \in Claimed /\ task[c].pc \in Presend /\ Holder(task[c]) /\ n.pc \in Claimed
      /\ n.pc \notin Clearing /\ n.pc \notin Presend /\ Holder(n)
  BY DEF Claimed, Presend, Holder, Clearing
<1>2. PICK f \in Refs : f = Ref(c) /\ f = RefOf(task[c]) /\ f = RefOf(n)
  BY <1>1, ClaimedTypes DEF RefOf
<1>3. f \notin SentRefs /\ Open(f, RequestOf(c))
  BY <1>1, <1>2 DEF ProviderInv, SpendOK
<1>4. /\ task' \in [Calls -> TaskState] /\ task'[c] = n
      /\ \A d \in Calls : d # c => task'[d] = task[d]
  BY InvTypes
<1>5. ProviderTypeOK'
  BY <1>4, InvTypes DEF ProviderTypeOK
<1>6. GateInv'
  <2>1. \A d \in Calls : task'[d].pc \in Clearing => task[d].pc \in Clearing
    BY <1>1, <1>4
  <2> QED BY <2>1, GateSame
<1>7. RefInv'
  <2>1. ASSUME NEW d \in Calls, NEW e \in Calls, d # e, task'[d].pc \in Claimed, task'[e].pc \in Claimed
        PROVE  RefOf(task'[d]) # RefOf(task'[e])
    <3>1. \A k \in Calls : task'[k].pc \in Claimed =>
            task[k].pc \in Claimed /\ RefOf(task'[k]) = RefOf(task[k])
      BY <1>1, <1>2, <1>4
    <3> QED BY <2>1, <3>1, InvTypes DEF RefInv
  <2> QED BY <2>1, InvTypes DEF RefInv, RefOf
<1>8. SentInv'
  <2>1. \A s \in sent : s[1] # f
    BY <1>3 DEF SentRefs
  <2>2. sent' = sent \cup {<<f, b>>}
    BY <1>2
  <2>3. ASSUME NEW s \in sent' PROVE s[1] \in Refs /\ receipts[s[1]] # NULL /\ ~ receipts[s[1]].pre
    <3>1. CASE s \in sent
      BY <3>1, InvTypes DEF SentInv
    <3>2. CASE s = <<f, b>>
      BY <1>3, <3>2 DEF Open
    <3> QED BY <2>2, <3>1, <3>2
  <2>4. \A s, t \in sent' : s[1] = t[1] => s = t
    BY <2>1, <2>2, InvTypes DEF SentInv
  <2> QED BY <2>3, <2>4 DEF SentInv
<1>9. ASSUME NEW d \in Calls
      PROVE  (CallOK(call[d]) /\ FlowOK(task[d]) /\ ClaimOK(task[d]) /\ SpendOK(task[d], RequestOf(d)))'
  <2>1. CallOK(call'[d]) /\ FlowOK(task'[d])
    BY <1>4, InvTypes
  <2>2. ClaimOK(task[d]) /\ SpendOK(task[d], RequestOf(d))
    BY DEF ProviderInv
  <2>3. ClaimOK(task[d])'
    BY <1>1, <1>4, <2>2 DEF ClaimOK
  <2>4. SpendOK(task[d], RequestOf(d))'
    <3>1. CASE d = c
      <4>1. task'[d] = n /\ RefOf(task'[d]) = f /\ RequestOf(d)' = RequestOf(c) /\ receipts' = receipts
            /\ n.pc \notin {"recover", "reserve"}
        BY <1>2, <1>4, <3>1 DEF RequestOf
      <4> QED BY <1>1, <1>3, <4>1 DEF SpendOK, Open, RefOf, Holder
    <3>2. CASE d # c
      <4>1. task'[d] = task[d] /\ (task[d].pc \in Claimed => RefOf(task[d]) # f)
        BY <1>1, <1>2, <1>4, <3>2, InvTypes DEF RefInv
      <4>2. task[d].pc \in Presend => task[d].pc \in Claimed
        BY DEF Presend, Claimed
      <4>3. RefOf(task[d]) # f /\ RefOf(task[d]) \notin SentRefs => RefOf(task[d]) \notin SentRefs'
        BY <1>2 DEF SentRefs
      <4>4. task'[d].pc \in Presend => RefOf(task'[d]) \notin SentRefs'
        BY <2>2, <4>1, <4>2, <4>3 DEF SpendOK
      <4>5. /\ task'[d].pc \in {"recover", "reserve"} => receipts'[RefOf(task'[d])] = NULL
            /\ Holder(task'[d]) => Open(RefOf(task[d]), RequestOf(d))'
        BY <2>2, <4>1 DEF SpendOK, Open, RequestOf, RefOf
      <4> QED BY <4>4, <4>5 DEF SpendOK, RefOf, Holder
    <3> QED BY <3>1, <3>2
  <2> QED BY <2>1, <2>3, <2>4
<1>10. ASSUME NEW r \in Requests PROVE LedgerOf(r)'
  BY LedgerDepends, InvTypes
<1> QED BY <1>5, <1>6, <1>7, <1>8, <1>9, <1>10 DEF ProviderInv

LEMMA DispatchStep == ASSUME ProviderInv, NEW c \in Calls, Dispatch(c) PROVE ProviderInv'
<1>1. UNCHANGED <<items, env, call, receipts, latest, tokens, gate>> /\ task[c].pc = "boundary"
  BY DEF Dispatch, ledgerRows, limits, queueVars
<1>2. task[c].pc \in Claimed /\ task[c].pc \in Presend /\ Holder(task[c])
  BY <1>1 DEF Claimed, Presend, Holder
<1>3. task[c] \in TaskState /\ FlowOK(task[c]) /\ task[c].error \in Errors \cup {NULL}
  BY <1>2, ClaimedTypes DEF TaskState
<1>4. CASE HeartbeatHeld(c)
  <2>1. PICK n : n = [task[c] EXCEPT !.pc = "sending", !.error = task[c].error]
    OBVIOUS
  <2>2. task' = [task EXCEPT ![c] = n] /\ sent' = sent \cup {<<Ref(c), task[c].seen.budget>>}
    BY <1>4, <2>1 DEF Dispatch
  <2>3. /\ n \in TaskState /\ n.pc = "sending" /\ n.item = task[c].item
        /\ n.attempt = task[c].attempt /\ n.seen = task[c].seen
    BY <1>3, <2>1 DEF TaskState, Claimed
  <2>4. FlowOK(n)
    BY <1>2, <1>3, <2>3, KeepsClaim DEF Claimed, Unreserved
  <2> QED BY <1>1, <2>2, <2>3, <2>4, SendStep
<1>5. CASE ~ HeartbeatHeld(c)
  <2>1. PICK n : n = [task[c] EXCEPT !.pc = "abort", !.error = "queue"]
    OBVIOUS
  <2>2. task' = [task EXCEPT ![c] = n] /\ sent' = sent
    BY <1>5, <2>1 DEF Dispatch
  <2>3. /\ n \in TaskState /\ n.pc = "abort" /\ n.item = task[c].item
        /\ n.attempt = task[c].attempt /\ n.seen = task[c].seen
    BY <1>3, <2>1 DEF TaskState, Claimed, Errors
  <2>4. FlowOK(n)
    BY <1>2, <1>3, <2>3, KeepsClaim DEF Claimed, Unreserved
  <2>5. Inherits(task[c], n) /\ n.pc \notin Clearing
    BY <1>1, <1>2, <2>3 DEF Inherits, Clearing
  <2>6. Carried(items', env'.issued) /\ env' \in EnvState
    BY <1>1, CarriedSame, InvTypes
  <2> QED BY <1>1, <2>2, <2>3, <2>4, <2>5, <2>6, TaskMoves
<1> QED BY <1>4, <1>5

\* abort_before_dispatch releases a reservation that nothing was sent under.
LEMMA AbortStep == ASSUME ProviderInv, NEW c \in Calls, Abort(c) PROVE ProviderInv'
<1>1. UNCHANGED <<items, latest, call, sent, tokens, gate>> /\ task[c].pc = "abort"
  BY DEF Abort, limits, queueVars
<1>2. task[c].pc \in Claimed /\ task[c].pc \in Presend
  BY <1>1 DEF Claimed, Presend
<1>3. /\ task[c] \in TaskState /\ FlowOK(task[c]) /\ task[c].error \in Errors \cup {NULL}
      /\ RefOf(task[c]) \in Refs /\ Ref(c) = RefOf(task[c])
  BY <1>2, ClaimedTypes DEF TaskState
<1>4. PICK r \in Requests, g \in Refs : r = RequestOf(c) /\ g = Ref(c) /\ g = RefOf(task[c])
  BY <1>3, InvTypes
<1>5. PICK f \in BOOLEAN :
        /\ Fault(f)
        /\ receipts' =
              IF task[c].reserved /\ ~f /\ receipts[g].state = "Unknown"
              THEN [receipts EXCEPT ![g].state = "Released", ![g].pre = TRUE,
                       ![g].used = IF r \in Explicit THEN @ - 1 ELSE @]
              ELSE receipts
        /\ task' = [task EXCEPT ![c].pc = "close", ![c].close = "stop", ![c].result = "error",
                                ![c].error = IF f THEN "ledger" ELSE @]
  BY <1>4 DEF Abort
<1>6. env' \in EnvState /\ env'.issued = env.issued
  BY <1>5, FaultTypes
<1>7. PICK e \in Errors \cup {NULL} : e = IF f THEN "ledger" ELSE task[c].error
  BY <1>3 DEF Errors
<1>8. PICK n : n = [task[c] EXCEPT !.pc = "close", !.close = "stop", !.result = "error", !.error = e]
  OBVIOUS
<1>9. task' = [task EXCEPT ![c] = n]
  BY <1>5, <1>7, <1>8
<1>10. /\ n \in TaskState /\ n.pc = "close" /\ n.item = task[c].item
       /\ n.attempt = task[c].attempt /\ n.seen = task[c].seen
  BY <1>3, <1>8 DEF TaskState, Claimed, Results
<1>11. FlowOK(n)
  BY <1>2, <1>3, <1>10, KeepsClaim DEF Claimed, Unreserved
<1>12. n.pc \notin Clearing /\ n.pc \notin Presend /\ ~ Holder(n) /\ n.pc \in Claimed \ {"recover", "reserve"}
  BY <1>10 DEF Clearing, Presend, Holder, Claimed
<1>13. CASE task[c].reserved /\ ~f /\ receipts[g].state = "Unknown"
  <2>1. g \notin SentRefs /\ Open(g, r)
    BY <1>1, <1>2, <1>4, <1>13 DEF ProviderInv, SpendOK, Holder
  <2>2. receipts[g] \in Receipt /\ g = latest[r] /\ receipts[g].request = r /\ ~ receipts[g].pre
    BY <2>1, OpenIsLatest DEF Open
  <2>3. PICK u \in Nat : u = IF r \in Explicit THEN receipts[g].used - 1 ELSE receipts[g].used
    <3>0. receipts[g].used \in Nat
      BY <2>2 DEF Receipt
    <3>1. ASSUME r \in Explicit PROVE receipts[g].used >= 1
      <4>1. LedgerOf(r) /\ g \in Counted(r)
        BY <2>1, InvTypes DEF Counted, RefsOf, Open
      <4>2. AttemptsUsed(r) = receipts[g].used
        BY <2>2, NullIsNothing DEF AttemptsUsed, LatestReceipt
      <4>3. Cardinality(Counted(r)) # 0
        BY <4>1, CountedRefs, FS_EmptySet
      <4> QED BY <3>0, <3>1, <4>1, <4>2, <4>3 DEF LedgerOf
    <3> QED BY <3>0, <3>1
  <2>4. PICK x : x = [receipts[g] EXCEPT !.state = "Released", !.pre = TRUE, !.used = u]
    OBVIOUS
  <2>5. receipts' = [receipts EXCEPT ![g] = x]
    BY <1>5, <1>13, <2>3, <2>4
  <2>6. x \in Receipt /\ x.request = r /\ x.pre /\ x.used = u
    BY <2>2, <2>4 DEF Receipt
  <2>7. ASSUME NEW q \in Requests PROVE LedgerOf(q)'
    <3>1. CASE q = r
      BY <1>1, <2>2, <2>3, <2>5, <2>6, <3>1, LedgerReleased, InvTypes
    <3>2. CASE q # r
      BY <1>1, <2>2, <2>5, <2>6, <3>2, LedgerOther, InvTypes
    <3> QED BY <3>1, <3>2
  <2>8. latest' \in [Requests -> Refs \cup {NULL}]
    BY <1>1, InvTypes
  <2> QED BY <1>1, <1>2, <1>4, <1>6, <1>9, <1>10, <1>11, <1>12, <2>1, <2>5, <2>6, <2>7, <2>8, TaskWrites
<1>14. CASE ~ (task[c].reserved /\ ~f /\ receipts[g].state = "Unknown")
  <2>1. receipts' = receipts
    BY <1>5, <1>14
  <2>2. Inherits(task[c], n)
    BY <1>2, <1>10, <1>12 DEF Inherits
  <2>3. Carried(items', env'.issued)
    BY <1>1, <1>6, CarriedStays
  <2> QED BY <1>1, <1>6, <1>9, <1>10, <1>11, <1>12, <2>1, <2>2, <2>3, TaskMoves
<1> QED BY <1>13, <1>14

LEMMA RecordStep == ASSUME ProviderInv, NEW c \in Calls, Record(c) PROVE ProviderInv'
<1>1. UNCHANGED <<items, latest, call, sent, tokens, gate>> /\ task[c].pc = "record"
  BY DEF Record, limits, queueVars
<1>2. task[c].pc \in Claimed /\ Holder(task[c])
  BY <1>1 DEF Claimed, Holder
<1>3. /\ task[c] \in TaskState /\ FlowOK(task[c]) /\ RefOf(task[c]) \in Refs /\ Ref(c) = RefOf(task[c])
  BY <1>2, ClaimedTypes
<1>4. PICK r, g, o : /\ r \in Requests /\ g \in Refs /\ o = task[c].outcome
                     /\ r = RequestOf(c) /\ g = Ref(c) /\ g = RefOf(task[c])
  BY <1>3, InvTypes
<1>5. PICK f \in BOOLEAN, result \in {"answer", "error"}, close \in {"complete", "retry", "stop"},
           error \in {"ledger", "provider", "reconcile"},
           pc \in {"unrecorded", "cache", "cooldown", "close"} :
        /\ Fault(f)
        /\ receipts' = IF f THEN receipts
                       ELSE [receipts EXCEPT ![g].state = StateAfter(o), ![g].output = o \in Answered]
        /\ task' = [task EXCEPT ![c].result = result, ![c].close = close, ![c].error = error, ![c].pc = pc]
  <2>1. PICK f \in BOOLEAN :
          /\ Fault(f)
          /\ receipts' = IF f THEN receipts
                         ELSE [receipts EXCEPT ![g].state = StateAfter(o), ![g].output = o \in Answered]
          /\ task' = [task EXCEPT
                ![c].result = IF o \in Answered /\ ~f THEN "answer" ELSE "error",
                ![c].close = IF o \in Answered THEN "complete"
                             ELSE IF o \in Retryable THEN "retry" ELSE "stop",
                ![c].error = IF f THEN "ledger" ELSE IF o \in KnownZero THEN "provider" ELSE "reconcile",
                ![c].pc = IF f THEN "unrecorded"
                          ELSE IF o \in Answered THEN "cache"
                          ELSE IF o \in Transient THEN "cooldown" ELSE "close"]
    BY <1>4 DEF Record
  <2>2. PICK result \in {"answer", "error"} : result = IF o \in Answered /\ ~f THEN "answer" ELSE "error"
    OBVIOUS
  <2>3. PICK close \in {"complete", "retry", "stop"} :
          close = IF o \in Answered THEN "complete" ELSE IF o \in Retryable THEN "retry" ELSE "stop"
    OBVIOUS
  <2>4. PICK error \in {"ledger", "provider", "reconcile"} :
          error = IF f THEN "ledger" ELSE IF o \in KnownZero THEN "provider" ELSE "reconcile"
    OBVIOUS
  <2>5. PICK pc \in {"unrecorded", "cache", "cooldown", "close"} :
          pc = IF f THEN "unrecorded" ELSE IF o \in Answered THEN "cache"
               ELSE IF o \in Transient THEN "cooldown" ELSE "close"
    OBVIOUS
  <2>6. task' = [task EXCEPT ![c].result = result, ![c].close = close, ![c].error = error, ![c].pc = pc]
    BY <2>1, <2>2, <2>3, <2>4, <2>5
  <2> WITNESS f \in BOOLEAN, result \in {"answer", "error"}, close \in {"complete", "retry", "stop"},
              error \in {"ledger", "provider", "reconcile"},
              pc \in {"unrecorded", "cache", "cooldown", "close"}
  <2> QED BY <2>1, <2>6
<1>6. env' \in EnvState /\ env'.issued = env.issued
  BY <1>5, FaultTypes
<1>7. PICK n : n = [task[c] EXCEPT !.result = result, !.close = close, !.error = error, !.pc = pc]
  OBVIOUS
<1>8. task' = [task EXCEPT ![c] = n]
  BY <1>5, <1>7
<1>9. /\ n \in TaskState /\ n.pc = pc /\ n.item = task[c].item
      /\ n.attempt = task[c].attempt /\ n.seen = task[c].seen
  <2>1. /\ pc \in Claimed /\ result \in Results \cup {NULL} /\ error \in Errors \cup {NULL}
        /\ close \in {"complete", "stop", "retry", NULL}
    BY DEF Claimed, Results, Errors
  <2> QED BY <1>3, <1>7, <2>1 DEF TaskState
<1>10. n.pc \notin Clearing /\ n.pc \notin Presend /\ ~ Holder(n) /\ n.pc \in Claimed \ {"recover", "reserve"}
       /\ n.pc \notin Unreserved /\ n.pc # "record"
  BY <1>9 DEF Clearing, Presend, Holder, Claimed, Unreserved
<1>11. FlowOK(n)
  BY <1>2, <1>3, <1>9, <1>10, KeepsClaim
<1>12. CASE ~ f
  <2>1. Open(g, r)
    BY <1>2, <1>4 DEF ProviderInv, SpendOK
  <2>2. receipts[g] \in Receipt /\ g = latest[r] /\ receipts[g].request = r /\ ~ receipts[g].pre
    BY <1>4, <2>1, OpenIsLatest DEF Open
  <2>3. PICK state \in {"Settled", "Released", "Unknown"} : state = StateAfter(o)
    BY DEF StateAfter
  <2>4. PICK x : x = [receipts[g] EXCEPT !.state = state, !.output = o \in Answered]
    OBVIOUS
  <2>5. receipts' = [receipts EXCEPT ![g] = x]
    BY <1>5, <1>12, <2>3, <2>4
  <2>6. x \in Receipt /\ x.request = r /\ x.pre = receipts[g].pre /\ x.used = receipts[g].used
    <3>1. (o \in Answered) \in BOOLEAN
      OBVIOUS
    <3> QED BY <2>2, <2>4, <3>1 DEF Receipt
  <2>7. ASSUME NEW q \in Requests PROVE LedgerOf(q)'
    <3>1. CASE q = r
      BY <1>4, <1>1, <2>2, <2>5, <2>6, <3>1, LedgerEvidence, InvTypes
    <3>2. CASE q # r
      BY <1>4, <1>1, <2>2, <2>5, <2>6, <3>2, LedgerOther, InvTypes
    <3> QED BY <3>1, <3>2
  <2>8. latest' \in [Requests -> Refs \cup {NULL}] /\ ~ x.pre
    BY <1>1, <2>2, <2>6, InvTypes
  <2> QED BY <1>1, <1>2, <1>4, <1>6, <1>8, <1>9, <1>10, <1>11, <2>5, <2>6, <2>7, <2>8, TaskWrites
<1>13. CASE f
  <2>1. receipts' = receipts
    BY <1>5, <1>13
  <2>2. Inherits(task[c], n)
    BY <1>2, <1>9, <1>10 DEF Inherits
  <2>3. Carried(items', env'.issued)
    BY <1>1, <1>6, CarriedStays
  <2> QED BY <1>1, <1>6, <1>8, <1>9, <1>10, <1>11, <2>1, <2>2, <2>3, TaskMoves
<1> QED BY <1>12, <1>13

\* reconcile_spend resolves an attempt that no task has in hand.
LEMMA ReconcileStep ==
    ASSUME ProviderInv, NEW f \in Refs, NEW state \in {"Released", "Settled"}, Reconcile(f, state)
    PROVE  ProviderInv'
<1>1. /\ UNCHANGED <<items, latest, call, task, sent, tokens, gate>> /\ receipts[f] # NULL
      /\ receipts[f].state = "Unknown"
  BY DEF Reconcile, limits, queueVars
<1>2. env' \in EnvState /\ env'.issued = env.issued
  BY FaultTypes DEF Reconcile, Trouble
<1>3. PICK r \in Requests : receipts[f] \in Receipt /\ r = receipts[f].request /\ f = latest[r]
  BY <1>1, OpenIsLatest
<1>4. PICK x : x = [receipts[f] EXCEPT !.state = state]
  OBVIOUS
<1>5. receipts' = [receipts EXCEPT ![f] = x]
  BY <1>4 DEF Reconcile
<1>6. x \in Receipt /\ x.request = r /\ x.pre = receipts[f].pre /\ x.used = receipts[f].used
  BY <1>3, <1>4 DEF Receipt
<1>7. ASSUME NEW q \in Requests PROVE LedgerOf(q)'
  <2>1. CASE q = r
    BY <1>1, <1>3, <1>5, <1>6, <2>1, LedgerEvidence, InvTypes
  <2>2. CASE q # r
    BY <1>1, <1>3, <1>5, <1>6, <2>2, LedgerOther, InvTypes
  <2> QED BY <2>1, <2>2
<1>8. f[1] <= env.issued /\ (items[f[1]] # NULL => f[2] <= items[f[1]].attempt)
  BY <1>1, InvTypes DEF RefInv
<1>9. f \in SentRefs => ~ x.pre
  BY <1>6, InvTypes DEF SentInv, SentRefs
<1>10. ASSUME NEW d \in Calls PROVE SpendOK(task[d], RequestOf(d))'
  <2>1. task[d].pc \in Claimed => RefOf(task[d]) # f
    BY DEF Reconcile, Ref, RefOf
  <2> QED BY <1>1, <1>5, <2>1, SpendOther
<1>11. /\ task' \in [Calls -> TaskState] /\ latest' \in [Requests -> Refs \cup {NULL}]
       /\ \A d \in Calls : FlowOK(task'[d]) /\ task'[d] = task[d]
  BY <1>1, InvTypes
<1>12. \A d \in Calls :
         /\ FlowOK(task'[d])
         /\ task'[d].pc \in Claimed =>
              /\ task[d].pc \in Claimed /\ task'[d].item = task[d].item
              /\ task'[d].attempt = task[d].attempt
         /\ task'[d].pc \in Clearing => task[d].pc \in Clearing
         /\ SpendOK(task[d], RequestOf(d))'
  BY <1>10, <1>11
<1>13. \A q \in Requests : LedgerOf(q)'
  BY <1>7
<1>14. UNCHANGED <<items, call, sent, tokens, gate>>
  BY <1>1
<1> QED BY <1>2, <1>5, <1>6, <1>8, <1>9, <1>11, <1>12, <1>13, <1>14, RowMoves

----------------------------------------------------------------------------
(* The steps of the environment.                                           *)

LEMMA QueueMoves ==
    ASSUME ProviderInv, Carried(items', env'.issued), env' \in EnvState,
           UNCHANGED <<call, task, receipts, latest, sent, tokens, gate>>
    PROVE  ProviderInv'
<1>1. /\ task' \in [Calls -> TaskState]
      /\ \A d \in Calls : Inherits(task[d], task'[d]) /\ FlowOK(task'[d])
  BY InvTypes, InheritsSelf
<1>2. /\ call' \in [Calls -> CallState]
      /\ \A d \in Calls : call'[d].request = call[d].request /\ CallOK(call'[d])
  BY InvTypes
<1>3. GateInv' /\ tokens' \in [Processes -> Nat] /\ gate' \in [Processes -> Calls \cup {NULL}]
  BY GateSame
<1> QED BY <1>1, <1>2, <1>3, LedgerKept

LEMMA LeaseLapsesStep == ASSUME ProviderInv, NEW i \in Ids, LeaseLapses(i) PROVE ProviderInv'
<1>1. UNCHANGED <<call, task, receipts, latest, sent, tokens, gate>> /\ items[i] # NULL
  BY DEF LeaseLapses, ledgerRows, limits
<1>2. env' \in EnvState /\ env'.issued = env.issued
  <2>1. env \in EnvState
    BY InvTypes
  <2>2. PICK k \in Nat : k = env.troubles + 1
    BY <2>1 DEF EnvState
  <2>3. env' = env \/ env' = [env EXCEPT !.troubles = k, !.lapsed = TRUE]
    BY <2>2 DEF LeaseLapses
  <2>4. [env EXCEPT !.troubles = k, !.lapsed = TRUE] \in EnvState
    BY <2>1 DEF EnvState
  <2>5. [env EXCEPT !.troubles = k, !.lapsed = TRUE].issued = env.issued
    BY <2>1 DEF EnvState
  <2> QED BY <2>1, <2>3, <2>4, <2>5
<1>3. PICK x : x = [items[i] EXCEPT !.lapsed = TRUE]
  OBVIOUS
<1>4. items[i] \in ItemState
  BY <1>1, InvTypes
<1>5. x \in ItemState /\ x.attempt = items[i].attempt /\ items[i].attempt \in Nat
  <2>1. x \in ItemState /\ x.attempt = items[i].attempt
    BY <1>3, <1>4 DEF ItemState
  <2> QED BY <1>4, <2>1, Parameters DEF ItemState
<1>6. items' = [items EXCEPT ![i] = x] /\ x.attempt >= items[i].attempt
  BY <1>3, <1>5 DEF LeaseLapses
<1>7. Carried(items', env'.issued)
  BY <1>1, <1>2, <1>5, <1>6, CarriedChange
<1> QED BY <1>1, <1>2, <1>7, QueueMoves

LEMMA RetryDueStep == ASSUME ProviderInv, NEW i \in Ids, RetryDue(i) PROVE ProviderInv'
<1>1. UNCHANGED <<call, task, receipts, latest, sent, tokens, gate, env>> /\ items[i] # NULL
  BY DEF RetryDue, ledgerRows, limits, history
<1>2. PICK x : x = [items[i] EXCEPT !.later = FALSE]
  OBVIOUS
<1>3. items[i] \in ItemState
  BY <1>1, InvTypes
<1>4. x \in ItemState /\ x.attempt = items[i].attempt /\ items[i].attempt \in Nat
  <2>1. x \in ItemState /\ x.attempt = items[i].attempt
    BY <1>2, <1>3 DEF ItemState
  <2> QED BY <1>3, <2>1, Parameters DEF ItemState
<1>5. items' = [items EXCEPT ![i] = x] /\ x.attempt >= items[i].attempt
  BY <1>2, <1>4 DEF RetryDue
<1>6. Carried(items', env'.issued) /\ env' \in EnvState
  BY <1>1, <1>4, <1>5, CarriedChange, InvTypes
<1> QED BY <1>1, <1>6, QueueMoves

LEMMA EvictStep == ASSUME ProviderInv, NEW i \in Ids, Evict(i) PROVE ProviderInv'
<1>1. UNCHANGED <<call, task, receipts, latest, sent, tokens, gate>>
  BY DEF Evict, ledgerRows, limits
<1>2. env' \in EnvState /\ env'.issued = env.issued
  <2>1. env \in EnvState
    BY InvTypes
  <2>2. PICK k \in Nat : k = env.troubles + 1
    BY <2>1 DEF EnvState
  <2>3. env' = env \/ env' = [env EXCEPT !.troubles = k, !.evicted = TRUE]
    BY <2>2 DEF Evict
  <2>4. [env EXCEPT !.troubles = k, !.evicted = TRUE] \in EnvState
    BY <2>1 DEF EnvState
  <2>5. [env EXCEPT !.troubles = k, !.evicted = TRUE].issued = env.issued
    BY <2>1 DEF EnvState
  <2> QED BY <2>1, <2>3, <2>4, <2>5
<1>3. PICK new : new = [items EXCEPT ![i] = NULL]
  OBVIOUS
<1>4. /\ new \in [Ids -> ItemState \cup {NULL}] /\ new[i] = NULL
      /\ \A j \in Ids : j # i => new[j] = items[j]
  BY <1>3, InvTypes
<1>5. Carried(items, env.issued)
  BY CarriedSame
<1>6. Carried(new, env.issued)
  BY <1>4, <1>5 DEF Carried
<1>7. Carried(items', env'.issued)
  BY <1>2, <1>3, <1>6 DEF Evict
<1> QED BY <1>1, <1>2, <1>7, QueueMoves

LEMMA CooldownEndsStep == ASSUME ProviderInv, CooldownEnds PROVE ProviderInv'
<1>1. UNCHANGED <<call, task, receipts, latest, sent, tokens, gate, env, items>>
  BY DEF CooldownEnds, ledgerRows, limits, history
<1>2. Carried(items', env'.issued) /\ env' \in EnvState
  BY <1>1, CarriedSame, InvTypes
<1> QED BY <1>1, <1>2, QueueMoves

LEMMA RefillStep == ASSUME ProviderInv, NEW p \in Processes, Refill(p) PROVE ProviderInv'
<1>1. UNCHANGED <<call, task, receipts, latest, sent, gate, env, items>>
      /\ tokens' = [tokens EXCEPT ![p] = @ + 1]
  BY DEF Refill, ledgerRows, history, queueVars
<1>2. /\ task' \in [Calls -> TaskState]
      /\ \A d \in Calls : Inherits(task[d], task'[d]) /\ FlowOK(task'[d])
  BY <1>1, InvTypes, InheritsSelf
<1>3. /\ call' \in [Calls -> CallState]
      /\ \A d \in Calls : call'[d].request = call[d].request /\ CallOK(call'[d])
  BY <1>1, InvTypes
<1>4. tokens' \in [Processes -> Nat] /\ gate' \in [Processes -> Calls \cup {NULL}] /\ GateInv'
  BY <1>1, InvTypes DEF GateInv
<1>5. Carried(items', env'.issued) /\ env' \in EnvState
  BY <1>1, CarriedSame, InvTypes
<1> QED BY <1>1, <1>2, <1>3, <1>4, <1>5, LedgerKept

LEMMA CrashStep == ASSUME ProviderInv, NEW p \in Processes, Crash(p) PROVE ProviderInv'
<1>1. /\ UNCHANGED <<items, receipts, latest, sent>>
      /\ call' = [c \in Calls |-> IF ProcessOf[c] = p /\ call[c].pc \notin {"new", "ended"}
                                  THEN [NewCall(RequestOf(c)) EXCEPT !.pc = "gone"] ELSE call[c]]
      /\ task' = [c \in Calls |-> IF ProcessOf[c] = p THEN Idle ELSE task[c]]
      /\ tokens' = [tokens EXCEPT ![p] = RateCapacity] /\ gate' = [gate EXCEPT ![p] = NULL]
  BY DEF Crash, ledgerRows, queueVars
<1>2. env' \in EnvState /\ env'.issued = env.issued
  BY FaultTypes DEF Crash, Trouble
<1>3. /\ task' \in [Calls -> TaskState]
      /\ \A d \in Calls : Inherits(task[d], task'[d]) /\ FlowOK(task'[d])
  BY <1>1, InvTypes, InheritsSelf, IdleTypes
<1>4. ASSUME NEW d \in Calls
      PROVE  call'[d] \in CallState /\ call'[d].request = call[d].request /\ CallOK(call'[d])
  <2>1. CASE ProcessOf[d] = p /\ call[d].pc \notin {"new", "ended"}
    <3>1. PICK r \in Requests : r = RequestOf(d) /\ r = call[d].request
      BY InvTypes DEF RequestOf
    <3>2. call'[d] = [NewCall(r) EXCEPT !.pc = "gone"]
      BY <1>1, <2>1, <3>1
    <3> QED BY <3>1, <3>2, EndTypes
  <2>2. CASE ~ (ProcessOf[d] = p /\ call[d].pc \notin {"new", "ended"})
    BY <1>1, <2>2, InvTypes
  <2> QED BY <2>1, <2>2
<1>5. call' \in [Calls -> CallState]
  <2>1. call' = [d \in Calls |-> call'[d]]
    BY <1>1
  <2> QED BY <1>4, <2>1
<1>6. tokens' \in [Processes -> Nat] /\ gate' \in [Processes -> Calls \cup {NULL}]
  BY <1>1, InvTypes, Parameters
<1>7. GateInv'
  <2>0. /\ gate \in [Processes -> Calls \cup {NULL}] /\ tokens \in [Processes -> Nat] /\ GateInv
        /\ \A d \in Calls : ProcessOf[d] \in Processes
    BY InvTypes, Parameters
  <2>1. ASSUME NEW d \in Calls, task'[d].pc \in Clearing PROVE gate'[ProcessOf[d]] = d
    <3>1. ProcessOf[d] # p /\ task'[d] = task[d]
      BY <1>1, <2>1, IdleTypes
    <3> QED BY <1>1, <2>0, <2>1, <3>1 DEF GateInv
  <2>2. \A q \in Processes : gate'[q] # NULL => tokens'[q] >= 1
    BY <1>1, <2>0 DEF GateInv
  <2> QED BY <2>1, <2>2 DEF GateInv
<1>8. Carried(items', env'.issued)
  BY <1>1, <1>2, CarriedStays
<1> QED BY <1>1, <1>2, <1>3, <1>4, <1>5, <1>6, <1>7, <1>8, LedgerKept

----------------------------------------------------------------------------
(* The invariant and what follows from it.                                 *)

LEMMA ProviderInitially == ProviderInit => ProviderInv
<1> SUFFICES ASSUME ProviderInit PROVE ProviderInv
  OBVIOUS
<1>1. PICK a \in Assignments : call = [c \in Calls |-> NewCall(a[c])]
  BY DEF ProviderInit
<1>2. a \in [Calls -> Requests]
  BY ProviderAssumption
<1>3. \A c \in Calls : call[c] \in CallState /\ CallOK(call[c])
  <2>1. \A r \in Requests : NewCall(r) \in CallState /\ CallOK(NewCall(r))
    BY DEF NewCall, CallState, CallOK, Following
  <2> QED BY <1>1, <1>2, <2>1
<1>4. call \in [Calls -> CallState]
  <2>1. call = [c \in Calls |-> call[c]]
    BY <1>1
  <2> QED BY <1>3, <2>1
<1>5. /\ \A c \in Calls : task[c] = Idle
      /\ task \in [Calls -> TaskState]
  BY IdleTypes DEF ProviderInit
<1>6. ProviderTypeOK
  <2>1. items \in [Ids -> ItemState \cup {NULL}] /\ receipts \in [Refs -> Receipt \cup {NULL}]
        /\ latest \in [Requests -> Refs \cup {NULL}] /\ gate \in [Processes -> Calls \cup {NULL}]
    BY DEF ProviderInit
  <2>2. tokens \in [Processes -> Nat] /\ env \in EnvState
    BY Parameters DEF ProviderInit, EnvState
  <2> QED BY <1>4, <1>5, <2>1, <2>2 DEF ProviderTypeOK
<1>7. Idle.pc = "idle" /\ FlowOK(Idle) /\ Idle.pc \notin Clearing /\ Idle.pc \notin Claimed
  BY IdleTypes DEF Idle, Claimed
<1>8. GateInv /\ RefInv /\ SentInv
  <2>1. GateInv
    BY <1>5, <1>7 DEF ProviderInit, GateInv
  <2>2. RefInv
    BY <1>5, <1>7 DEF ProviderInit, RefInv
  <2> QED BY <2>1, <2>2 DEF ProviderInit, SentInv
<1>9. ASSUME NEW c \in Calls PROVE FlowOK(task[c]) /\ ClaimOK(task[c]) /\ SpendOK(task[c], RequestOf(c))
  BY <1>5, <1>7 DEF ClaimOK, SpendOK, Presend, Holder
<1>10. ASSUME NEW r \in Requests PROVE LedgerOf(r)
  <2>1. RefsOf(r) = {} /\ Counted(r) = {} /\ latest[r] = NULL /\ AttemptsUsed(r) = 0
    BY DEF ProviderInit, RefsOf, Counted, AttemptsUsed
  <2>2. Cardinality({}) = 0
    BY FS_EmptySet
  <2> QED BY <2>1, <2>2, Parameters DEF LedgerOf
<1> QED BY <1>3, <1>6, <1>8, <1>9, <1>10 DEF ProviderInv

LEMMA ProviderSteps == ProviderInv /\ [ProviderNext]_providerVars => ProviderInv'
<1> SUFFICES ASSUME ProviderInv, [ProviderNext]_providerVars PROVE ProviderInv'
  OBVIOUS
<1>1. CASE UNCHANGED providerVars
  <2>1. UNCHANGED <<call, task, receipts, latest, sent, tokens, gate, env, items>>
    BY <1>1 DEF providerVars
  <2>2. Carried(items', env'.issued) /\ env' \in EnvState
    BY <2>1, CarriedSame, InvTypes
  <2> QED BY <2>1, <2>2, QueueMoves
<1>2. ASSUME NEW c \in Calls, CallStep(c) PROVE ProviderInv'
  BY <1>2, StartStep, EnqueueStep, DecideStep, ReplaceItemStep, AcquireStep, CheckRateStep, LookStep,
     ResumeStep DEF CallStep
<1>3. ASSUME NEW c \in Calls, TaskStep(c) PROVE ProviderInv'
  BY <1>3, InspectStep, ReconsiderStep, ReplaceClaimStep, ClaimItemStep, RecoverClaimStep, ReserveStep,
     CheckClaimStep, ChargeRateStep, DispatchStep, AbortStep, RespondStep, RecordStep, StoreCacheStep,
     CoolStep, CloseStep, ChainStep DEF TaskStep
<1>4. ASSUME NEW c \in Calls, Renew(c) \/ Abandon(c) PROVE ProviderInv'
  BY <1>4, RenewStep, AbandonStep
<1>5. ASSUME NEW i \in Ids, LeaseLapses(i) \/ RetryDue(i) \/ Evict(i) PROVE ProviderInv'
  BY <1>5, LeaseLapsesStep, RetryDueStep, EvictStep
<1>6. ASSUME NEW f \in Refs, NEW state \in {"Released", "Settled"}, Reconcile(f, state)
      PROVE  ProviderInv'
  BY <1>6, ReconcileStep
<1>7. ASSUME NEW p \in Processes, Refill(p) \/ Crash(p) PROVE ProviderInv'
  BY <1>7, RefillStep, CrashStep
<1>8. CASE CooldownEnds
  BY <1>8, CooldownEndsStep
<1> QED BY <1>1, <1>2, <1>3, <1>4, <1>5, <1>6, <1>7, <1>8 DEF ProviderNext

\* The ledger, the claims and the gate of the direct calls stay consistent,
\* for any number of calls, requests, items, processes and troubles
\* (run_queued, run_attempt, holding_lease, settle).
THEOREM ProviderInvariant == ProviderSpec => []ProviderInv
<1> QED BY ProviderInitially, ProviderSteps, PTL DEF ProviderSpec

LEMMA InvSentOnce == ProviderInv => SentOnce
<1> SUFFICES ASSUME ProviderInv PROVE SentOnce
  OBVIOUS
<1>1. \A s \in sent : receipts[s[1]] # NULL /\ ~ receipts[s[1]].pre
  BY InvTypes DEF SentInv
<1>2. ASSUME NEW r \in Requests, NEW mine, mine = {s[1] : s \in sent} \cap RefsOf(r)
      PROVE  /\ r \in Explicit => Cardinality({f \in mine : receipts[f].state # "Released"}) <= 1
             /\ \A f \in mine : receipts[f].state = "Unknown" /\ ~receipts[f].output => latest[r] = f
  <2>1. LedgerOf(r) /\ mine \subseteq RefsOf(r)
    BY <1>2, InvTypes
  <2>2. \A f \in mine : receipts[f].state = "Unknown" => latest[r] = f
    BY <2>1 DEF LedgerOf
  <2>3. ASSUME r \in Explicit PROVE Cardinality({f \in mine : receipts[f].state # "Released"}) <= 1
    <3>1. PICK S : S = {f \in mine : receipts[f].state # "Released"}
      OBVIOUS
    <3>2. S \subseteq {latest[r]}
      BY <2>1, <2>3, <3>1 DEF LedgerOf
    <3>3. IsFiniteSet({latest[r]}) /\ Cardinality({latest[r]}) = 1
      BY FS_Singleton
    <3>4. Cardinality(S) <= Cardinality({latest[r]})
      BY <3>2, <3>3, FS_Subset
    <3> QED BY <3>1, <3>3, <3>4
  <2> QED BY <2>2, <2>3
<1> QED BY <1>1, <1>2 DEF SentOnce

\* Every send is under a reservation that nobody releases as unsent, an
\* explicit invocation is paid for at most once, and nothing is sent while a
\* charge for the request is unknown (run_attempt, abort_before_dispatch).
THEOREM SentAreAccounted == ProviderSpec => []SentOnce
<1> QED BY ProviderInvariant, InvSentOnce, PTL

LEMMA InvWithinLimits == ProviderInv => WithinLimits
<1> SUFFICES ASSUME ProviderInv PROVE WithinLimits
  OBVIOUS
<1>1. ASSUME NEW r \in Explicit
      PROVE  Cardinality({s \in sent : s[1] \in RefsOf(r)}) <= LogicalAttempts
  <2>1. PICK S : S = {s \in sent : s[1] \in RefsOf(r)}
    OBVIOUS
  <2>2. PICK h : h = [s \in S |-> s[1]]
    OBVIOUS
  <2>3. r \in Requests /\ SentInv
    BY Parameters, InvTypes
  <2>4. \A s \in S : h[s] \in Counted(r)
    BY <2>1, <2>2, <2>3 DEF SentInv, Counted
  <2>5. h \in Injection(S, Counted(r))
    <3>1. h \in [S -> Counted(r)]
      BY <2>2, <2>4
    <3>2. \A s, t \in S : h[s] = h[t] => s = t
      BY <2>1, <2>2, <2>3 DEF SentInv
    <3> QED BY <3>1, <3>2 DEF Injection, IsInjective
  <2>6. IsFiniteSet(Counted(r)) /\ Cardinality(Counted(r)) \in Nat
    BY CountedRefs
  <2>7. IsFiniteSet(S) /\ Cardinality(S) <= Cardinality(Counted(r))
    BY <2>5, <2>6, FS_Injection DEF ExistsInjection
  <2>8. Cardinality(S) \in Nat /\ LogicalAttempts \in Nat
    BY <2>7, FS_CardinalityType, Parameters
  <2>9. Cardinality(Counted(r)) <= LogicalAttempts
    BY <2>3, InvTypes DEF LedgerOf
  <2> QED BY <2>1, <2>6, <2>7, <2>8, <2>9
<1>2. \A p \in Processes : tokens[p] >= 0
  BY InvTypes
<1> QED BY <1>1, <1>2 DEF WithinLimits

\* An explicit request is never sent more often than logical_retry_attempts,
\* over every item and worker, and no two attempts are cleared for the same
\* rate budget (reserve_explicit, check_model_budget, RateGrant::charge).
THEOREM LimitsHold == ProviderSpec => []WithinLimits
<1> QED BY ProviderInvariant, InvWithinLimits, PTL
=============================================================================
