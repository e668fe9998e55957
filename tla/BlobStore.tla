----------------------------- MODULE BlobStore -----------------------------
(***************************************************************************)
(* FsBlobStore of amk-store: immutable objects filed under the hash of     *)
(* their content.  A put looks for the object, writes a temporary file     *)
(* named after the process and the object, and renames it.  Any number of  *)
(* calls run at once, in the API and the SMTP process; a disk operation    *)
(* may fail and a process may crash between any two of them.  The caller   *)
(* may be dropped at any await (session deadline, HTTP client gone): a     *)
(* disk operation that has begun on a blocking thread runs on, and nothing *)
(* after it happens, the clean-up of a lost rename included.               *)
(*                                                                         *)
(* Files are modelled as a POSIX directory does them: a name leads to an   *)
(* inode, opening an existing name truncates the inode it leads to, and a  *)
(* rename moves the name while those who have the inode open write on.     *)
(***************************************************************************)
EXTENDS Naturals, FiniteSets

CONSTANTS Calls,     \* put calls
          Content,   \* call -> the bytes it stores, which is also their id
          Process,   \* call -> the process it runs in
          Blocks,    \* a file's content is written block by block
          MaxFaults, \* bound: disk operations that fail, callers that go
          NoCall

ASSUME CallsAssumption ==
  /\ NoCall \notin Calls
  /\ Blocks \in Nat \ {0} /\ MaxFaults \in Nat

VARIABLES dir,    \* name -> inode
          data,   \* inode -> the blocks that have been written to it
          calls,  \* call -> [stage, block, file, failed, result]
          faults,
          shared  \* history: temporary names two calls were writing at once

vars == <<dir, data, calls, faults, shared>>

path(w) == <<"blob", Content[w]>>

(* Mutant of tmp: the object is written in place.                          *)
tmpInPlace(w) == path(w)

tmp(w) == <<"tmp", Process[w], Content[w]>>

Stages  == {"idle", "open", "write", "rename", "tidy", "recheck", "done"}
Results == {"none", "ok", "error", "crashed", "dropped"}

(* failed is a history of the call's own disk operations; result is        *)
(* "dropped" from the moment the caller is, and its last operation may     *)
(* still be running then.                                                  *)
Call == [stage : Stages, block : 1..Blocks, file : Calls \cup {NoCall},
         failed : SUBSET {"write", "remove"}, result : Results]

IdleCall == [stage |-> "idle", block |-> 1, file |-> NoCall, failed |-> {}, result |-> "none"]

Init ==
  /\ dir = [n \in {} |-> n]
  /\ data = [i \in Calls |-> {}]      \* a call's own inode bears its name
  /\ calls = [w \in Calls |-> IdleCall]
  /\ faults = 0
  /\ shared = {}

At(w, stage) == calls[w].stage = stage
Present(w)   == path(w) \in DOMAIN dir

Dropped(w)   == calls[w].result = "dropped"

(* The next step, if anyone still waits for it.                            *)
Go(w, stage) == calls' = [calls EXCEPT ![w].stage = IF Dropped(w) THEN "done" ELSE stage]

Return(w, result) ==
  calls' = [calls EXCEPT ![w].stage = "done",
                         ![w].result = IF Dropped(w) THEN @ ELSE result]

Link(name, i) == [n \in DOMAIN dir \cup {name} |-> IF n = name THEN i ELSE dir[n]]
Unlinked(name) == [n \in DOMAIN dir \ {name} |-> dir[n]]

(* Already there: the content is the same by definition.                   *)
LookForObject(w) ==
  /\ At(w, "idle")
  /\ IF Present(w) THEN Return(w, "ok") ELSE Go(w, "open")
  /\ UNCHANGED <<dir, data, faults, shared>>

(* Calls that have the temporary name and will still use it.               *)
Busy(w) == calls[w].stage \in {"write", "rename", "tidy"}

(* tokio::fs::write creates or truncates, then writes.                     *)
OpenTmp(w) ==
  /\ At(w, "open")
  /\ LET i == IF tmp(w) \in DOMAIN dir THEN dir[tmp(w)] ELSE w IN
     /\ dir' = Link(tmp(w), i)
     /\ data' = [data EXCEPT ![i] = {}]
     /\ calls' = [calls EXCEPT ![w].stage = "write", ![w].file = i]
  /\ shared' = IF \E v \in Calls : tmp(v) = tmp(w) /\ Busy(v)
               THEN shared \cup {tmp(w)} ELSE shared
  /\ UNCHANGED faults

(* Mutant of WriteBlock: one block too many.                               *)
WriteBlockPastEnd(w) ==
  /\ At(w, "write")
  /\ data' = [data EXCEPT ![calls[w].file] = @ \cup {calls[w].block}]
  /\ IF calls[w].block > Blocks
     THEN Go(w, "rename")
     ELSE calls' = [calls EXCEPT ![w].block = @ + 1]
  /\ UNCHANGED <<dir, faults, shared>>

WriteBlock(w) ==
  /\ At(w, "write")
  /\ data' = [data EXCEPT ![calls[w].file] = @ \cup {calls[w].block}]
  /\ IF calls[w].block = Blocks
     THEN Go(w, "rename")
     ELSE calls' = [calls EXCEPT ![w].block = @ + 1]
  /\ UNCHANGED <<dir, faults, shared>>

Rename(w) ==
  /\ At(w, "rename") /\ tmp(w) \in DOMAIN dir
  /\ dir' = [n \in (DOMAIN dir \cup {path(w)}) \ ({tmp(w)} \ {path(w)}) |->
               IF n = path(w) THEN dir[tmp(w)] ELSE dir[n]]
  /\ Return(w, "ok")
  /\ UNCHANGED <<data, faults, shared>>

(* The disk refuses, or the name is gone.                                  *)
Refuses(w) ==
  /\ tmp(w) \in DOMAIN dir => faults < MaxFaults
  /\ faults' = IF tmp(w) \in DOMAIN dir THEN faults + 1 ELSE faults

(* Mutant of RenameFails: the temporary file is left behind.               *)
RenameFailsUntidy(w) ==
  /\ At(w, "rename")
  /\ Refuses(w)
  /\ Go(w, "recheck")
  /\ UNCHANGED <<dir, data, shared>>

RenameFails(w) ==
  /\ At(w, "rename")
  /\ Refuses(w)
  /\ Go(w, "tidy")
  /\ UNCHANGED <<dir, data, shared>>

(* remove_file, whose own failure is ignored.                              *)
RemoveTmp(w) ==
  /\ At(w, "tidy")
  /\ dir' = Unlinked(tmp(w))
  /\ Go(w, "recheck")
  /\ UNCHANGED <<data, faults, shared>>

RemoveTmpFails(w) ==
  /\ At(w, "tidy") /\ tmp(w) \in DOMAIN dir
  /\ Refuses(w)
  /\ calls' = [calls EXCEPT ![w].stage = IF Dropped(w) THEN "done" ELSE "recheck",
                            ![w].failed = @ \cup {"remove"}]
  /\ UNCHANGED <<dir, data, shared>>

(* Mutant of Recheck: losing the rename always means another call won it.  *)
RecheckTrusts(w) ==
  /\ At(w, "recheck")
  /\ Return(w, "ok")
  /\ UNCHANGED <<dir, data, faults, shared>>

(* A concurrent writer winning the race is success.                        *)
Recheck(w) ==
  /\ At(w, "recheck")
  /\ Return(w, IF Present(w) THEN "ok" ELSE "error")
  /\ UNCHANGED <<dir, data, faults, shared>>

(* create_dir_all or write reports an error: the call gives up and leaves  *)
(* what it has written.                                                    *)
WriteFails(w) ==
  /\ calls[w].stage \in {"open", "write"}
  /\ faults < MaxFaults /\ faults' = faults + 1
  /\ calls' = [calls EXCEPT ![w].stage = "done", ![w].failed = @ \cup {"write"},
                            ![w].result = IF Dropped(w) THEN @ ELSE "error"]
  /\ UNCHANGED <<dir, data, shared>>

(* The caller goes: before the next disk operation has begun, or while it  *)
(* runs.                                                                   *)
Drop(w) ==
  /\ calls[w].stage \notin {"idle", "done"} /\ ~Dropped(w)
  /\ faults < MaxFaults /\ faults' = faults + 1
  /\ \/ /\ ~At(w, "write")
        /\ calls' = [calls EXCEPT ![w].stage = "done", ![w].result = "dropped"]
     \/ /\ ~At(w, "recheck")
        /\ calls' = [calls EXCEPT ![w].result = "dropped"]
  /\ UNCHANGED <<dir, data, shared>>

Crash(p) ==
  /\ \E w \in Calls : Process[w] = p /\ calls[w].stage \notin {"idle", "done"}
  /\ calls' = [w \in Calls |->
       IF Process[w] = p /\ calls[w].stage \notin {"idle", "done"}
       THEN [calls[w] EXCEPT !.stage = "done", !.result = "crashed"] ELSE calls[w]]
  /\ UNCHANGED <<dir, data, faults, shared>>

Put(w) ==
  \/ LookForObject(w) \/ OpenTmp(w) \/ WriteBlock(w) \/ Rename(w)
  \/ RenameFails(w) \/ RemoveTmp(w) \/ RemoveTmpFails(w) \/ Recheck(w) \/ WriteFails(w)

Next == (\E w \in Calls : Put(w) \/ Drop(w)) \/ \E p \in {Process[w] : w \in Calls} : Crash(p)

Spec == Init /\ [][Next]_vars

(***************************************************************************)
(* Correctness.                                                            *)
(***************************************************************************)
TypeOK ==
  /\ \A n \in DOMAIN dir : n \in {path(w) : w \in Calls} \cup {tmp(w) : w \in Calls}
                        /\ dir[n] \in Calls
  /\ data \in [Calls -> SUBSET (1..Blocks)]
  /\ calls \in [Calls -> Call]
  /\ faults \in 0..MaxFaults
  /\ shared \subseteq {tmp(w) : w \in Calls}

(* "a reader never observes a partial object and a crash mid-write leaves  *)
(* a stray temp file rather than a truncated blob" (amk-store blobs.rs:159)*)
WholeOrAbsent ==
  \A w \in Calls : Present(w) => data[dir[path(w)]] = 1..Blocks

(* What does hold of it: a reader finds an incomplete object only after    *)
(* two calls of one process wrote the same bytes at once, and only while   *)
(* the second is still writing them or after its process crashed or its    *)
(* write failed.                                                           *)
WholeUnlessShared ==
  \A w \in Calls :
    Present(w) /\ data[dir[path(w)]] # 1..Blocks =>
      \E v \in Calls : /\ tmp(v) \in shared
                       /\ calls[v].file = dir[path(w)]
                       /\ \/ At(v, "write")
                          \/ calls[v].result = "crashed" \/ "write" \in calls[v].failed

(* An id handed to a message row, in raw_blob_id or attachment_blobs, is   *)
(* the id of an object that is there, for as long as the row may live.     *)
OkMeansStored ==
  \A w \in Calls : calls[w].result = "ok" => Present(w)

(* A temporary name leads to the file of a call that is still to rename or *)
(* remove it, or whose process crashed, whose caller went or whose disk    *)
(* refused a write or the removal: a rename that is merely lost to another *)
(* call leaves none ("a crash mid-write leaves a stray temp file",         *)
(* blobs.rs:160, is one cause of several).                                 *)
StrayOnlyAfterFailure ==
  \A w \in Calls : tmp(w) \in DOMAIN dir =>
    \E v \in Calls : /\ calls[v].file = dir[tmp(w)]
                     /\ \/ Busy(v)
                        \/ calls[v].result \in {"crashed", "dropped"}
                        \/ calls[v].failed # {}
=============================================================================
