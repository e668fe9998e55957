-------------------------- MODULE BlobStoreProofs --------------------------
(***************************************************************************)
(* The blob store keeps its promises for any number of calls in any number *)
(* of processes, whatever they store, of however many blocks, and whatever *)
(* fails: an id handed out is there, an object is whole unless two calls   *)
(* of one process wrote it at once, and a temporary file that stays is the *)
(* mark of a crash, of a caller that went, or of a disk operation that     *)
(* failed.                                                                 *)
(*                                                                         *)
(* The promises are about names and the invariant is about inodes: an      *)
(* inode has one name at most, only calls with one temporary name ever     *)
(* open it, and the one that truncated it last is still writing it, or     *)
(* wrote all of it, or was cut short.                                      *)
(***************************************************************************)
EXTENDS BlobStore, TLAPS

Whole(i) == data[i] = 1..Blocks

Opened(w, i) == calls[w].file = i

Writing(w) == calls[w].stage \in {"write", "rename"}

CutShort(w) == calls[w].result = "crashed" \/ "write" \in calls[w].failed

Hurt(w) == calls[w].result \in {"crashed", "dropped"} \/ calls[w].failed # {}

Typed ==
  /\ data \in [Calls -> SUBSET (1..Blocks)]
  /\ calls \in [Calls -> Call]
  /\ faults \in 0..MaxFaults
  /\ shared \subseteq {tmp(w) : w \in Calls}

(* How far a call has come.                                                *)
Progress ==
  \A w \in Calls :
    /\ calls[w].stage \in {"idle", "open"} => calls[w].file = NoCall /\ calls[w].block = 1
    /\ calls[w].stage \in {"write", "rename"} => calls[w].file # NoCall
    /\ calls[w].result \notin {"none", "dropped"} => calls[w].stage = "done"
    /\ calls[w].failed # {} => calls[w].stage \in {"recheck", "done"}

(* A name leads to an inode that a call of this content created, of this   *)
(* process too while the name is a temporary one.                          *)
Names ==
  \A n \in DOMAIN dir :
    /\ dir[n] \in Calls /\ Opened(dir[n], dir[n])
    /\ \/ n = path(dir[n])
       \/ n = tmp(dir[n])

OneName == \A m, n \in DOMAIN dir : dir[m] = dir[n] => m = n

(* Only calls with one temporary name open an inode.                       *)
Openers ==
  \A w \in Calls : calls[w].file # NoCall =>
    /\ tmp(calls[w].file) = tmp(w)
    /\ Opened(calls[w].file, calls[w].file)

(* The call that truncated an inode last has not been disturbed since.     *)
LastOpener ==
  \A i \in Calls : Opened(i, i) =>
    \/ Whole(i)
    \/ \E v \in Calls : /\ Opened(v, i)
                        /\ \/ At(v, "write") /\ 1..(calls[v].block - 1) \subseteq data[i]
                           \/ CutShort(v)

(* Two who write under one name are known to.                              *)
Overlaps ==
  \A v, w \in Calls : v # w /\ Busy(v) /\ Busy(w) /\ tmp(v) = tmp(w) => tmp(v) \in shared

(* Who writes alone finds its file as it left it.                          *)
Alone ==
  \A w \in Calls : Writing(w) /\ tmp(w) \notin shared =>
    /\ tmp(w) \in DOMAIN dir /\ dir[tmp(w)] = calls[w].file
    /\ At(w, "write") => 1..(calls[w].block - 1) \subseteq data[calls[w].file]
    /\ At(w, "rename") => Whole(calls[w].file)

(* What was renamed is whole, or several had it open.                      *)
Renamed ==
  \A i \in Calls : path(i) \in DOMAIN dir /\ dir[path(i)] = i => Whole(i) \/ tmp(i) \in shared

(* A temporary name leads to the file of a call that will remove it or was *)
(* kept from it.                                                           *)
Strays ==
  \A i \in Calls : tmp(i) \in DOMAIN dir /\ dir[tmp(i)] = i =>
    \E v \in Calls : Opened(v, i) /\ (Busy(v) \/ Hurt(v))

IInv ==
  /\ Typed /\ Progress /\ Names /\ OneName /\ Openers /\ LastOpener
  /\ Overlaps /\ Alone /\ Renamed /\ Strays /\ OkMeansStored

(***************************************************************************)
(* Names.                                                                  *)
(***************************************************************************)
(* An object's name is no temporary name, and a temporary name says which  *)
(* object it is for.                                                       *)
LEMMA NamesApart ==
  ASSUME NEW v, NEW w
  PROVE  /\ path(v) # tmp(w)
         /\ tmp(v) = tmp(w) => path(v) = path(w)
BY DEF path, tmp

(* The first call to open an inode is the one it bears the name of.        *)
LEMMA Unopened ==
  ASSUME IInv, NEW w \in Calls, calls[w].file = NoCall
  PROVE  /\ \A n \in DOMAIN dir : dir[n] # w
         /\ \A v \in Calls : ~Opened(v, w)
         /\ ~Opened(w, w)
<1>1. \A n \in DOMAIN dir : dir[n] # w
  BY CallsAssumption DEF IInv, Names, Opened
<1>2. \A v \in Calls : ~Opened(v, w)
  BY CallsAssumption DEF IInv, Openers, Opened
<1> QED BY <1>1, <1>2

(* What a temporary name leads to was opened under that name.              *)
LEMMA TmpInode ==
  ASSUME IInv, NEW w \in Calls, tmp(w) \in DOMAIN dir
  PROVE  /\ dir[tmp(w)] \in Calls /\ tmp(dir[tmp(w)]) = tmp(w)
         /\ Opened(dir[tmp(w)], dir[tmp(w)])
BY NamesApart DEF IInv, Names

LEMMA PathInode ==
  ASSUME IInv, NEW w \in Calls, Present(w)
  PROVE  /\ dir[path(w)] \in Calls /\ path(dir[path(w)]) = path(w)
         /\ Opened(dir[path(w)], dir[path(w)])
BY NamesApart DEF IInv, Names, Present

(***************************************************************************)
(* Steps that touch no file.                                               *)
(***************************************************************************)
(* A call may go on, answer, or be cut short in what it does.              *)
LEMMA QuietInv ==
  ASSUME IInv, UNCHANGED <<dir, data, shared>>, Typed', Progress', OkMeansStored',
         \A v \in Calls :
           /\ calls'[v].file = calls[v].file /\ calls'[v].block = calls[v].block
           /\ Busy(v)' => Busy(v)
           /\ At(v, "write")' => At(v, "write")
           /\ At(v, "rename")' => At(v, "rename")
           /\ CutShort(v) => CutShort(v)'
           /\ At(v, "write") => At(v, "write")' \/ CutShort(v)'
           /\ Busy(v) \/ Hurt(v) => Busy(v)' \/ Hurt(v)'
  PROVE  IInv'
<1>1. /\ \A i \in Calls : Whole(i)' <=> Whole(i)
      /\ \A v, i \in Calls : Opened(v, i)' <=> Opened(v, i)
      /\ \A v \in Calls : Writing(v)' => Writing(v)
  BY DEF Whole, Opened, Writing, At
<1>2. Names' /\ OneName' /\ Openers'
  <2>1. Names'
    BY DEF IInv, Names, Opened, path, tmp
  <2>2. OneName'
    BY DEF IInv, OneName
  <2>3. Openers'
    BY DEF IInv, Openers, Opened, Typed, Call, tmp
  <2> QED BY <2>1, <2>2, <2>3
<1>3. LastOpener'
  <2> SUFFICES ASSUME NEW i \in Calls, Opened(i, i), ~Whole(i)
               PROVE  \E v \in Calls :
                        /\ Opened(v, i)'
                        /\ \/ At(v, "write")' /\ (1..(calls[v].block - 1) \subseteq data[i])'
                           \/ CutShort(v)'
    BY <1>1 DEF LastOpener
  <2>1. PICK v \in Calls : /\ Opened(v, i)
                           /\ \/ At(v, "write") /\ 1..(calls[v].block - 1) \subseteq data[i]
                              \/ CutShort(v)
    BY DEF IInv, LastOpener
  <2> QED BY <1>1, <2>1
<1>4. Overlaps'
  BY DEF IInv, Overlaps, tmp
<1>5. Alone'
  BY <1>1 DEF IInv, Alone, Whole, tmp
<1>6. Renamed'
  BY <1>1 DEF IInv, Renamed, path, tmp
<1>7. Strays'
  <2> SUFFICES ASSUME NEW i \in Calls, tmp(i) \in DOMAIN dir, dir[tmp(i)] = i
               PROVE  \E v \in Calls : Opened(v, i)' /\ (Busy(v)' \/ Hurt(v)')
    BY DEF Strays, tmp
  <2>1. PICK v \in Calls : Opened(v, i) /\ (Busy(v) \/ Hurt(v))
    BY DEF IInv, Strays
  <2> QED BY <1>1, <2>1
<1> QED BY <1>2, <1>3, <1>4, <1>5, <1>6, <1>7 DEF IInv

(* One call moves on, ends, or is kept from going on, and no file changes. *)
LEMMA OneQuietInv ==
  ASSUME IInv, UNCHANGED <<dir, data, shared>>, faults' \in 0..MaxFaults,
         NEW w \in Calls, \A v \in Calls \ {w} : calls'[v] = calls[v],
         calls' \in [Calls -> Call],
         calls'[w].file = calls[w].file, calls'[w].block = calls[w].block,
         calls'[w].stage \in {"open", "write", "rename", "tidy", "recheck", "done"},
         \/ calls'[w].stage = calls[w].stage
         \/ calls'[w].stage \in {"recheck", "done"}
         \/ (At(w, "idle") /\ calls'[w].stage = "open")
         \/ (At(w, "rename") /\ calls'[w].stage = "tidy"),
         calls[w].failed \subseteq calls'[w].failed,
         calls[w].result = "crashed" => calls'[w].result = "crashed",
         At(w, "write") => calls'[w].stage = "write" \/ CutShort(w)',
         Busy(w) \/ Hurt(w) => Busy(w)' \/ Hurt(w)',
         calls'[w].result = "ok" => Present(w),
         calls'[w].result \notin {"none", "dropped"} => calls'[w].stage = "done",
         calls'[w].failed # {} => calls'[w].stage \in {"recheck", "done"}
  PROVE  IInv'
<1>1. Typed'
  BY DEF IInv, Typed, tmp
<1>2. Progress'
  BY DEF IInv, Progress, At
<1>3. OkMeansStored'
  BY DEF IInv, OkMeansStored, Present, path
<1>4. \A v \in Calls :
        /\ calls'[v].file = calls[v].file /\ calls'[v].block = calls[v].block
        /\ Busy(v)' => Busy(v)
        /\ At(v, "write")' => At(v, "write")
        /\ At(v, "rename")' => At(v, "rename")
        /\ CutShort(v) => CutShort(v)'
        /\ At(v, "write") => At(v, "write")' \/ CutShort(v)'
        /\ Busy(v) \/ Hurt(v) => Busy(v)' \/ Hurt(v)'
  BY DEF Busy, At, CutShort, Hurt
<1> QED BY <1>1, <1>2, <1>3, <1>4, QuietInv

(* A call that found the object, or not, at the start or after it lost the *)
(* rename; one whose rename was refused, or whose removal was; one whose   *)
(* write fails, and one whose caller goes.                                 *)
LEMMA QuietStepsInv ==
  ASSUME IInv, NEW w \in Calls,
         \/ LookForObject(w) \/ Recheck(w) \/ RenameFails(w) \/ RemoveTmpFails(w)
         \/ WriteFails(w) \/ Drop(w)
  PROVE  IInv'
<1> DEFINE c == calls[w]
           d == calls'[w]
<1>1. /\ calls \in [Calls -> Call] /\ faults \in 0..MaxFaults /\ MaxFaults \in Nat
      /\ c.result \notin {"none", "dropped"} => c.stage = "done"
      /\ c.failed # {} => c.stage \in {"recheck", "done"}
  BY CallsAssumption DEF IInv, Typed, Progress
<1>2. /\ c.stage \in Stages /\ c.block \in 1..Blocks /\ c.file \in Calls \cup {NoCall}
      /\ c.failed \in SUBSET {"write", "remove"} /\ c.result \in Results
  BY <1>1 DEF Call
<1>3. UNCHANGED <<dir, data, shared>> /\ faults' \in 0..MaxFaults
  BY <1>1 DEF LookForObject, Recheck, RenameFails, RemoveTmpFails, WriteFails, Drop, Refuses
<1>4. /\ \A v \in Calls \ {w} : calls'[v] = calls[v]
      /\ calls' \in [Calls -> Call]
  <2>1. CASE LookForObject(w) \/ Recheck(w) \/ RenameFails(w)
    BY <1>1, <2>1 DEF LookForObject, Recheck, RenameFails, Return, Go, Dropped, Call, Stages, Results
  <2>2. CASE RemoveTmpFails(w) \/ WriteFails(w)
    BY <1>1, <2>2 DEF RemoveTmpFails, WriteFails, Dropped, Call, Stages, Results
  <2>3. CASE Drop(w)
    BY <1>1, <2>3 DEF Drop, Call, Stages, Results
  <2> QED BY <2>1, <2>2, <2>3
<1>5. /\ d.file = c.file /\ d.block = c.block
      /\ \/ d.stage = c.stage
         \/ d.stage \in {"recheck", "done"}
         \/ c.stage = "idle" /\ d.stage = "open"
         \/ c.stage = "rename" /\ d.stage = "tidy"
      /\ d.stage \in Stages \ {"idle"}
      /\ d.failed \in SUBSET {"write", "remove"} /\ c.failed \subseteq d.failed
      /\ d.result \in Results
      /\ d.result \in {"dropped", "ok", "error"} \/ d.result = c.result
      /\ c.result \in {"crashed", "dropped"} => d.result = c.result
      /\ c.stage = "write" => d.stage = "write" \/ "write" \in d.failed
      /\ \/ d.stage \in {"write", "rename", "tidy"}
         \/ d.result = "dropped"
         \/ d.failed # {}
         \/ c.stage \notin {"write", "rename", "tidy"}
      /\ d.result = "ok" => c.result = "ok" \/ Present(w)
      /\ d.result \notin {"none", "dropped"} => d.stage = "done"
      /\ d.failed # {} => d.stage \in {"recheck", "done"}
  <2>1. CASE LookForObject(w)
    BY <1>1, <1>2, <2>1 DEF LookForObject, Return, Go, At, Dropped, Stages, Results, Call
  <2>2. CASE Recheck(w)
    BY <1>1, <1>2, <2>2 DEF Recheck, Return, At, Dropped, Stages, Results, Call
  <2>3. CASE RenameFails(w)
    BY <1>1, <1>2, <2>3 DEF RenameFails, Go, At, Dropped, Stages, Results, Call
  <2>4. CASE RemoveTmpFails(w)
    BY <1>1, <1>2, <2>4 DEF RemoveTmpFails, At, Dropped, Stages, Results, Call
  <2>5. CASE WriteFails(w)
    BY <1>1, <1>2, <2>5 DEF WriteFails, At, Dropped, Stages, Results, Call
  <2>6. CASE Drop(w)
    BY <1>1, <1>2, <2>6 DEF Drop, At, Dropped, Stages, Results, Call
  <2> QED BY <2>1, <2>2, <2>3, <2>4, <2>5, <2>6
<1> HIDE DEF c, d
<1>6. /\ At(w, "write") => d.stage = "write" \/ CutShort(w)'
      /\ Busy(w) \/ Hurt(w) => Busy(w)' \/ Hurt(w)'
  BY <1>5 DEF At, CutShort, Busy, Hurt, c, d
<1>7. d.stage \in {"open", "write", "rename", "tidy", "recheck", "done"}
  BY <1>5 DEF Stages
<1>8. d.result = "ok" => Present(w)
  BY <1>5 DEF IInv, OkMeansStored, c
<1>9. /\ calls'[w].file = calls[w].file /\ calls'[w].block = calls[w].block
      /\ \/ calls'[w].stage = calls[w].stage
         \/ calls'[w].stage \in {"recheck", "done"}
         \/ At(w, "idle") /\ calls'[w].stage = "open"
         \/ At(w, "rename") /\ calls'[w].stage = "tidy"
      /\ calls[w].failed \subseteq calls'[w].failed
      /\ calls[w].result = "crashed" => calls'[w].result = "crashed"
      /\ calls'[w].result \notin {"none", "dropped"} => calls'[w].stage = "done"
      /\ calls'[w].failed # {} => calls'[w].stage \in {"recheck", "done"}
  BY <1>5 DEF At, c, d
<1>10. /\ calls'[w].stage \in {"open", "write", "rename", "tidy", "recheck", "done"}
       /\ At(w, "write") => calls'[w].stage = "write" \/ CutShort(w)'
       /\ calls'[w].result = "ok" => Present(w)
  BY <1>6, <1>7, <1>8 DEF d
<1> QED BY <1>3, <1>4, <1>6, <1>9, <1>10, OneQuietInv

LEMMA CrashInv ==
  ASSUME IInv, NEW p, Crash(p)
  PROVE  IInv'
<1>1. Typed'
  <2>1. ASSUME NEW v \in Calls
        PROVE  [calls[v] EXCEPT !.stage = "done", !.result = "crashed"] \in Call
    BY DEF IInv, Typed, Call, Stages, Results
  <2>2. calls' \in [Calls -> Call]
    BY <2>1 DEF Crash, IInv, Typed
  <2> QED BY <2>2 DEF Crash, IInv, Typed, tmp
<1>2. ASSUME NEW v \in Calls
      PROVE  \/ calls'[v] = calls[v]
             \/ /\ calls'[v].file = calls[v].file /\ calls'[v].block = calls[v].block
                /\ calls'[v].stage = "done" /\ calls'[v].result = "crashed"
                /\ calls'[v].failed = calls[v].failed
                /\ calls[v].stage # "done"
  BY DEF Crash, IInv, Typed, Call
<1>3. Progress'
  BY <1>2 DEF IInv, Progress
<1>4. OkMeansStored'
  BY <1>2 DEF Crash, IInv, OkMeansStored, Present, path
<1>5. \A v \in Calls :
        /\ calls'[v].file = calls[v].file /\ calls'[v].block = calls[v].block
        /\ Busy(v)' => Busy(v)
        /\ At(v, "write")' => At(v, "write")
        /\ At(v, "rename")' => At(v, "rename")
        /\ CutShort(v) => CutShort(v)'
        /\ At(v, "write") => At(v, "write")' \/ CutShort(v)'
        /\ Busy(v) \/ Hurt(v) => Busy(v)' \/ Hurt(v)'
  BY <1>2 DEF Busy, At, CutShort, Hurt
<1>6. UNCHANGED <<dir, data, shared>>
  BY DEF Crash
<1> QED BY <1>1, <1>3, <1>4, <1>5, <1>6, QuietInv

(***************************************************************************)
(* Steps that write.                                                       *)
(***************************************************************************)
(* The blocks of a file only grow, and the last one comes from a call that *)
(* will rename the file.                                                   *)
LEMMA WriteBlockInv ==
  ASSUME IInv, NEW w \in Calls, WriteBlock(w)
  PROVE  IInv'
<1> DEFINE f == calls[w].file
           b == calls[w].block
<1>1. /\ At(w, "write") /\ f \in Calls /\ b \in 1..Blocks /\ Blocks \in Nat
      /\ calls[w].result \in {"none", "dropped"} /\ calls[w].failed = {}
  BY CallsAssumption DEF WriteBlock, At, IInv, Typed, Call, Results, Progress
<1>2. /\ data' \in [Calls -> SUBSET (1..Blocks)]
      /\ data'[f] = data[f] \cup {b}
      /\ \A i \in Calls \ {f} : data'[i] = data[i]
      /\ UNCHANGED <<dir, faults, shared>>
  BY <1>1 DEF WriteBlock, IInv, Typed
<1>3. /\ calls' \in [Calls -> Call]
      /\ \A v \in Calls \ {w} : calls'[v] = calls[v]
      /\ calls'[w].file = f /\ calls'[w].result = calls[w].result /\ calls'[w].failed = {}
      /\ \/ b < Blocks /\ calls'[w].stage = "write" /\ calls'[w].block = b + 1
         \/ /\ b = Blocks /\ calls'[w].block = b
            /\ \/ calls'[w].stage = "rename"
               \/ calls'[w].stage = "done" /\ Dropped(w)
  BY <1>1 DEF WriteBlock, Go, Dropped, At, IInv, Typed, Call, Stages
<1> HIDE DEF f, b
<1>4. /\ \A i \in Calls : data[i] \subseteq data'[i] /\ (Whole(i) => Whole(i)')
      /\ \A v, i \in Calls : Opened(v, i)' <=> Opened(v, i)
      /\ \A v \in Calls : (Writing(v)' => Writing(v)) /\ (Busy(v)' => Busy(v))
      /\ \A v \in Calls : CutShort(v)' <=> CutShort(v)
      /\ \A v \in Calls : Busy(v) \/ Hurt(v) => Busy(v)' \/ Hurt(v)'
  <2>1. ASSUME NEW i \in Calls PROVE data[i] \subseteq data'[i] /\ (Whole(i) => Whole(i)')
    BY <1>1, <1>2 DEF IInv, Typed, Whole
  <2>2. /\ calls'[w].stage \in {"write", "rename"} \/ calls'[w].result = "dropped"
        /\ calls[w].stage = "write"
    BY <1>1, <1>3 DEF At, Dropped
  <2>3. \A v, i \in Calls : Opened(v, i)' <=> Opened(v, i)
    BY <1>3 DEF Opened, f
  <2>4. ASSUME NEW v \in Calls
        PROVE  /\ (Writing(v)' => Writing(v)) /\ (Busy(v)' => Busy(v))
               /\ CutShort(v)' <=> CutShort(v)
               /\ Busy(v) \/ Hurt(v) => Busy(v)' \/ Hurt(v)'
    <3>1. CASE v = w
      BY <1>1, <1>3, <2>2, <3>1 DEF Writing, Busy, CutShort, Hurt
    <3>2. CASE v # w
      BY <1>3, <3>2 DEF Writing, Busy, CutShort, Hurt
    <3> QED BY <3>1, <3>2
  <2> QED BY <2>1, <2>3, <2>4
<1>5. Typed'
  BY <1>2, <1>3 DEF IInv, Typed, tmp
<1>6. Progress'
  BY <1>1, <1>3, CallsAssumption DEF IInv, Progress
<1>7. Names'
  BY <1>2, <1>4 DEF IInv, Names, path, tmp
<1>8. OneName'
  BY <1>2 DEF IInv, OneName
<1>9. Openers'
  <2>1. \A v \in Calls : calls'[v].file = calls[v].file
    BY <1>3 DEF f
  <2> QED BY <2>1 DEF IInv, Openers, Opened, Typed, Call, tmp
<1>10. LastOpener'
  <2> SUFFICES ASSUME NEW i \in Calls, Opened(i, i), ~Whole(i)'
               PROVE  \E v \in Calls :
                        /\ Opened(v, i)'
                        /\ \/ At(v, "write")' /\ (1..(calls[v].block - 1) \subseteq data[i])'
                           \/ CutShort(v)'
    BY <1>4 DEF LastOpener
  <2>1. PICK v \in Calls : /\ Opened(v, i)
                           /\ \/ At(v, "write") /\ 1..(calls[v].block - 1) \subseteq data[i]
                              \/ CutShort(v)
    BY <1>4 DEF IInv, LastOpener
  <2>2. CASE CutShort(v) \/ v # w
    BY <1>3, <1>4, <2>1, <2>2 DEF At
  <2>3. CASE v = w /\ ~CutShort(v)
    <3>1. i = f /\ 1..(b - 1) \subseteq data[f]
      BY <2>1, <2>3 DEF Opened, f, b
    <3>2. 1..b \subseteq data'[f]
      BY <1>1, <1>2, <3>1
    <3>3. b < Blocks
      BY <1>1, <1>2, <1>3, <3>1, <3>2 DEF Whole
    <3> QED BY <1>1, <1>3, <1>4, <2>1, <2>3, <3>1, <3>2, <3>3 DEF At
  <2> QED BY <2>2, <2>3
<1>11. Overlaps'
  BY <1>2, <1>4 DEF IInv, Overlaps, tmp
<1>12. Alone'
  <2> SUFFICES ASSUME NEW v \in Calls, Writing(v)', tmp(v) \notin shared
               PROVE  /\ tmp(v) \in DOMAIN dir /\ dir[tmp(v)] = calls'[v].file
                      /\ At(v, "write")' => 1..(calls'[v].block - 1) \subseteq data'[calls'[v].file]
                      /\ At(v, "rename")' => data'[calls'[v].file] = 1..Blocks
    BY <1>2 DEF Alone, tmp, Whole
  <2>1. /\ tmp(v) \in DOMAIN dir /\ dir[tmp(v)] = calls[v].file
        /\ At(v, "write") => 1..(calls[v].block - 1) \subseteq data[calls[v].file]
        /\ At(v, "rename") => data[calls[v].file] = 1..Blocks
    BY <1>4 DEF IInv, Alone, Whole
  <2>2. CASE v # w
    <3>1. calls[v].file \in Calls
      BY <1>4 DEF IInv, Typed, Call, Progress, Writing
    <3>2. data[calls[v].file] \subseteq data'[calls[v].file]
          /\ (Whole(calls[v].file) => data'[calls[v].file] = 1..Blocks)
      BY <1>4, <3>1 DEF Whole
    <3> QED BY <1>3, <2>1, <2>2, <3>2 DEF At, Whole
  <2>3. CASE v = w
    <3>1. 1..(b - 1) \subseteq data[f]
      BY <1>1, <2>1, <2>3 DEF b, f
    <3>2. 1..b \subseteq data'[f]
      BY <1>1, <1>2, <3>1
    <3>3. b = Blocks => data'[f] = 1..Blocks
      BY <1>1, <1>2, <3>2
    <3> QED BY <1>1, <1>3, <2>1, <2>3, <3>2, <3>3 DEF At, f
  <2> QED BY <2>2, <2>3
<1>13. Renamed'
  BY <1>2, <1>4 DEF IInv, Renamed, path, tmp
<1>14. Strays'
  <2> SUFFICES ASSUME NEW i \in Calls, tmp(i) \in DOMAIN dir, dir[tmp(i)] = i
               PROVE  \E v \in Calls : Opened(v, i)' /\ (Busy(v)' \/ Hurt(v)')
    BY <1>2 DEF Strays, tmp
  <2>1. PICK v \in Calls : Opened(v, i) /\ (Busy(v) \/ Hurt(v))
    BY DEF IInv, Strays
  <2> QED BY <1>4, <2>1
<1>15. OkMeansStored'
  BY <1>2, <1>3 DEF IInv, OkMeansStored, Present, path
<1> QED
  BY <1>5, <1>6, <1>7, <1>8, <1>9, <1>10, <1>11, <1>12, <1>13, <1>14, <1>15 DEF IInv

(***************************************************************************)
(* Steps that rename or remove a temporary file.                           *)
(***************************************************************************)
(* The temporary name is gone, and the object's leads where it led, or to  *)
(* what the temporary name led to.                                         *)
LEMMA LeaveTmpInv ==
  ASSUME IInv, NEW w \in Calls, At(w, "rename") \/ At(w, "tidy"),
         UNCHANGED <<data, shared>>, Typed', Progress', OkMeansStored',
         \A v \in Calls \ {w} : calls'[v] = calls[v],
         calls'[w].file = calls[w].file, calls'[w].stage \in {"recheck", "done"},
         calls'[w].failed = calls[w].failed,
         calls[w].result = "crashed" => calls'[w].result = "crashed",
         tmp(w) \notin DOMAIN dir', DOMAIN dir \ {tmp(w)} \subseteq DOMAIN dir',
         \A n \in DOMAIN dir' :
           \/ n \in DOMAIN dir /\ dir'[n] = dir[n]
           \/ /\ At(w, "rename") /\ n = path(w) /\ tmp(w) \in DOMAIN dir
              /\ dir'[n] = dir[tmp(w)]
  PROVE  IInv'
<1>1. /\ ~At(w, "write") /\ Busy(w) /\ ~Busy(w)' /\ ~Writing(w)'
      /\ CutShort(w) => CutShort(w)'
  BY DEF At, Writing, Busy, CutShort
<1>2. /\ \A v \in Calls : calls'[v].file = calls[v].file
      /\ \A v, i \in Calls : Opened(v, i)' <=> Opened(v, i)
      /\ \A i \in Calls : Whole(i)' <=> Whole(i)
  BY DEF Opened, Whole
<1>3. Names'
  <2> SUFFICES ASSUME NEW n \in DOMAIN dir'
               PROVE  /\ dir'[n] \in Calls /\ Opened(dir[n], dir[n])'
                      /\ n = path(dir'[n]) \/ n = tmp(dir'[n])
    BY DEF Names, path, tmp
  <2>1. CASE n \in DOMAIN dir /\ dir'[n] = dir[n]
    <3>1. /\ dir[n] \in Calls /\ Opened(dir[n], dir[n])
          /\ n = path(dir[n]) \/ n = tmp(dir[n])
      BY <2>1 DEF IInv, Names
    <3> QED BY <1>2, <2>1, <3>1 DEF Opened
  <2>2. CASE n = path(w) /\ tmp(w) \in DOMAIN dir /\ dir'[n] = dir[tmp(w)]
    <3>1. /\ dir[tmp(w)] \in Calls /\ Opened(dir[tmp(w)], dir[tmp(w)])
          /\ path(dir[tmp(w)]) = path(w)
      BY <2>2, TmpInode, NamesApart
    <3> QED BY <1>2, <2>2, <3>1 DEF Opened
  <2> QED BY <2>1, <2>2
<1>4. OneName'
  BY DEF IInv, OneName
<1>5. Openers'
  BY <1>2 DEF IInv, Openers, Opened, Typed, Call, tmp
<1>6. LastOpener'
  <2> SUFFICES ASSUME NEW i \in Calls, Opened(i, i), ~Whole(i)
               PROVE  \E v \in Calls :
                        /\ Opened(v, i)'
                        /\ \/ At(v, "write")' /\ (1..(calls[v].block - 1) \subseteq data[i])'
                           \/ CutShort(v)'
    BY <1>2 DEF LastOpener
  <2>1. PICK v \in Calls : /\ Opened(v, i)
                           /\ \/ At(v, "write") /\ 1..(calls[v].block - 1) \subseteq data[i]
                              \/ CutShort(v)
    BY DEF IInv, LastOpener
  <2>2. CASE CutShort(v)
    BY <1>1, <1>2, <2>1, <2>2 DEF CutShort
  <2>3. CASE ~CutShort(v)
    <3>1. v # w
      BY <1>1, <2>1, <2>3
    <3> QED BY <1>2, <2>1, <2>3, <3>1 DEF At
  <2> QED BY <2>2, <2>3
<1>7. Overlaps'
  <2>1. \A v \in Calls : Busy(v)' => Busy(v)
    BY <1>1 DEF Busy
  <2> QED BY <2>1 DEF IInv, Overlaps, tmp
<1>8. Alone'
  <2> SUFFICES ASSUME NEW v \in Calls, Writing(v)', tmp(v) \notin shared
               PROVE  /\ tmp(v) \in DOMAIN dir' /\ dir'[tmp(v)] = calls'[v].file
                      /\ At(v, "write")' => 1..(calls'[v].block - 1) \subseteq data[calls'[v].file]
                      /\ At(v, "rename")' => data[calls'[v].file] = 1..Blocks
    BY DEF Alone, tmp, Whole
  <2>1. v # w /\ calls'[v] = calls[v] /\ Writing(v)
    BY <1>1 DEF Writing
  <2>2. tmp(v) # tmp(w)
    BY <1>1, <2>1 DEF IInv, Overlaps, Writing, Busy
  <2>3. /\ tmp(v) \in DOMAIN dir /\ dir[tmp(v)] = calls[v].file
        /\ At(v, "write") => 1..(calls[v].block - 1) \subseteq data[calls[v].file]
        /\ At(v, "rename") => data[calls[v].file] = 1..Blocks
    BY <2>1 DEF IInv, Alone, Whole
  <2>4. tmp(v) \in DOMAIN dir' /\ dir'[tmp(v)] = dir[tmp(v)]
    BY <2>2, <2>3, NamesApart
  <2> QED BY <2>1, <2>3, <2>4 DEF At
<1>9. Renamed'
  <2> SUFFICES ASSUME NEW i \in Calls, path(i) \in DOMAIN dir', dir'[path(i)] = i
               PROVE  Whole(i) \/ tmp(i) \in shared
    BY <1>2 DEF Renamed, path, tmp
  <2>1. CASE path(i) \in DOMAIN dir /\ dir[path(i)] = i
    BY <2>1 DEF IInv, Renamed
  <2>2. CASE At(w, "rename") /\ tmp(w) \in DOMAIN dir /\ i = dir[tmp(w)]
    <3>1. tmp(i) = tmp(w)
      BY <2>2, TmpInode
    <3> QED BY <2>2, <3>1 DEF IInv, Alone, At, Writing
  <2> QED BY <2>1, <2>2
<1>10. Strays'
  <2> SUFFICES ASSUME NEW i \in Calls, tmp(i) \in DOMAIN dir', dir'[tmp(i)] = i
               PROVE  \E v \in Calls : Opened(v, i)' /\ (Busy(v)' \/ Hurt(v)')
    BY DEF Strays, tmp
  <2>1. tmp(i) # tmp(w) /\ tmp(i) \in DOMAIN dir /\ dir[tmp(i)] = i
    BY NamesApart
  <2>2. PICK v \in Calls : Opened(v, i) /\ (Busy(v) \/ Hurt(v))
    BY <2>1 DEF IInv, Strays
  <2>3. v # w
    BY <2>1, <2>2, CallsAssumption DEF IInv, Openers, Opened
  <2> QED BY <1>2, <2>2, <2>3 DEF Busy, Hurt
<1> QED
  BY <1>3, <1>4, <1>5, <1>6, <1>7, <1>8, <1>9, <1>10 DEF IInv

LEMMA RenameInv ==
  ASSUME IInv, NEW w \in Calls, Rename(w)
  PROVE  IInv'
<1>1. /\ At(w, "rename") /\ tmp(w) \in DOMAIN dir /\ UNCHANGED <<data, faults, shared>>
      /\ path(w) # tmp(w)
  BY NamesApart DEF Rename
<1>2. /\ \A v \in Calls \ {w} : calls'[v] = calls[v]
      /\ calls'[w].file = calls[w].file /\ calls'[w].stage = "done"
      /\ calls'[w].failed = calls[w].failed
      /\ calls[w].result = "crashed" => calls'[w].result = "crashed"
  BY <1>1 DEF Rename, Return, At, IInv, Typed, Call, Progress
<1>3. /\ DOMAIN dir' = (DOMAIN dir \cup {path(w)}) \ {tmp(w)}
      /\ \A n \in DOMAIN dir' : dir'[n] = IF n = path(w) THEN dir[tmp(w)] ELSE dir[n]
  BY <1>1 DEF Rename
<1>4. Typed'
  <2>1. /\ calls \in [Calls -> Call]
        /\ calls[w].stage \in Stages /\ calls[w].result \in Results
    BY DEF IInv, Typed, Call
  <2>2. PICK r \in Results : calls' = [calls EXCEPT ![w].stage = "done", ![w].result = r]
    BY <2>1 DEF Rename, Return, Results
  <2>3. [calls[w] EXCEPT !.stage = "done", !.result = r] \in Call
    BY <2>1 DEF Call, Stages
  <2>4. calls' \in [Calls -> Call]
    BY <2>1, <2>2, <2>3
  <2> QED BY <1>1, <2>4 DEF IInv, Typed, tmp
<1>5. Progress'
  BY DEF Rename, Return, IInv, Typed, Call, Progress
<1>6. OkMeansStored'
  <2> SUFFICES ASSUME NEW v \in Calls, calls'[v].result = "ok" PROVE path(v) \in DOMAIN dir'
    BY DEF OkMeansStored, Present, path
  <2> QED BY <1>2, <1>3, NamesApart DEF IInv, OkMeansStored, Present
<1> QED
  BY <1>1, <1>2, <1>3, <1>4, <1>5, <1>6, LeaveTmpInv

LEMMA RemoveTmpInv ==
  ASSUME IInv, NEW w \in Calls, RemoveTmp(w)
  PROVE  IInv'
<1>1. At(w, "tidy") /\ UNCHANGED <<data, faults, shared>>
  BY DEF RemoveTmp
<1>2. /\ \A v \in Calls \ {w} : calls'[v] = calls[v]
      /\ calls'[w].file = calls[w].file /\ calls'[w].block = calls[w].block
      /\ calls'[w].failed = calls[w].failed /\ calls'[w].result = calls[w].result
      /\ calls'[w].stage \in {"recheck", "done"}
  BY DEF RemoveTmp, Go, IInv, Typed, Call
<1>3. /\ DOMAIN dir' = DOMAIN dir \ {tmp(w)}
      /\ \A n \in DOMAIN dir' : dir'[n] = dir[n]
  BY DEF RemoveTmp, Unlinked
<1>4. Typed'
  <2>1. calls' \in [Calls -> Call]
    BY DEF RemoveTmp, Go, IInv, Typed, Call, Stages
  <2> QED BY <1>1, <2>1 DEF IInv, Typed, tmp
<1>5. Progress'
  BY <1>1, <1>2 DEF At, IInv, Progress
<1>6. OkMeansStored'
  <2> SUFFICES ASSUME NEW v \in Calls, calls'[v].result = "ok" PROVE path(v) \in DOMAIN dir'
    BY DEF OkMeansStored, Present, path
  <2> QED BY <1>2, <1>3, NamesApart DEF IInv, OkMeansStored, Present
<1> QED
  BY <1>1, <1>2, <1>3, <1>4, <1>5, <1>6, LeaveTmpInv

(* Opening truncates: the file a name led to is started again, or the name *)
(* is given a file nobody has opened.                                      *)
LEMMA OpenTmpInv ==
  ASSUME IInv, NEW w \in Calls, OpenTmp(w)
  PROVE  IInv'
<1> DEFINE i == IF tmp(w) \in DOMAIN dir THEN dir[tmp(w)] ELSE w
<1>1. /\ calls[w].file = NoCall /\ calls[w].block = 1 /\ calls[w].stage = "open"
      /\ calls[w].result \in {"none", "dropped"} /\ calls[w].failed = {}
      /\ NoCall \notin Calls
      /\ \A n \in DOMAIN dir : dir[n] # w
      /\ \A v \in Calls : calls[v].file # w
  <2>1. /\ calls[w].file = NoCall /\ calls[w].block = 1 /\ calls[w].stage = "open"
        /\ calls[w].result \in {"none", "dropped"} /\ calls[w].failed = {}
    BY DEF OpenTmp, At, IInv, Progress, Typed
  <2> QED BY <2>1, CallsAssumption, Unopened DEF Opened
<1>2. /\ i \in Calls /\ tmp(i) = tmp(w) /\ (i = w \/ Opened(i, i))
      /\ \A n \in DOMAIN dir : dir[n] = i => n = tmp(w)
  <2>1. CASE tmp(w) \in DOMAIN dir
    BY <2>1, TmpInode DEF IInv, OneName
  <2>2. CASE tmp(w) \notin DOMAIN dir
    BY <1>1, <2>2
  <2> QED BY <2>1, <2>2
<1>3. /\ DOMAIN dir' = DOMAIN dir \cup {tmp(w)}
      /\ \A n \in DOMAIN dir' : dir'[n] = IF n = tmp(w) THEN i ELSE dir[n]
  BY DEF OpenTmp, Link
<1>4. /\ data' \in [Calls -> SUBSET (1..Blocks)] /\ data'[i] = {}
      /\ \A j \in Calls \ {i} : data'[j] = data[j]
  BY <1>2 DEF OpenTmp, IInv, Typed
<1>5. /\ calls' \in [Calls -> Call]
      /\ \A v \in Calls \ {w} : calls'[v] = calls[v]
      /\ calls'[w].stage = "write" /\ calls'[w].file = i /\ calls'[w].block = 1
      /\ calls'[w].result = calls[w].result /\ calls'[w].failed = {}
  BY <1>1, <1>2, CallsAssumption DEF OpenTmp, IInv, Typed, Call, Stages
<1>6. /\ shared \subseteq shared' /\ shared' \subseteq {tmp(v) : v \in Calls}
      /\ \A v \in Calls : tmp(v) = tmp(w) /\ Busy(v) => tmp(w) \in shared'
      /\ UNCHANGED faults
  BY DEF OpenTmp, IInv, Typed
<1> HIDE DEF i
<1>7. /\ \A v \in Calls \ {w} : /\ \A j : Opened(v, j)' <=> Opened(v, j)
                                /\ Writing(v)' <=> Writing(v)
                                /\ Busy(v)' <=> Busy(v)
                                /\ CutShort(v)' <=> CutShort(v)
                                /\ Hurt(v)' <=> Hurt(v)
      /\ Writing(w)' /\ Busy(w)' /\ ~Writing(w) /\ ~CutShort(w)
      /\ \A j \in Calls : ~Opened(w, j) /\ (Opened(j, j) => j # w)
  BY <1>1, <1>5 DEF Opened, Writing, Busy, CutShort, Hurt
<1>8. calls'[i].file = i
  BY <1>2, <1>5, <1>7 DEF Opened
<1>9. Typed'
  BY <1>4, <1>5, <1>6 DEF IInv, Typed, tmp
<1>10. Progress'
  BY <1>1, <1>2, <1>5 DEF IInv, Progress
<1>11. Names'
  <2> SUFFICES ASSUME NEW n \in DOMAIN dir'
               PROVE  /\ dir'[n] \in Calls /\ calls'[dir'[n]].file = dir'[n]
                      /\ n = path(dir'[n]) \/ n = tmp(dir'[n])
    BY DEF Names, Opened, path, tmp
  <2>1. CASE n = tmp(w)
    BY <1>2, <1>3, <1>8, <2>1 DEF Opened
  <2>2. CASE n # tmp(w)
    <3>1. n \in DOMAIN dir /\ dir'[n] = dir[n]
      BY <1>3, <2>2
    <3>2. /\ dir[n] \in Calls /\ Opened(dir[n], dir[n])
          /\ n = path(dir[n]) \/ n = tmp(dir[n])
      BY <3>1 DEF IInv, Names
    <3> QED BY <1>1, <1>5, <3>1, <3>2 DEF Opened
  <2> QED BY <2>1, <2>2
<1>12. OneName'
  BY <1>2, <1>3 DEF IInv, OneName
<1>13. Openers'
  <2> SUFFICES ASSUME NEW v \in Calls, calls'[v].file # NoCall
               PROVE  /\ tmp(calls'[v].file) = tmp(v)
                      /\ calls'[calls'[v].file].file = calls'[v].file
    BY DEF Openers, Opened, tmp
  <2>1. CASE v = w
    BY <1>2, <1>5, <1>8, <2>1 DEF Opened
  <2>2. CASE v # w
    <3>1. /\ calls[v].file \in Calls /\ tmp(calls[v].file) = tmp(v)
          /\ Opened(calls[v].file, calls[v].file)
      BY <1>5, <2>2 DEF IInv, Typed, Call, Openers
    <3> QED BY <1>1, <1>5, <2>2, <3>1 DEF Opened
  <2> QED BY <2>1, <2>2
<1>14. LastOpener'
  <2> SUFFICES ASSUME NEW j \in Calls, Opened(j, j)', ~Whole(j)'
               PROVE  \E v \in Calls :
                        /\ Opened(v, j)'
                        /\ \/ At(v, "write")' /\ (1..(calls[v].block - 1) \subseteq data[j])'
                           \/ CutShort(v)'
    BY DEF LastOpener
  <2>1. CASE j = i
    <3>1. 1..(calls'[w].block - 1) = {}
      BY <1>5
    <3> QED BY <1>5, <2>1, <3>1 DEF Opened, At
  <2>2. CASE j # i
    <3>1. data'[j] = data[j] /\ j # w
      BY <1>4, <1>5, <2>2 DEF Opened
    <3>2. PICK v \in Calls : /\ Opened(v, j)
                             /\ \/ At(v, "write") /\ 1..(calls[v].block - 1) \subseteq data[j]
                                \/ CutShort(v)
      BY <1>7, <3>1 DEF IInv, LastOpener, Whole
    <3>3. v # w
      BY <1>7, <3>2
    <3> QED BY <1>5, <1>7, <3>1, <3>2, <3>3 DEF At
  <2> QED BY <2>1, <2>2
<1>15. Overlaps'
  BY <1>6, <1>7 DEF IInv, Overlaps, tmp
<1>16. Alone'
  <2> SUFFICES ASSUME NEW v \in Calls, Writing(v)', tmp(v) \notin shared'
               PROVE  /\ tmp(v) \in DOMAIN dir' /\ dir'[tmp(v)] = calls'[v].file
                      /\ At(v, "write")' => 1..(calls'[v].block - 1) \subseteq data'[calls'[v].file]
                      /\ At(v, "rename")' => data'[calls'[v].file] = 1..Blocks
    BY DEF Alone, tmp, Whole
  <2>1. CASE v = w
    <3>1. 1..(calls'[w].block - 1) = {}
      BY <1>5
    <3> QED BY <1>3, <1>5, <2>1, <3>1 DEF At
  <2>2. CASE v # w
    <3>1. calls'[v] = calls[v] /\ Writing(v) /\ tmp(v) # tmp(w) /\ tmp(v) \notin shared
      BY <1>5, <1>6, <1>7, <2>2 DEF Writing, Busy
    <3>2. /\ tmp(v) \in DOMAIN dir /\ dir[tmp(v)] = calls[v].file
          /\ At(v, "write") => 1..(calls[v].block - 1) \subseteq data[calls[v].file]
          /\ At(v, "rename") => data[calls[v].file] = 1..Blocks
      BY <3>1 DEF IInv, Alone, Whole
    <3>3. calls[v].file \in Calls \ {i}
      BY <1>2, <3>1 DEF IInv, Progress, Typed, Call, Openers, Writing
    <3> QED BY <1>3, <1>4, <3>1, <3>2, <3>3 DEF At
  <2> QED BY <2>1, <2>2
<1>17. Renamed'
  <2> SUFFICES ASSUME NEW j \in Calls, path(j) \in DOMAIN dir', dir'[path(j)] = j
               PROVE  data'[j] = 1..Blocks \/ tmp(j) \in shared'
    BY DEF Renamed, path, tmp, Whole
  <2>1. path(j) \in DOMAIN dir /\ dir[path(j)] = j /\ j # i
    BY <1>2, <1>3, NamesApart
  <2> QED BY <1>4, <1>6, <2>1 DEF IInv, Renamed, Whole
<1>18. Strays'
  <2> SUFFICES ASSUME NEW j \in Calls, tmp(j) \in DOMAIN dir', dir'[tmp(j)] = j
               PROVE  \E v \in Calls : Opened(v, j)' /\ (Busy(v)' \/ Hurt(v)')
    BY DEF Strays, tmp
  <2>1. CASE j = i
    BY <1>5, <1>7, <2>1 DEF Opened
  <2>2. CASE j # i
    <3>1. tmp(j) \in DOMAIN dir /\ dir[tmp(j)] = j
      BY <1>3, <2>2
    <3>2. PICK v \in Calls : Opened(v, j) /\ (Busy(v) \/ Hurt(v))
      BY <3>1 DEF IInv, Strays
    <3> QED BY <1>7, <3>2
  <2> QED BY <2>1, <2>2
<1>19. OkMeansStored'
  BY <1>3, <1>5 DEF IInv, OkMeansStored, Present, path
<1> QED
  BY <1>9, <1>10, <1>11, <1>12, <1>13, <1>14, <1>15, <1>16, <1>17, <1>18, <1>19 DEF IInv

(***************************************************************************)
(* The theorems.                                                           *)
(***************************************************************************)
(* The invariant holds from the empty store on, whatever call, crash or    *)
(* disk fault comes next.                                                  *)
THEOREM Inductive == Spec => []IInv
<1>1. Init => IInv
  <2> SUFFICES ASSUME Init PROVE IInv
    OBVIOUS
  <2>1. Typed /\ Progress
    BY CallsAssumption DEF Init, IdleCall, Typed, Call, Progress, Stages, Results
  <2>2. DOMAIN dir = {} /\ \A w \in Calls : calls[w] = IdleCall
    BY DEF Init
  <2>3. Names /\ OneName /\ Renamed /\ Strays
    BY <2>2 DEF Names, OneName, Renamed, Strays
  <2>4. \A v, i \in Calls : ~Opened(v, i) /\ ~Writing(v) /\ ~Busy(v) /\ calls[v].result # "ok"
    BY <2>2, CallsAssumption DEF IdleCall, Opened, Writing, Busy
  <2>5. Openers /\ LastOpener /\ Overlaps /\ Alone /\ OkMeansStored
    BY <2>2, <2>4 DEF IdleCall, Openers, LastOpener, Overlaps, Alone, OkMeansStored
  <2> QED BY <2>1, <2>3, <2>5 DEF IInv
<1>2. IInv /\ [Next]_vars => IInv'
  <2> SUFFICES ASSUME IInv, [Next]_vars PROVE IInv'
    OBVIOUS
  <2>1. ASSUME NEW w \in Calls, Put(w) \/ Drop(w) PROVE IInv'
    BY <2>1, OpenTmpInv, WriteBlockInv, RenameInv, RemoveTmpInv, QuietStepsInv DEF Put
  <2>2. ASSUME NEW p, Crash(p) PROVE IInv'
    BY <2>2, CrashInv
  <2>3. CASE UNCHANGED vars
    <3>1. UNCHANGED <<dir, data, calls, faults, shared>>
      BY <2>3 DEF vars
    <3>2. Typed' /\ Progress' /\ OkMeansStored'
      BY <3>1 DEF IInv, Typed, Progress, OkMeansStored, Present, path, tmp
    <3> QED BY <3>1, <3>2, QuietInv DEF At, Busy, CutShort, Hurt
  <2> QED BY <2>1, <2>2, <2>3 DEF Next
<1> QED
  BY <1>1, <1>2, PTL DEF Spec

(* Names are those of objects and temporary files, and the calls, the      *)
(* files and the history keep their types.                                 *)
THEOREM TypeCorrect == Spec => []TypeOK
<1>1. IInv => TypeOK
  BY DEF IInv, Typed, Names, TypeOK
<1> QED
  BY <1>1, Inductive, PTL

(* An id a put has handed out is the id of an object that is there: no     *)
(* step of any call in any process takes an object's name away.            *)
THEOREM StoredForGood == Spec => []OkMeansStored
<1>1. IInv => OkMeansStored
  BY DEF IInv
<1> QED
  BY <1>1, Inductive, PTL

(* A reader finds part of an object only where two calls of one process    *)
(* wrote it at once and the second is not done or was cut short.           *)
THEOREM WholeOrWrittenTwice == Spec => []WholeUnlessShared
<1>1. IInv => WholeUnlessShared
  <2> SUFFICES ASSUME IInv, NEW w \in Calls, Present(w), data[dir[path(w)]] # 1..Blocks
               PROVE  \E v \in Calls : /\ tmp(v) \in shared
                                       /\ calls[v].file = dir[path(w)]
                                       /\ \/ At(v, "write")
                                          \/ calls[v].result = "crashed" \/ "write" \in calls[v].failed
    BY DEF WholeUnlessShared
  <2> DEFINE i == dir[path(w)]
  <2>1. i \in Calls /\ path(i) = path(w) /\ Opened(i, i)
    BY PathInode
  <2>2. tmp(i) \in shared
    BY <2>1 DEF IInv, Renamed, Whole, Present
  <2>3. PICK v \in Calls : Opened(v, i) /\ (At(v, "write") \/ CutShort(v))
    BY <2>1 DEF IInv, LastOpener, Whole
  <2>4. tmp(v) = tmp(i)
    BY <2>1, <2>3, CallsAssumption DEF IInv, Openers, Opened
  <2> QED BY <2>2, <2>3, <2>4 DEF Opened, CutShort
<1> QED
  BY <1>1, Inductive, PTL

(* A temporary file stays behind only of a call that is still to deal with *)
(* it, that crashed or was dropped, or that the disk refused a write or    *)
(* the removal.                                                            *)
THEOREM StraysAreExplained == Spec => []StrayOnlyAfterFailure
<1>1. IInv => StrayOnlyAfterFailure
  <2> SUFFICES ASSUME IInv, NEW w \in Calls, tmp(w) \in DOMAIN dir
               PROVE  \E v \in Calls : Opened(v, dir[tmp(w)]) /\ (Busy(v) \/ Hurt(v))
    BY DEF StrayOnlyAfterFailure, Opened, Hurt
  <2>1. /\ dir[tmp(w)] \in Calls /\ tmp(dir[tmp(w)]) = tmp(w)
    BY TmpInode
  <2> QED BY <2>1 DEF IInv, Strays
<1> QED
  BY <1>1, Inductive, PTL
=============================================================================
