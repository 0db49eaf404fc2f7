---------------------------- MODULE ScriptCache ----------------------------
(***************************************************************************)
(* The bytecode cache (src/cache.rs), the builds that fill it (build in    *)
(* src/aot.rs) and the runs that read it (eval_file_cfg in src/lib.rs).    *)
(*                                                                         *)
(* Processes of one home directory share a single file, the shard.         *)
(* `ruby --build FILE` inlines the files FILE requires, reads them once    *)
(* more for the manifest, and replaces the shard by one with its entry in  *)
(* it: load, change, write to a temporary file, rename, all under an       *)
(* advisory lock it may fail to get.  `ruby FILE` looks its entry up       *)
(* without the lock and compares the manifest with the files it finds.     *)
(* Every system call is a step; a process may die between any two, files   *)
(* are edited and deleted, and the binary itself may be replaced.          *)
(*                                                                         *)
(* A compiled program is the contents it was compiled from, file by file;  *)
(* a content stands for its hash.  Which files an entry point requires is  *)
(* fixed, and they are read in any order.                                  *)
(***************************************************************************)
EXTENDS Naturals

CONSTANTS
  Procs,         \* process slots; one is reused when its process has ended
  NoProc,
  Files,         \* the source files
  Scripts,       \* those that are built and run
  Bundle,        \* Bundle[s]: the files a build of s inlines, s included
  Contents,      \* what a file may hold
  Sources,       \* what the files hold at first
  None,          \* no content
  Absent,        \* the file does not exist
  Unstamped,     \* the stamp of a process whose executable is not found
  MaxBuilds,     \* rebuilds of the binary, and the first build
  MaxEdits,      \* edits and deletions of files
  MaxLaunches,   \* processes started
  EditsWhileBuilding  \* whether a file may change between a build's two
                      \* readings of it

ASSUME CacheAssumption ==
  /\ NoProc \notin Procs
  /\ Scripts \subseteq Files
  /\ Bundle \in [Scripts -> SUBSET Files]
  /\ \A s \in Scripts : s \in Bundle[s]
  /\ None \notin Contents /\ Absent \notin Contents
  /\ Sources \in [Files -> Contents]
  /\ {None, Absent, Unstamped} \cap Nat = {}
  /\ None # Absent /\ Absent # Unstamped /\ None # Unstamped
  /\ MaxBuilds \in Nat \ {0} /\ MaxEdits \in Nat /\ MaxLaunches \in Nat
  /\ EditsWhileBuilding \in BOOLEAN

VARIABLES
  installed,  \* the build of the executable on disk
  follows,    \* whether the path of the executables that were replaced leads
              \* to the present one (macOS) or nowhere (Linux)
  disk,       \* disk[f]: the content of f, or Absent
  edits,      \* changes to disk so far
  shard,      \* scripts.rkyv
  tmp,        \* tmp[p]: scripts.rkyv.tmp.<pid>
  lock,       \* who holds scripts.lock
  bypassed,   \* whether some process went on without the lock
  launches,   \* processes started so far
  pc,         \* where each process is
  mine,       \* mine[p]: the build p is a process of
  target,     \* target[p]: the script p builds or runs
  todo,       \* todo[p]: the files p has still to read
  src,        \* src[p]: the content of the script in p's key
  code,       \* code[p]: the program p compiled, or found
  deps,       \* deps[p]: its manifest
  image,      \* image[p]: the shard p loaded and changed
  found,      \* found[p]: what p saw in the files of the manifest
  \* History, for the properties:
  outlived    \* whether a process went on after its executable was replaced
              \* under a path that follows

files == <<installed, follows, outlived, disk, edits>>
job == <<mine, target, todo, src, code, deps, image, found>>
vars == <<files, shard, tmp, lock, bypassed, launches, pc, job>>

Program == [Files -> Contents \cup {None}]
Nothing == [f \in Files |-> None]

Key == [path : Scripts, src : Contents]
Entry == [key : Key, build : 1..MaxBuilds, code : Program, deps : Program]

Stamps == 1..MaxBuilds \cup {Unstamped}
Shard == [stamp : Stamps \cup {None}, entries : SUBSET Entry]
EmptyShard == [stamp |-> None, entries |-> {}]
Torn == [stamp |-> Absent, entries |-> {}]   \* half of a shard

InBuild == {"bundle", "key", "manifest", "lock", "load", "create", "fill",
            "rename", "unlock"}
InRun == {"source", "probe", "check", "cached"}

TypeOK ==
  /\ installed \in 1..MaxBuilds
  /\ follows \in BOOLEAN
  /\ outlived \in BOOLEAN
  /\ disk \in [Files -> Contents \cup {Absent}]
  /\ edits \in 0..MaxEdits
  /\ shard \in Shard \cup {Torn}
  /\ tmp \in [Procs -> Shard \cup {Torn}]
  /\ lock \in Procs \cup {NoProc}
  /\ bypassed \in BOOLEAN
  /\ launches \in 0..MaxLaunches
  /\ pc \in [Procs -> InBuild \cup InRun \cup {"idle"}]
  /\ mine \in [Procs -> 1..MaxBuilds]
  /\ target \in [Procs -> Scripts \cup {None}]
  /\ todo \in [Procs -> SUBSET Files]
  /\ src \in [Procs -> Contents \cup {None}]
  /\ code \in [Procs -> Program]
  /\ deps \in [Procs -> Program]
  /\ image \in [Procs -> Shard]
  /\ found \in [Procs -> [Files -> Contents \cup {None, Absent}]]

Init ==
  /\ installed = 1
  /\ follows = FALSE
  /\ outlived = FALSE
  /\ disk = Sources
  /\ edits = 0
  /\ shard = EmptyShard
  /\ tmp = [p \in Procs |-> EmptyShard]
  /\ lock = NoProc
  /\ bypassed = FALSE
  /\ launches = 0
  /\ pc = [p \in Procs |-> "idle"]
  /\ mine = [p \in Procs |-> 1]
  /\ target = [p \in Procs |-> None]
  /\ todo = [p \in Procs |-> {}]
  /\ src = [p \in Procs |-> None]
  /\ code = [p \in Procs |-> Nothing]
  /\ deps = [p \in Procs |-> Nothing]
  /\ image = [p \in Procs |-> EmptyShard]
  /\ found = [p \in Procs |-> Nothing]

-----------------------------------------------------------------------------
At(p, from) == pc[p] = from

Goto(p, to) == pc' = [pc EXCEPT ![p] = to]

Step(p, from, to) == At(p, from) /\ Goto(p, to)

\* The process ends, and with it all it knew.
Gone(p) ==
  /\ Goto(p, "idle")
  /\ mine' = [mine EXCEPT ![p] = 1]
  /\ target' = [target EXCEPT ![p] = None]
  /\ todo' = [todo EXCEPT ![p] = {}]
  /\ src' = [src EXCEPT ![p] = None]
  /\ code' = [code EXCEPT ![p] = Nothing]
  /\ deps' = [deps EXCEPT ![p] = Nothing]
  /\ image' = [image EXCEPT ![p] = EmptyShard]
  /\ found' = [found EXCEPT ![p] = Nothing]

\* flock: the system drops the lock of a process that ends.
Unlocked(p) == IF lock = p THEN NoProc ELSE lock

\* build_stamp reads the executable's size and time anew, by its path.
Stamp(p) == IF mine[p] = installed \/ follows THEN installed ELSE Unstamped

KeyOf(p) == [path |-> target[p], src |-> src[p]]

Inlined(p) == {f \in Files : code[p][f] # None}

\* A new process has a number, and so a temporary file, of its own.
Launch(p, s, to) ==
  /\ At(p, "idle")
  /\ launches < MaxLaunches
  /\ launches' = launches + 1
  /\ Goto(p, to)
  /\ mine' = [mine EXCEPT ![p] = installed]
  /\ target' = [target EXCEPT ![p] = s]
  /\ tmp' = [tmp EXCEPT ![p] = EmptyShard]
  /\ UNCHANGED <<files, shard, lock, bypassed, src, code, deps, image,
                 found>>

-----------------------------------------------------------------------------
(* ruby --build: build, bundle and store_bundle.                            *)

StartBuild(p, s) ==
  /\ Launch(p, s, "bundle")
  /\ todo' = [todo EXCEPT ![p] = Bundle[s]]

\* bundle reads and inlines a file; the last one ends it.
BundleRead(p, f) ==
  /\ f \in todo[p]
  /\ disk[f] # Absent
  /\ Step(p, "bundle", IF todo[p] = {f} THEN "key" ELSE "bundle")
  /\ todo' = [todo EXCEPT ![p] = @ \ {f}]
  /\ code' = [code EXCEPT ![p][f] = disk[f]]
  /\ UNCHANGED <<files, shard, tmp, lock, bypassed, launches, mine, target,
                 src, deps, image, found>>

\* A required file that is not there is left to the run.
BundleSkip(p, f) ==
  /\ f \in todo[p] \ {target[p]}
  /\ disk[f] = Absent
  /\ Step(p, "bundle", IF todo[p] = {f} THEN "key" ELSE "bundle")
  /\ todo' = [todo EXCEPT ![p] = @ \ {f}]
  /\ UNCHANGED <<files, shard, tmp, lock, bypassed, launches, mine, target,
                 src, code, deps, image, found>>

\* build reads the script again, for the key.
ReadKey(p) ==
  /\ Step(p, "key", "manifest")
  /\ disk[target[p]] # Absent
  /\ src' = [src EXCEPT ![p] = disk[target[p]]]
  /\ todo' = [todo EXCEPT ![p] = Inlined(p)]
  /\ UNCHANGED <<files, shard, tmp, lock, bypassed, launches, mine, target,
                 code, deps, image, found>>

\* ... and every inlined file, for the manifest.
ReadManifest(p, f) ==
  /\ f \in todo[p]
  /\ disk[f] # Absent
  /\ Step(p, "manifest", IF todo[p] = {f} THEN "lock" ELSE "manifest")
  /\ todo' = [todo EXCEPT ![p] = @ \ {f}]
  /\ deps' = [deps EXCEPT ![p][f] = disk[f]]
  /\ UNCHANGED <<files, shard, tmp, lock, bypassed, launches, mine, target,
                 src, code, image, found>>

\* Mutant: the lock is tried and not waited for.
TryLock(p) ==
  /\ Step(p, "lock", "load")
  /\ lock' = IF lock = NoProc THEN p ELSE lock
  /\ UNCHANGED <<files, shard, tmp, bypassed, launches, job>>

\* ShardLock::acquire.
Lock(p) ==
  /\ lock = NoProc
  /\ Step(p, "lock", "load")
  /\ lock' = p
  /\ UNCHANGED <<files, shard, tmp, bypassed, launches, job>>

\* The lock file cannot be opened or locked: the store goes on without.
LockFails(p) ==
  /\ Step(p, "lock", "load")
  /\ bypassed' = TRUE
  /\ UNCHANGED <<files, shard, tmp, lock, launches, job>>

\* Mutant: a shard is used whatever its stamp.
AnyShard(p) == IF shard = Torn THEN EmptyShard ELSE shard

\* load_shard: what another build wrote, or half a shard, counts as none.
LoadShard(p) == IF shard.stamp = Stamp(p) THEN shard ELSE EmptyShard

\* store_keyed takes the old entry of this key out and adds its own.
Load(p) ==
  LET entry == [key |-> KeyOf(p), build |-> mine[p],
                code |-> code[p], deps |-> deps[p]]
      others == {e \in LoadShard(p).entries : e.key # KeyOf(p)}
  IN  /\ Step(p, "load", "create")
      /\ image' = [image EXCEPT ![p].entries = others \cup {entry}]
      /\ UNCHANGED <<files, shard, tmp, lock, bypassed, launches, mine,
                     target, todo, src, code, deps, found>>

\* Mutant: the shard is written in place.
CreateInPlace(p) ==
  /\ Step(p, "create", "fill")
  /\ image' = [image EXCEPT ![p].stamp = Stamp(p)]
  /\ shard' = Torn
  /\ UNCHANGED <<files, tmp, lock, bypassed, launches, mine, target, todo, src,
                 code, deps, found>>

\* write_shard stamps the shard and opens the temporary file ...
Create(p) ==
  /\ Step(p, "create", "fill")
  /\ image' = [image EXCEPT ![p].stamp = Stamp(p)]
  /\ tmp' = [tmp EXCEPT ![p] = Torn]
  /\ UNCHANGED <<files, shard, lock, bypassed, launches, mine, target, todo,
                 src, code, deps, found>>

\* ... fills it ...
Fill(p) ==
  /\ Step(p, "fill", "rename")
  /\ tmp' = [tmp EXCEPT ![p] = image[p]]
  /\ UNCHANGED <<files, shard, lock, bypassed, launches, job>>

\* ... and renames it.
Rename(p) ==
  /\ Step(p, "rename", "unlock")
  /\ shard' = tmp[p]
  /\ tmp' = [tmp EXCEPT ![p] = EmptyShard]
  /\ UNCHANGED <<files, lock, bypassed, launches, job>>

\* The build is over; dropping ShardLock gives the lock back.
EndBuild(p) ==
  /\ At(p, "unlock")
  /\ Gone(p)
  /\ lock' = Unlocked(p)
  /\ UNCHANGED <<files, shard, tmp, bypassed, launches>>

FileMissing(p) ==
  \/ /\ pc[p] \in {"bundle", "manifest"}
     /\ \E f \in todo[p] : disk[f] = Absent
  \/ /\ At(p, "key")
     /\ disk[target[p]] = Absent

\* A file that is gone ends the build.
BuildFails(p) ==
  /\ FileMissing(p)
  /\ Gone(p)
  /\ UNCHANGED <<files, shard, tmp, lock, bypassed, launches>>

\* So does a write that fails; a temporary file that cannot be renamed is
\* removed.
WriteFails(p) ==
  /\ pc[p] \in {"create", "fill", "rename"}
  /\ Gone(p)
  /\ tmp' = IF At(p, "rename") THEN [tmp EXCEPT ![p] = EmptyShard] ELSE tmp
  /\ lock' = Unlocked(p)
  /\ UNCHANGED <<files, shard, bypassed, launches>>

-----------------------------------------------------------------------------
(* ruby FILE: eval_file_cfg and load_file.                                  *)

StartRun(p, s) ==
  /\ Launch(p, s, "source")
  /\ UNCHANGED todo

ReadSource(p) ==
  /\ Step(p, "source", "probe")
  /\ disk[target[p]] # Absent
  /\ src' = [src EXCEPT ![p] = disk[target[p]]]
  /\ UNCHANGED <<files, shard, tmp, lock, bypassed, launches, mine, target,
                 todo, code, deps, image, found>>

\* load_keyed: the entry of this path and source, if the shard is usable.
Probe(p) ==
  /\ Step(p, "probe", "check")
  /\ \E e \in LoadShard(p).entries :
       /\ e.key = KeyOf(p)
       /\ code' = [code EXCEPT ![p] = e.code]
       /\ deps' = [deps EXCEPT ![p] = e.deps]
       /\ todo' = [todo EXCEPT ![p] = {f \in Files : e.deps[f] # None}]
  /\ UNCHANGED <<files, shard, tmp, lock, bypassed, launches, mine, target,
                 src, image, found>>

\* Mutant: a file that was edited is as good as one that is gone.
CheckAny(p, f) ==
  /\ f \in todo[p]
  /\ Step(p, "check", IF todo[p] = {f} THEN "cached" ELSE "check")
  /\ todo' = [todo EXCEPT ![p] = @ \ {f}]
  /\ found' = [found EXCEPT ![p][f] = disk[f]]
  /\ UNCHANGED <<files, shard, tmp, lock, bypassed, launches, mine, target,
                 src, code, deps, image>>

\* A file of the manifest is as it was, or is gone and trusted.
Check(p, f) ==
  /\ f \in todo[p]
  /\ disk[f] \in {deps[p][f], Absent}
  /\ Step(p, "check", IF todo[p] = {f} THEN "cached" ELSE "check")
  /\ todo' = [todo EXCEPT ![p] = @ \ {f}]
  /\ found' = [found EXCEPT ![p][f] = disk[f]]
  /\ UNCHANGED <<files, shard, tmp, lock, bypassed, launches, mine, target,
                 src, code, deps, image>>

Missed(p) ==
  \/ At(p, "source") /\ disk[target[p]] = Absent
  \/ At(p, "probe") /\ \A e \in LoadShard(p).entries : e.key # KeyOf(p)
  \/ At(p, "check") /\ \E f \in todo[p] : disk[f] \notin {deps[p][f], Absent}

\* The run is over, or goes on without the cache: no script, no entry, an
\* edited file.
EndRun(p) ==
  /\ At(p, "cached") \/ Missed(p)
  /\ Gone(p)
  /\ UNCHANGED <<files, shard, tmp, lock, bypassed, launches>>

-----------------------------------------------------------------------------
(* The world around them.                                                   *)

\* Mutant: the lock outlives its holder.
CrashLocked(p) ==
  /\ ~At(p, "idle")
  /\ Gone(p)
  /\ UNCHANGED <<files, shard, tmp, lock, bypassed, launches>>

\* The process dies; what it has written to its temporary file stays.
Crash(p) ==
  /\ ~At(p, "idle")
  /\ Gone(p)
  /\ lock' = Unlocked(p)
  /\ UNCHANGED <<files, shard, tmp, bypassed, launches>>

\* p has read f once and will read it again.
BetweenReadings(p, f) ==
  /\ pc[p] \in {"bundle", "key", "manifest"}
  /\ code[p][f] # None
  /\ deps[p][f] = None

\* Somebody edits, restores or deletes a file.
Edit(f) ==
  /\ edits < MaxEdits
  /\ EditsWhileBuilding \/ \A p \in Procs : ~BetweenReadings(p, f)
  /\ \E c \in (Contents \cup {Absent}) \ {disk[f]} :
       disk' = [disk EXCEPT ![f] = c]
  /\ edits' = edits + 1
  /\ UNCHANGED <<installed, follows, outlived, shard, tmp, lock, bypassed,
                 launches, pc, job>>

\* The executable is replaced by another build; what its old path leads to makes
\* a difference to the processes that run.
Rebuild ==
  /\ installed < MaxBuilds
  /\ installed' = installed + 1
  /\ follows' \in {FALSE, \E p \in Procs : ~At(p, "idle")}
  /\ outlived' = (outlived \/ follows')
  /\ UNCHANGED <<disk, edits, shard, tmp, lock, bypassed, launches, pc,
                 job>>

-----------------------------------------------------------------------------
BuildStep(p) ==
  \/ \E f \in Files : BundleRead(p, f) \/ BundleSkip(p, f)
  \/ ReadKey(p)
  \/ \E f \in Files : ReadManifest(p, f)
  \/ Lock(p) \/ Load(p) \/ Create(p) \/ Fill(p) \/ Rename(p)
  \/ EndBuild(p) \/ BuildFails(p)

RunStep(p) ==
  \/ ReadSource(p) \/ Probe(p) \/ EndRun(p)
  \/ \E f \in Files : Check(p, f)

Mishap(p) == LockFails(p) \/ WriteFails(p) \/ Crash(p)

Next ==
  \/ \E p \in Procs, s \in Scripts : StartBuild(p, s) \/ StartRun(p, s)
  \/ \E p \in Procs : BuildStep(p) \/ RunStep(p) \/ Mishap(p)
  \/ \E f \in Files : Edit(f)
  \/ Rebuild

Spec == Init /\ [][Next]_vars

\* A build that can go on does; nothing makes a process start or fail, or
\* somebody edit.
FairSpec == Spec /\ \A p \in Procs : WF_vars(BuildStep(p))

-----------------------------------------------------------------------------
(* Properties.                                                              *)

\* A reader never meets half a shard, wherever the writer stopped: write_shard
\* goes through a temporary file and a rename.
ShardIsWhole == shard # Torn

\* Whoever takes a program out of the cache runs what the files say that it
\* found, and what the file said that it was started with; a file that is gone
\* is trusted (the manifest of CProg, load_keyed).
RunsWhatItFound ==
  \A p \in Procs : At(p, "cached") =>
    /\ code[p][target[p]] = src[p]
    /\ \A f \in Files : found[p][f] \in {code[p][f], Absent}

\* The shard only ever vouches for bytecode of the build it is stamped with:
\* no process whose executable is in place runs another's (build_stamp: "a
\* rebuilt binary must not read them back").  Where paths follow, a process
\* that outlives its executable stamps what it compiled as the new build's.
StampIsTrue ==
  shard.stamp \in Nat /\ ~outlived =>
    \A e \in shard.entries : e.build = shard.stamp

\* To the processes of the installed build the shard is a dictionary: a store
\* takes effect at one moment and no other entry is lost, whoever else stores
\* or dies (ShardLock, store_keyed).
Store == INSTANCE ScriptStore WITH
  view <- IF shard.stamp = installed THEN shard.entries ELSE {},
  degraded <- bypassed

ImplementsStore == Store!Spec

\* A build comes to an end, also behind one that died with the lock.
BuildsFinish == \A p \in Procs : pc[p] \in InBuild ~> At(p, "idle")
=============================================================================
