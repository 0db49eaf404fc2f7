------------------------- MODULE ScriptCacheProofs -------------------------
(***************************************************************************)
(* Theorems about ScriptCache, for any number of processes, files and      *)
(* contents, and however often files are edited and the binary is rebuilt. *)
(***************************************************************************)
EXTENDS ScriptCache, TLAPS

-----------------------------------------------------------------------------
(* Types.  A process that is not idle has a script, and one that has read  *)
(* its key has a content for it.                                           *)

Keyed == {"manifest", "lock", "load", "create", "fill", "rename", "unlock",
          "probe", "check", "cached"}

Placed ==
  \A p \in Procs :
    /\ pc[p] # "idle" => target[p] \in Scripts
    /\ pc[p] \in Keyed => src[p] \in Contents

Typed == TypeOK /\ Placed

LEMMA EmptyTypes ==
  /\ EmptyShard \in Shard
  /\ Nothing \in Program
  /\ Nothing \in [Files -> Contents \cup {None, Absent}]
<1>1. EmptyShard \in Shard
  BY DEF EmptyShard, Shard
<1>2. Nothing \in Program
  BY DEF Nothing, Program
<1>3. Nothing \in [Files -> Contents \cup {None, Absent}]
  BY DEF Nothing
<1> QED
  BY <1>1, <1>2, <1>3

LEMMA TypedInit == Init => Typed
<1> USE CacheAssumption
<1>1. ASSUME Init PROVE TypeOK
  <2>1. shard \in Shard \cup {Torn} /\ tmp \in [Procs -> Shard \cup {Torn}]
    BY <1>1, EmptyTypes DEF Init
  <2>2. /\ pc \in [Procs -> InBuild \cup InRun \cup {"idle"}]
        /\ mine \in [Procs -> 1..MaxBuilds]
        /\ target \in [Procs -> Scripts \cup {None}]
        /\ todo \in [Procs -> SUBSET Files]
        /\ src \in [Procs -> Contents \cup {None}]
    BY <1>1 DEF Init
  <2>3. code \in [Procs -> Program] /\ deps \in [Procs -> Program]
    BY <1>1, EmptyTypes DEF Init
  <2>4. /\ image \in [Procs -> Shard]
        /\ found \in [Procs -> [Files -> Contents \cup {None, Absent}]]
    BY <1>1, EmptyTypes DEF Init
  <2>5. /\ installed \in 1..MaxBuilds
        /\ disk \in [Files -> Contents \cup {Absent}]
        /\ edits \in 0..MaxEdits
        /\ lock \in Procs \cup {NoProc}
        /\ launches \in 0..MaxLaunches
    BY <1>1 DEF Init
  <2>6. bypassed \in BOOLEAN /\ follows \in BOOLEAN /\ outlived \in BOOLEAN
    BY <1>1 DEF Init
  <2> QED
    BY <2>1, <2>2, <2>3, <2>4, <2>5, <2>6 DEF TypeOK
<1>2. Init => Placed
  BY DEF Init, Placed, Keyed
<1> QED
  BY <1>1, <1>2 DEF Typed

LEMMA StampIsStamp ==
  ASSUME TypeOK, NEW p \in Procs
  PROVE  Stamp(p) \in Stamps
BY DEF TypeOK, Stamp, Stamps

LEMMA LoadIsShard ==
  ASSUME TypeOK, NEW p \in Procs
  PROVE  LoadShard(p) \in Shard
<1>1. EmptyShard \in Shard
  BY EmptyTypes
<1>2. shard = Torn => shard.stamp # Stamp(p)
  <2>1. Torn.stamp = Absent
    BY DEF Torn
  <2> QED
    BY <2>1, StampIsStamp, CacheAssumption DEF Stamps
<1> QED
  BY <1>1, <1>2 DEF TypeOK, LoadShard

\* A process that ends, or dies, leaves nothing of a wrong type behind.
LEMMA GoneTyped ==
  ASSUME Typed, NEW p \in Procs, Gone(p),
         UNCHANGED <<files, shard, bypassed, launches>>,
         tmp' \in [Procs -> Shard \cup {Torn}],
         lock' \in Procs \cup {NoProc}
  PROVE  Typed'
<1> USE CacheAssumption DEF Typed, Gone, Goto, files
<1>1. TypeOK'
  <2>1. /\ pc' \in [Procs -> InBuild \cup InRun \cup {"idle"}]
        /\ mine' \in [Procs -> 1..MaxBuilds]
        /\ target' \in [Procs -> Scripts \cup {None}]
        /\ todo' \in [Procs -> SUBSET Files]
        /\ src' \in [Procs -> Contents \cup {None}]
    BY DEF TypeOK
  <2>2. code' \in [Procs -> Program] /\ deps' \in [Procs -> Program]
    BY EmptyTypes DEF TypeOK
  <2>3. /\ image' \in [Procs -> Shard]
        /\ found' \in [Procs -> [Files -> Contents \cup {None, Absent}]]
    BY EmptyTypes DEF TypeOK
  <2> QED
    BY <2>1, <2>2, <2>3 DEF TypeOK
<1>2. Placed'
  BY DEF TypeOK, Placed, Keyed
<1> QED
  BY <1>1, <1>2

LEMMA LaunchTyped ==
  ASSUME Typed, NEW p \in Procs, NEW s \in Scripts,
         NEW to \in {"bundle", "source"}, Launch(p, s, to),
         todo' \in [Procs -> SUBSET Files]
  PROVE  Typed'
<1> USE CacheAssumption DEF Typed, Launch, At, Goto, files
<1>1. launches' \in 0..MaxLaunches
  BY DEF TypeOK
<1>2. pc' \in [Procs -> InBuild \cup InRun \cup {"idle"}]
  BY DEF TypeOK, InBuild, InRun
<1>3. /\ mine' \in [Procs -> 1..MaxBuilds]
      /\ target' \in [Procs -> Scripts \cup {None}]
  BY DEF TypeOK
<1>4. tmp' \in [Procs -> Shard \cup {Torn}]
  BY EmptyTypes DEF TypeOK
<1>5. TypeOK'
  BY <1>1, <1>2, <1>3, <1>4 DEF TypeOK
<1>6. Placed'
  BY DEF TypeOK, Placed, Keyed
<1> QED
  BY <1>5, <1>6

LEMMA TypedStep ==
  ASSUME Typed, [Next]_vars
  PROVE  Typed'
<1> USE CacheAssumption
<1> USE DEF files, job, Step, At, Goto
<1>t. TypeOK /\ Placed
  BY DEF Typed
<1>1. CASE UNCHANGED vars
  BY <1>1 DEF vars, Typed, TypeOK, Placed
<1>2. ASSUME NEW p \in Procs, NEW s \in Scripts, StartBuild(p, s) \/ StartRun(p, s)
      PROVE  Typed'
  <2>1. Bundle[s] \in SUBSET Files
    OBVIOUS
  <2>2. CASE StartBuild(p, s)
    BY <1>t, <2>1, <2>2, LaunchTyped DEF StartBuild, Typed, TypeOK
  <2>3. CASE StartRun(p, s)
    BY <1>t, <2>3, LaunchTyped DEF StartRun, Typed, TypeOK
  <2> QED
    BY <1>2, <2>2, <2>3
<1>3. ASSUME NEW p \in Procs, BuildStep(p)
      PROVE  Typed'
  <2>1. ASSUME NEW f \in Files, BundleRead(p, f) PROVE Typed'
    <3>1. code' \in [Procs -> Program]
      BY <1>t, <2>1 DEF BundleRead, TypeOK, Program
    <3>2. TypeOK'
      BY <1>t, <2>1, <3>1 DEF BundleRead, TypeOK, InBuild, InRun
    <3>3. Placed'
      BY <1>t, <2>1 DEF BundleRead, TypeOK, Placed, Keyed
    <3> QED
      BY <3>2, <3>3 DEF Typed
  <2>2. ASSUME NEW f \in Files, BundleSkip(p, f) PROVE Typed'
    <3>1. TypeOK'
      BY <1>t, <2>2 DEF BundleSkip, TypeOK, InBuild, InRun
    <3>2. Placed'
      BY <1>t, <2>2 DEF BundleSkip, TypeOK, Placed, Keyed
    <3> QED
      BY <3>1, <3>2 DEF Typed
  <2>3. CASE ReadKey(p)
    <3>1. TypeOK'
      BY <1>t, <2>3 DEF ReadKey, TypeOK, Placed, Inlined, InBuild, InRun
    <3>2. Placed'
      BY <1>t, <2>3 DEF ReadKey, TypeOK, Placed, Keyed
    <3> QED
      BY <3>1, <3>2 DEF Typed
  <2>4. ASSUME NEW f \in Files, ReadManifest(p, f) PROVE Typed'
    <3>1. deps' \in [Procs -> Program]
      BY <1>t, <2>4 DEF ReadManifest, TypeOK, Program
    <3>2. TypeOK'
      BY <1>t, <2>4, <3>1 DEF ReadManifest, TypeOK, InBuild, InRun
    <3>3. Placed'
      BY <1>t, <2>4 DEF ReadManifest, TypeOK, Placed, Keyed
    <3> QED
      BY <3>2, <3>3 DEF Typed
  <2>5. CASE Lock(p)
    <3>1. TypeOK'
      BY <1>t, <2>5 DEF Lock, TypeOK, InBuild, InRun
    <3>2. Placed'
      BY <1>t, <2>5 DEF Lock, TypeOK, Placed, Keyed
    <3> QED
      BY <3>1, <3>2 DEF Typed
  <2>6. CASE Load(p)
    <3> DEFINE entry == [key |-> KeyOf(p), build |-> mine[p],
                         code |-> code[p], deps |-> deps[p]]
               others == {e \in LoadShard(p).entries : e.key # KeyOf(p)}
    <3>1. entry \in Entry
      BY <1>t, <2>6 DEF Load, TypeOK, Placed, Keyed, KeyOf, Key, Entry
    <3>2. others \subseteq Entry
      BY <1>t, LoadIsShard DEF Shard
    <3>3. image' = [image EXCEPT ![p].entries = others \cup {entry}]
      BY <2>6 DEF Load
    <3> HIDE DEF entry, others
    <3>i. image \in [Procs -> Shard]
      BY <1>t DEF TypeOK
    <3>4. image' \in [Procs -> Shard]
      BY <3>i, <3>1, <3>2, <3>3 DEF Shard
    <3>5. TypeOK'
      BY <1>t, <2>6, <3>4 DEF Load, TypeOK, InBuild, InRun
    <3>6. Placed'
      BY <1>t, <2>6 DEF Load, TypeOK, Placed, Keyed
    <3> QED
      BY <3>5, <3>6 DEF Typed
  <2>7. CASE Create(p)
    <3>i. image \in [Procs -> Shard] /\ Stamp(p) \in Stamps
      BY <1>t, StampIsStamp DEF TypeOK
    <3>1. image' \in [Procs -> Shard]
      BY <2>7, <3>i DEF Create, Shard
    <3>2. TypeOK'
      BY <1>t, <2>7, <3>1 DEF Create, TypeOK, InBuild, InRun
    <3>3. Placed'
      BY <1>t, <2>7 DEF Create, TypeOK, Placed, Keyed
    <3> QED
      BY <3>2, <3>3 DEF Typed
  <2>8. CASE Fill(p)
    <3>1. TypeOK'
      BY <1>t, <2>8 DEF Fill, TypeOK, InBuild, InRun
    <3>2. Placed'
      BY <1>t, <2>8 DEF Fill, TypeOK, Placed, Keyed
    <3> QED
      BY <3>1, <3>2 DEF Typed
  <2>9. CASE Rename(p)
    <3>1. TypeOK'
      BY <1>t, <2>9, EmptyTypes DEF Rename, TypeOK, InBuild, InRun
    <3>2. Placed'
      BY <1>t, <2>9 DEF Rename, TypeOK, Placed, Keyed
    <3> QED
      BY <3>1, <3>2 DEF Typed
  <2>10. CASE EndBuild(p)
    BY <1>t, <2>10, GoneTyped DEF EndBuild, Unlocked, TypeOK, Typed
  <2>11. CASE BuildFails(p)
    BY <1>t, <2>11, GoneTyped DEF BuildFails, TypeOK, Typed
  <2> QED
    BY <1>3, <2>1, <2>2, <2>3, <2>4, <2>5, <2>6, <2>7, <2>8, <2>9, <2>10, <2>11
    DEF BuildStep
<1>4. ASSUME NEW p \in Procs, RunStep(p)
      PROVE  Typed'
  <2>1. CASE ReadSource(p)
    <3>1. TypeOK'
      BY <1>t, <2>1 DEF ReadSource, TypeOK, Placed, InBuild, InRun
    <3>2. Placed'
      BY <1>t, <2>1 DEF ReadSource, TypeOK, Placed, Keyed
    <3> QED
      BY <3>1, <3>2 DEF Typed
  <2>2. CASE Probe(p)
    <3>1. PICK e \in LoadShard(p).entries :
            /\ code' = [code EXCEPT ![p] = e.code]
            /\ deps' = [deps EXCEPT ![p] = e.deps]
            /\ todo' = [todo EXCEPT ![p] = {f \in Files : e.deps[f] # None}]
      BY <2>2 DEF Probe
    <3>2. e \in Entry
      BY <1>t, LoadIsShard DEF Shard
    <3>3. e.code \in Program /\ e.deps \in Program
      BY <3>2 DEF Entry
    <3>4. TypeOK'
      BY <1>t, <2>2, <3>1, <3>3 DEF Probe, TypeOK, InBuild, InRun
    <3>5. Placed'
      BY <1>t, <2>2 DEF Probe, TypeOK, Placed, Keyed
    <3> QED
      BY <3>4, <3>5 DEF Typed
  <2>3. CASE EndRun(p)
    BY <1>t, <2>3, GoneTyped DEF EndRun, TypeOK, Typed
  <2>4. ASSUME NEW f \in Files, Check(p, f) PROVE Typed'
    <3>1. found' \in [Procs -> [Files -> Contents \cup {None, Absent}]]
      BY <1>t, <2>4 DEF Check, TypeOK
    <3>2. TypeOK'
      BY <1>t, <2>4, <3>1 DEF Check, TypeOK, InBuild, InRun
    <3>3. Placed'
      BY <1>t, <2>4 DEF Check, TypeOK, Placed, Keyed
    <3> QED
      BY <3>2, <3>3 DEF Typed
  <2> QED
    BY <1>4, <2>1, <2>2, <2>3, <2>4 DEF RunStep
<1>5. ASSUME NEW p \in Procs, Mishap(p)
      PROVE  Typed'
  <2>1. CASE LockFails(p)
    <3>1. TypeOK'
      BY <1>t, <2>1 DEF LockFails, TypeOK, InBuild, InRun
    <3>2. Placed'
      BY <1>t, <2>1 DEF LockFails, TypeOK, Placed, Keyed
    <3> QED
      BY <3>1, <3>2 DEF Typed
  <2>2. CASE WriteFails(p)
    BY <1>t, <2>2, EmptyTypes, GoneTyped DEF WriteFails, Unlocked, TypeOK, Typed
  <2>3. CASE Crash(p)
    BY <1>t, <2>3, GoneTyped DEF Crash, Unlocked, TypeOK, Typed
  <2> QED
    BY <1>5, <2>1, <2>2, <2>3 DEF Mishap
<1>6. ASSUME NEW f \in Files, Edit(f)
      PROVE  Typed'
  <2>1. TypeOK'
    BY <1>t, <1>6 DEF Edit, TypeOK
  <2>2. Placed'
    BY <1>t, <1>6 DEF Edit, Placed
  <2> QED
    BY <2>1, <2>2 DEF Typed
<1>7. CASE Rebuild
  <2>1. follows' \in BOOLEAN /\ outlived' \in BOOLEAN
    BY <1>7, Zenon DEF Rebuild
  <2>2. TypeOK'
    BY <1>t, <1>7, <2>1 DEF Rebuild, TypeOK
  <2>3. Placed'
    BY <1>t, <1>7 DEF Rebuild, Placed
  <2> QED
    BY <2>2, <2>3 DEF Typed
<1> QED
  BY <1>1, <1>2, <1>3, <1>4, <1>5, <1>6, <1>7 DEF Next

\* Every state of every behaviour is of the declared type.
THEOREM TypeCorrect == Spec => []TypeOK
<1>1. Typed => TypeOK
  BY DEF Typed
<1> QED
  BY <1>1, TypedInit, TypedStep, PTL DEF Spec

-----------------------------------------------------------------------------
(* A process changes its own variables and no other's.                     *)

Moves(p) ==
  \/ \E s \in Scripts : StartBuild(p, s) \/ StartRun(p, s)
  \/ BuildStep(p) \/ RunStep(p) \/ Mishap(p)

Untouched(q) ==
  /\ pc'[q] = pc[q] /\ mine'[q] = mine[q] /\ target'[q] = target[q]
  /\ todo'[q] = todo[q] /\ src'[q] = src[q] /\ code'[q] = code[q]
  /\ deps'[q] = deps[q] /\ image'[q] = image[q] /\ found'[q] = found[q]
  /\ tmp'[q] = tmp[q]

LEMMA OthersUntouched ==
  ASSUME TypeOK, NEW p \in Procs, Moves(p), NEW q \in Procs \ {p}
  PROVE  Untouched(q)
<1> USE DEF TypeOK, Untouched, files, job, Step, At, Goto, Gone
<1>1. ASSUME NEW s \in Scripts, StartBuild(p, s) \/ StartRun(p, s)
      PROVE  Untouched(q)
  BY <1>1 DEF StartBuild, StartRun, Launch
<1>2. CASE BuildStep(p)
  <2>1. ASSUME NEW f \in Files, BundleRead(p, f) \/ BundleSkip(p, f)
        PROVE  Untouched(q)
    BY <2>1 DEF BundleRead, BundleSkip
  <2>2. CASE ReadKey(p)
    BY <2>2 DEF ReadKey
  <2>3. ASSUME NEW f \in Files, ReadManifest(p, f)
        PROVE  Untouched(q)
    BY <2>3 DEF ReadManifest
  <2>4. CASE Lock(p) \/ Load(p)
    BY <2>4 DEF Lock, Load
  <2>5. CASE Create(p) \/ Fill(p) \/ Rename(p)
    BY <2>5 DEF Create, Fill, Rename
  <2>6. CASE EndBuild(p) \/ BuildFails(p)
    BY <2>6 DEF EndBuild, BuildFails
  <2> QED
    BY <1>2, <2>1, <2>2, <2>3, <2>4, <2>5, <2>6 DEF BuildStep
<1>3. CASE RunStep(p)
  <2>1. CASE ReadSource(p) \/ EndRun(p)
    BY <2>1 DEF ReadSource, EndRun
  <2>2. CASE Probe(p)
    BY <2>2 DEF Probe
  <2>3. ASSUME NEW f \in Files, Check(p, f)
        PROVE  Untouched(q)
    BY <2>3 DEF Check
  <2> QED
    BY <1>3, <2>1, <2>2, <2>3 DEF RunStep
<1>4. CASE Mishap(p)
  BY <1>4 DEF Mishap, LockFails, WriteFails, Crash
<1> QED
  BY <1>1, <1>2, <1>3, <1>4 DEF Moves

\* The files and the binary do not change, nor the shard but by a rename.
LEMMA WorldUntouched ==
  ASSUME NEW p \in Procs, Moves(p)
  PROVE  /\ UNCHANGED files
         /\ Rename(p) \/ UNCHANGED shard
<1> USE DEF files, Step
<1>1. ASSUME NEW s \in Scripts, StartBuild(p, s) \/ StartRun(p, s)
      PROVE  UNCHANGED files /\ UNCHANGED shard
  BY <1>1 DEF StartBuild, StartRun, Launch
<1>2. ASSUME NEW f \in Files,
             BundleRead(p, f) \/ BundleSkip(p, f) \/ ReadManifest(p, f) \/ Check(p, f)
      PROVE  UNCHANGED files /\ UNCHANGED shard
  BY <1>2 DEF BundleRead, BundleSkip, ReadManifest, Check
<1>3. CASE ReadKey(p) \/ Lock(p) \/ Load(p) \/ Create(p) \/ Fill(p)
  BY <1>3 DEF ReadKey, Lock, Load, Create, Fill
<1>4. CASE EndBuild(p) \/ BuildFails(p) \/ EndRun(p) \/ WriteFails(p) \/ Crash(p)
  BY <1>4 DEF EndBuild, BuildFails, EndRun, WriteFails, Crash
<1>5. CASE ReadSource(p) \/ Probe(p) \/ LockFails(p)
  BY <1>5 DEF ReadSource, Probe, LockFails
<1>6. CASE Rename(p)
  BY <1>6 DEF Rename
<1> QED
  BY <1>1, <1>2, <1>3, <1>4, <1>5, <1>6 DEF Moves, BuildStep, RunStep, Mishap

LEMMA NextIs ==
  ASSUME [Next]_vars
  PROVE  \/ UNCHANGED vars
         \/ \E p \in Procs : Moves(p)
         \/ \E f \in Files : Edit(f)
         \/ Rebuild
BY DEF Next, Moves

-----------------------------------------------------------------------------
(* The stamp.  What a process of the installed build has loaded is of its  *)
(* own build.  One whose executable was replaced has no stamp to give, or  *)
(* has outlived it.                                                        *)

Honest(sh) ==
  sh.stamp \in Nat =>
    /\ sh.stamp <= installed
    /\ ~outlived => \A e \in sh.entries : e.build = sh.stamp

HonestProcess(p) ==
  /\ mine[p] <= installed
  /\ follows /\ ~outlived /\ pc[p] # "idle" => mine[p] = installed
  /\ ~outlived /\ pc[p] = "create" /\ mine[p] = installed
     => \A e \in image[p].entries : e.build = installed
  /\ pc[p] \in {"fill", "rename"}
     => Honest(image[p]) /\ (image[p].stamp = installed \/ installed > 1)
  /\ pc[p] = "rename" => tmp[p] = image[p]

StampInv ==
  /\ shard \in Shard
  /\ Honest(shard)
  /\ \A p \in Procs : HonestProcess(p)

LEMMA StampInit == Init => StampInv
<1> SUFFICES ASSUME Init PROVE StampInv
  OBVIOUS
<1> USE CacheAssumption DEF Init
<1>1. shard \in Shard
  BY EmptyTypes
<1>2. Honest(shard)
  BY DEF Honest, EmptyShard
<1>3. ASSUME NEW p \in Procs PROVE HonestProcess(p)
  BY <1>3 DEF HonestProcess
<1> QED
  BY <1>1, <1>2, <1>3 DEF StampInv

\* What the process that moves keeps of the invariant.
LEMMA MoverHonest ==
  ASSUME Typed, StampInv, NEW p \in Procs, Moves(p)
  PROVE  HonestProcess(p)'
<1> USE CacheAssumption
<1> USE DEF files, job, Step, At, Goto, Gone
<1>w. UNCHANGED files
  BY WorldUntouched
<1>t. TypeOK
  BY DEF Typed
<1>h. HonestProcess(p) /\ Honest(shard)
  BY DEF StampInv
<1>n. installed \in Nat /\ mine[p] \in Nat /\ 1 <= installed
  BY <1>t DEF TypeOK
<1>1. ASSUME NEW s \in Scripts, StartBuild(p, s) \/ StartRun(p, s)
      PROVE  HonestProcess(p)'
  BY <1>t, <1>n, <1>1 DEF StartBuild, StartRun, Launch, TypeOK, HonestProcess
<1>2. ASSUME Goto(p, "idle"), mine' = [mine EXCEPT ![p] = 1]
      PROVE  HonestProcess(p)'
  BY <1>t, <1>w, <1>n, <1>2 DEF TypeOK, HonestProcess
<1>3. ASSUME UNCHANGED mine, pc[p] # "idle",
             pc'[p] \in {"bundle", "key", "manifest", "lock", "load",
                        "probe", "check", "cached"}
      PROVE  HonestProcess(p)'
  BY <1>t, <1>w, <1>h, <1>3 DEF TypeOK, HonestProcess
<1>4. ASSUME NEW f \in Files,
             BundleRead(p, f) \/ BundleSkip(p, f) \/ ReadManifest(p, f) \/ Check(p, f)
      PROVE  HonestProcess(p)'
  BY <1>t, <1>3, <1>4 DEF BundleRead, BundleSkip, ReadManifest, Check, TypeOK
<1>5. CASE ReadKey(p) \/ Lock(p) \/ ReadSource(p) \/ Probe(p) \/ LockFails(p)
  BY <1>t, <1>3, <1>5 DEF ReadKey, Lock, ReadSource, Probe, LockFails, TypeOK
<1>6. CASE EndBuild(p) \/ BuildFails(p) \/ EndRun(p) \/ WriteFails(p) \/ Crash(p)
  BY <1>2, <1>6 DEF EndBuild, BuildFails, EndRun, WriteFails, Crash
<1>7. CASE Load(p)
  <2> DEFINE entry == [key |-> KeyOf(p), build |-> mine[p],
                       code |-> code[p], deps |-> deps[p]]
             others == {e \in LoadShard(p).entries : e.key # KeyOf(p)}
  <2>1. image' = [image EXCEPT ![p].entries = others \cup {entry}]
    BY <1>7 DEF Load
  <2>2. mine[p] = installed /\ ~outlived => \A e \in others : e.build = installed
    BY <1>n, <1>h DEF LoadShard, Stamp, Honest, EmptyShard
  <2>3. entry.build = mine[p]
    OBVIOUS
  <2> HIDE DEF entry, others
  <2>4. image'[p].entries = others \cup {entry}
    BY <1>t, <2>1 DEF TypeOK, Shard
  <2>5. pc[p] = "load" /\ pc'[p] = "create" /\ mine'[p] = mine[p]
    BY <1>t, <1>7 DEF Load, TypeOK
  <2> QED
    BY <1>h, <1>w, <2>2, <2>3, <2>4, <2>5 DEF HonestProcess
<1>8. CASE Create(p)
  <2>1. image'[p].stamp = Stamp(p) /\ image'[p].entries = image[p].entries
    BY <1>t, <1>8 DEF Create, TypeOK, Shard
  <2>2. pc[p] = "create" /\ pc'[p] = "fill" /\ mine'[p] = mine[p]
    BY <1>t, <1>8 DEF Create, TypeOK
  <2>3. CASE mine[p] = installed
    <3>1. Stamp(p) = installed
      BY <2>3 DEF Stamp
    <3>2. Honest(image[p])'
      BY <1>h, <1>n, <1>w, <2>1, <2>2, <2>3, <3>1 DEF Honest, HonestProcess
    <3> QED
      BY <1>h, <1>w, <2>1, <2>2, <3>1, <3>2 DEF HonestProcess
  <2>4. CASE mine[p] # installed
    <3>1. Stamp(p) \notin Nat \/ (Stamp(p) = installed /\ outlived)
      BY <1>t, <1>h, <2>2, <2>4 DEF Stamp, HonestProcess, TypeOK
    <3>2. installed > 1
      BY <1>t, <1>h, <1>n, <2>4 DEF HonestProcess, TypeOK
    <3>3. Honest(image[p])'
      BY <1>n, <1>w, <2>1, <3>1 DEF Honest
    <3> QED
      BY <1>h, <1>w, <2>2, <3>2, <3>3 DEF HonestProcess
  <2> QED
    BY <2>3, <2>4
<1>9. CASE Fill(p)
  <2>1. /\ pc[p] = "fill" /\ pc'[p] = "rename" /\ mine'[p] = mine[p]
        /\ image'[p] = image[p] /\ tmp'[p] = image[p]
    BY <1>t, <1>9 DEF Fill, TypeOK
  <2> QED
    BY <1>h, <1>w, <2>1 DEF HonestProcess, Honest
<1>10. CASE Rename(p)
  <2>1. pc[p] = "rename" /\ pc'[p] = "unlock" /\ mine'[p] = mine[p]
    BY <1>t, <1>10 DEF Rename, TypeOK
  <2> QED
    BY <1>h, <1>w, <2>1 DEF HonestProcess
<1> QED
  BY <1>1, <1>4, <1>5, <1>6, <1>7, <1>8, <1>9, <1>10
  DEF Moves, BuildStep, RunStep, Mishap

LEMMA StampStep ==
  ASSUME Typed, StampInv, [Next]_vars
  PROVE  StampInv'
<1> USE CacheAssumption
<1>t. TypeOK
  BY DEF Typed
<1>1. CASE UNCHANGED vars
  BY <1>1 DEF vars, files, job, StampInv, Honest, HonestProcess
<1>2. ASSUME NEW p \in Procs, Moves(p) PROVE StampInv'
  <2>w. UNCHANGED files
    BY <1>2, WorldUntouched
  <2>1. shard' \in Shard /\ Honest(shard)'
    <3>1. CASE UNCHANGED shard
      BY <2>w, <3>1 DEF StampInv, Honest, files
    <3>2. CASE Rename(p)
      <4>1. shard' = image[p] /\ pc[p] = "rename"
        BY <3>2 DEF Rename, Step, At, StampInv, HonestProcess
      <4>2. image[p] \in Shard
        BY <1>t DEF TypeOK
      <4> QED
        BY <2>w, <4>1, <4>2 DEF StampInv, HonestProcess, Honest, files
    <3> QED
      BY <1>2, <3>1, <3>2, WorldUntouched
  <2>2. ASSUME NEW q \in Procs \ {p} PROVE HonestProcess(q)'
    <3>1. Untouched(q)
      BY <1>t, <1>2, OthersUntouched
    <3> QED
      BY <2>w, <3>1 DEF StampInv, HonestProcess, Honest, Untouched, files
  <2>3. HonestProcess(p)'
    BY <1>2, MoverHonest
  <2> QED
    BY <2>1, <2>2, <2>3 DEF StampInv
<1>3. ASSUME NEW f \in Files, Edit(f) PROVE StampInv'
  BY <1>3 DEF Edit, job, StampInv, Honest, HonestProcess
<1>4. CASE Rebuild
  <2>1. installed \in Nat /\ 1 <= installed /\ installed' = installed + 1
    BY <1>t, <1>4 DEF Rebuild, TypeOK
  <2>2. /\ UNCHANGED <<shard, tmp, pc, mine, image>>
        /\ outlived => outlived'
        /\ \A p \in Procs : follows' /\ ~outlived' => pc[p] = "idle"
    BY <1>4 DEF Rebuild, job, At
  <2>3. Honest(shard)' /\ shard' \in Shard
    BY <2>1, <2>2 DEF StampInv, Honest
  <2>4. ASSUME NEW p \in Procs PROVE HonestProcess(p)'
    <3>1. mine[p] \in Nat /\ mine[p] <= installed
      BY <1>t DEF TypeOK, StampInv, HonestProcess
    <3>2. pc[p] \in {"fill", "rename"} => Honest(image[p])'
      BY <2>1, <2>2 DEF StampInv, HonestProcess, Honest
    <3> QED
      BY <2>1, <2>2, <3>1, <3>2 DEF StampInv, HonestProcess
  <2> QED
    BY <2>3, <2>4 DEF StampInv
<1> QED
  BY <1>1, <1>2, <1>3, <1>4, NextIs

\* No reader ever meets half a shard.
THEOREM NeverTorn == Spec => []ShardIsWhole
<1>1. Typed /\ StampInv => ShardIsWhole
  <2> SUFFICES ASSUME StampInv PROVE shard # Torn
    BY DEF ShardIsWhole
  <2>1. shard.stamp \in Stamps \cup {None}
    BY DEF StampInv, Shard
  <2>2. Torn.stamp = Absent
    BY DEF Torn
  <2> QED
    BY <2>1, <2>2, CacheAssumption DEF Stamps
<1> QED
  BY <1>1, TypedInit, TypedStep, StampInit, StampStep, PTL DEF Spec

\* A stamped shard holds bytecode of the build it names only.
THEOREM NoForeignBytecode == Spec => []StampIsTrue
<1>1. StampInv => StampIsTrue
  BY DEF StampInv, Honest, StampIsTrue
<1> QED
  BY <1>1, TypedInit, TypedStep, StampInit, StampStep, PTL DEF Spec

-----------------------------------------------------------------------------
(* The refinement.  As long as nobody goes on without the lock, at most one *)
(* process is between the lock and the unlock, so that what it loaded is    *)
(* still in the shard when it renames.                                      *)

Critical == {"load", "create", "fill", "rename", "unlock"}

View == IF shard.stamp = installed THEN shard.entries ELSE {}

\* The image of p is the shard with one entry added or replaced.
Adds(p) ==
  \E e \in image[p].entries :
    /\ e.build = installed
    /\ image[p].entries = {x \in View : x.key # e.key} \cup {e}

Serial(p) ==
  /\ pc[p] \in Critical => lock = p
  /\ pc[p] = "create" /\ mine[p] = installed => Adds(p)
  /\ pc[p] \in {"fill", "rename"} /\ image[p].stamp = installed => Adds(p)

SerialInv == ~bypassed /\ ~outlived => \A p \in Procs : Serial(p)

LEMMA SerialInit == Init => SerialInv
BY DEF Init, SerialInv, Serial, Critical

\* The lock goes only to the process that takes it, and from the one that
\* gives it back.
LEMMA LockMoves ==
  ASSUME TypeOK, NEW p \in Procs, Moves(p)
  PROVE  /\ \/ UNCHANGED lock
            \/ lock = NoProc /\ lock' = p
            \/ lock = p /\ lock' = NoProc
         /\ bypassed => bypassed'
<1> USE DEF job, Unlocked
<1>1. ASSUME NEW s \in Scripts, StartBuild(p, s) \/ StartRun(p, s)
      PROVE  UNCHANGED <<lock, bypassed>>
  BY <1>1 DEF StartBuild, StartRun, Launch
<1>2. ASSUME NEW f \in Files,
             BundleRead(p, f) \/ BundleSkip(p, f) \/ ReadManifest(p, f) \/ Check(p, f)
      PROVE  UNCHANGED <<lock, bypassed>>
  BY <1>2 DEF BundleRead, BundleSkip, ReadManifest, Check
<1>3. CASE ReadKey(p) \/ Load(p) \/ Create(p) \/ Fill(p) \/ Rename(p)
  BY <1>3 DEF ReadKey, Load, Create, Fill, Rename
<1>4. CASE BuildFails(p) \/ EndRun(p) \/ ReadSource(p) \/ Probe(p)
  BY <1>4 DEF BuildFails, EndRun, ReadSource, Probe
<1>5. CASE EndBuild(p) \/ WriteFails(p) \/ Crash(p)
  BY <1>5 DEF EndBuild, WriteFails, Crash
<1>6. CASE Lock(p)
  BY <1>6 DEF Lock
<1>7. CASE LockFails(p)
  BY <1>7 DEF LockFails
<1> QED
  BY <1>1, <1>2, <1>3, <1>4, <1>5, <1>6, <1>7
  DEF Moves, BuildStep, RunStep, Mishap

LEMMA MoverSerial ==
  ASSUME Typed, StampInv, SerialInv, NEW p \in Procs, Moves(p), ~bypassed',
         ~outlived
  PROVE  Serial(p)'
<1> USE CacheAssumption
<1> USE DEF files, job, Step, At, Goto, Gone
<1>w. UNCHANGED files
  BY WorldUntouched
<1>t. TypeOK
  BY DEF Typed
<1>s. Serial(p)
  BY <1>t, LockMoves DEF SerialInv
<1>n. installed \in Nat
  BY <1>t DEF TypeOK
<1>1. ASSUME pc'[p] \notin Critical PROVE Serial(p)'
  BY <1>1 DEF Serial, Critical
<1>2. ASSUME NEW s \in Scripts, StartBuild(p, s) \/ StartRun(p, s)
      PROVE  Serial(p)'
  BY <1>t, <1>1, <1>2 DEF StartBuild, StartRun, Launch, TypeOK, Critical
<1>3. ASSUME NEW f \in Files,
             BundleRead(p, f) \/ BundleSkip(p, f) \/ ReadManifest(p, f) \/ Check(p, f)
      PROVE  Serial(p)'
  BY <1>t, <1>1, <1>3
  DEF BundleRead, BundleSkip, ReadManifest, Check, TypeOK, Critical
<1>4. CASE ReadKey(p) \/ ReadSource(p) \/ Probe(p)
  BY <1>t, <1>1, <1>4 DEF ReadKey, ReadSource, Probe, TypeOK, Critical
<1>5. CASE EndBuild(p) \/ BuildFails(p) \/ EndRun(p) \/ WriteFails(p) \/ Crash(p)
  BY <1>t, <1>1, <1>5
  DEF EndBuild, BuildFails, EndRun, WriteFails, Crash, TypeOK, Critical
<1>6. CASE LockFails(p)
  BY <1>6 DEF LockFails
<1>7. CASE Lock(p)
  <2>1. lock' = p /\ pc'[p] = "load"
    BY <1>t, <1>7 DEF Lock, TypeOK
  <2> QED
    BY <2>1 DEF Serial
<1>8. CASE Load(p)
  <2> DEFINE entry == [key |-> KeyOf(p), build |-> mine[p],
                       code |-> code[p], deps |-> deps[p]]
             others == {e \in LoadShard(p).entries : e.key # KeyOf(p)}
  <2>1. /\ pc[p] = "load" /\ pc'[p] = "create" /\ mine'[p] = mine[p]
        /\ lock' = lock /\ shard' = shard
    BY <1>t, <1>8 DEF Load, TypeOK
  <2>2. image'[p].entries = others \cup {entry}
    <3>1. image' = [image EXCEPT ![p].entries = others \cup {entry}]
      BY <1>8 DEF Load
    <3> HIDE DEF entry, others
    <3> QED
      BY <1>t, <3>1 DEF TypeOK, Shard
  <2>3. mine[p] = installed => LoadShard(p).entries = View
    BY DEF LoadShard, Stamp, View, EmptyShard
  <2>4. entry.build = mine[p] /\ entry.key = KeyOf(p)
    OBVIOUS
  <2>5. mine[p] = installed => others = {x \in View : x.key # entry.key}
    BY <2>3, <2>4
  <2>6. View' = View
    BY <1>w, <2>1 DEF View
  <2> HIDE DEF entry, others
  <2>7. mine[p] = installed => Adds(p)'
    BY <1>w, <2>2, <2>4, <2>5, <2>6 DEF Adds
  <2> QED
    BY <1>s, <1>w, <2>1, <2>7 DEF Serial, Critical
<1>9. CASE Create(p)
  <2>1. image'[p].stamp = Stamp(p) /\ image'[p].entries = image[p].entries
    BY <1>t, <1>9 DEF Create, TypeOK, Shard
  <2>2. /\ pc[p] = "create" /\ pc'[p] = "fill" /\ lock' = lock
        /\ shard' = shard
    BY <1>t, <1>9 DEF Create, TypeOK
  <2>3. Stamp(p) = installed => mine[p] = installed
    BY <1>n, <2>2 DEF Stamp, StampInv, HonestProcess
  <2>4. Adds(p) => Adds(p)'
    BY <1>w, <2>1, <2>2 DEF Adds, View
  <2> QED
    BY <1>s, <1>w, <2>1, <2>2, <2>3, <2>4 DEF Serial, Critical
<1>10. CASE Fill(p)
  <2>1. /\ pc[p] = "fill" /\ pc'[p] = "rename" /\ lock' = lock
        /\ shard' = shard /\ image' = image
    BY <1>t, <1>10 DEF Fill, TypeOK
  <2>2. Adds(p) => Adds(p)'
    BY <1>w, <2>1 DEF Adds, View
  <2> QED
    BY <1>s, <1>w, <2>1, <2>2 DEF Serial, Critical
<1>11. CASE Rename(p)
  <2>1. pc[p] = "rename" /\ pc'[p] = "unlock" /\ lock' = lock
    BY <1>t, <1>11 DEF Rename, TypeOK
  <2> QED
    BY <1>s, <2>1 DEF Serial, Critical
<1> QED
  BY <1>2, <1>3, <1>4, <1>5, <1>6, <1>7, <1>8, <1>9, <1>10, <1>11
  DEF Moves, BuildStep, RunStep, Mishap

LEMMA SerialStep ==
  ASSUME Typed, StampInv, SerialInv, [Next]_vars
  PROVE  SerialInv'
<1> USE CacheAssumption
<1>t. TypeOK
  BY DEF Typed
<1>1. CASE UNCHANGED vars
  BY <1>1 DEF vars, files, job, SerialInv, Serial, Adds, View
<1>2. ASSUME NEW p \in Procs, Moves(p), ~bypassed', ~outlived', NEW q \in Procs
      PROVE  Serial(q)'
  <2>o. ~outlived
    BY <1>2, WorldUntouched DEF files
  <2>1. CASE q = p
    BY <1>2, <2>o, <2>1, MoverSerial
  <2>2. CASE q # p
    <3>1. Untouched(q)
      BY <1>t, <1>2, <2>2, OthersUntouched
    <3>2. UNCHANGED files
      BY <1>2, WorldUntouched
    <3>3. Serial(q) /\ Serial(p)
      BY <1>t, <1>2, <2>o, LockMoves DEF SerialInv
    <3>4. CASE pc[q] \in Critical
      <4>1. lock = q /\ pc[p] \notin Critical
        BY <2>2, <3>3, <3>4 DEF Serial
      <4>2. ~Rename(p)
        BY <4>1 DEF Rename, Step, At, Critical
      <4>3. UNCHANGED shard
        BY <1>2, <4>2, WorldUntouched
      <4>4. UNCHANGED lock
        BY <1>t, <1>2, <2>2, <4>1, LockMoves
      <4>5. Adds(q) => Adds(q)'
        BY <3>1, <3>2, <4>3 DEF Adds, View, Untouched, files
      <4> QED
        BY <3>1, <3>2, <3>3, <4>4, <4>5 DEF Serial, Untouched, files
    <3>5. CASE pc[q] \notin Critical
      BY <3>1, <3>5 DEF Serial, Untouched, Critical
    <3> QED
      BY <3>4, <3>5
  <2> QED
    BY <2>1, <2>2
<1>3. ASSUME NEW f \in Files, Edit(f) PROVE SerialInv'
  BY <1>3 DEF Edit, job, SerialInv, Serial, Adds, View
<1>4. ASSUME Rebuild, ~bypassed', ~outlived', NEW p \in Procs PROVE Serial(p)'
  <2>1. installed \in Nat /\ installed' = installed + 1
    BY <1>t, <1>4 DEF Rebuild, TypeOK
  <2>2. UNCHANGED <<shard, lock, bypassed, pc, mine, image>> /\ ~outlived
    BY <1>4 DEF Rebuild, job
  <2>3. mine[p] \in Nat /\ mine[p] <= installed
    BY <1>t DEF TypeOK, StampInv, HonestProcess
  <2>4. pc[p] \in {"fill", "rename"} => image[p].stamp # installed'
    BY <2>1 DEF StampInv, HonestProcess, Honest
  <2> QED
    BY <1>4, <2>1, <2>2, <2>3, <2>4 DEF SerialInv, Serial
<1> QED
  BY <1>1, <1>2, <1>3, <1>4, NextIs DEF SerialInv

\* The shard, behind its lock, is the abstract dictionary.
THEOREM StoreRefinement == Spec => ImplementsStore
<1> USE CacheAssumption
<1>1. Init => Store!Init
  BY DEF Init, EmptyShard, Store!Init
<1>2. ASSUME Typed, StampInv, SerialInv, [Next]_vars
      PROVE  [Store!Next]_Store!vars
  <2>t. TypeOK
    BY <1>2 DEF Typed
  <2>n. installed \in Nat /\ 1 <= installed
    BY <2>t DEF TypeOK
  <2>1. CASE UNCHANGED <<installed, shard, bypassed, outlived>>
    BY <2>1 DEF Store!vars
  <2>2. ASSUME NEW p \in Procs, Rename(p)
        PROVE  Store!Next
    <3>1. /\ shard' = image[p] /\ pc[p] = "rename"
          /\ UNCHANGED <<installed, bypassed, outlived>>
      BY <1>2, <2>2 DEF Rename, Step, At, files, StampInv, HonestProcess
    <3>2. HonestProcess(p)
      BY <1>2 DEF StampInv
    <3>3. CASE image[p].stamp # installed
      <4>1. installed > 1
        BY <3>1, <3>2, <3>3 DEF HonestProcess
      <4> QED
        BY <3>1, <3>3, <4>1 DEF Store!Next, Store!Evict
    <3>m. CASE outlived
      BY <3>1, <3>m DEF Store!Next, Store!Mix
    <3>4. CASE image[p].stamp = installed /\ bypassed /\ ~outlived
      <4>1. \A e \in image[p].entries : e.build = installed
        BY <2>n, <3>1, <3>2, <3>4 DEF HonestProcess, Honest
      <4> QED
        BY <3>1, <3>4, <4>1 DEF Store!Next, Store!Lose
    <3>5. CASE image[p].stamp = installed /\ ~bypassed /\ ~outlived
      <4>1. Adds(p)
        BY <1>2, <3>1, <3>5 DEF SerialInv, Serial
      <4> QED
        BY <3>1, <3>5, <4>1 DEF Store!Next, Store!Store, Adds, View
    <3> QED
      BY <3>3, <3>m, <3>4, <3>5
  <2>3. ASSUME NEW p \in Procs, LockFails(p)
        PROVE  Store!Next
    BY <2>3 DEF LockFails, files, Store!Next, Store!Degrade
  <2>4. ASSUME NEW p \in Procs, Moves(p), ~Rename(p), ~LockFails(p)
        PROVE  UNCHANGED <<installed, shard, bypassed, outlived>>
    <3>1. UNCHANGED <<installed, shard, outlived>>
      BY <2>4, WorldUntouched DEF files
    <3>2. UNCHANGED bypassed
      BY <2>4 DEF Moves, StartBuild, StartRun, Launch, BuildStep, BundleRead,
          BundleSkip, ReadKey, ReadManifest, Lock, Load, Create, Fill, EndBuild,
          BuildFails, RunStep, ReadSource, Probe, EndRun, Check, Mishap,
          WriteFails, Crash
    <3> QED
      BY <3>1, <3>2
  <2>5. ASSUME NEW f \in Files, Edit(f)
        PROVE  UNCHANGED <<installed, shard, bypassed, outlived>>
    BY <2>5 DEF Edit
  <2>6. CASE Rebuild
    <3>1. /\ installed' = installed + 1 /\ UNCHANGED <<shard, bypassed>>
          /\ outlived' \in {outlived, TRUE}
      BY <2>6, <2>t DEF Rebuild, TypeOK
    <3>2. shard.stamp # installed'
      BY <1>2, <2>n, <3>1 DEF StampInv, Honest
    <3> QED
      BY <3>1, <3>2 DEF Store!Next, Store!Rebuild
  <2>7. UNCHANGED vars => UNCHANGED <<installed, shard, bypassed, outlived>>
    BY DEF vars, files
  <2> QED
    BY <1>2, <2>1, <2>2, <2>3, <2>4, <2>5, <2>6, <2>7, NextIs
<1> QED
  BY <1>1, <1>2, TypedInit, TypedStep, StampInit, StampStep, SerialInit,
     SerialStep, PTL
  DEF Spec, ImplementsStore, Store!Spec

-----------------------------------------------------------------------------
(* What a hit runs.  If no file changes between a build's two readings of  *)
(* it, the manifest of an entry is the program itself, and the key holds   *)
(* what the script held.                                                   *)

True(e) == e.code[e.key.path] = e.key.src /\ e.deps = e.code

Exact(p) == code[p][target[p]] = src[p] /\ deps[p] = code[p]

\* p has seen in f what it has compiled, or has seen it gone.
Seen(p, f) == found[p][f] \in {code[p][f], Absent}

Faithful(p) ==
  /\ pc[p] = "idle" => code[p] = Nothing /\ deps[p] = Nothing /\ found[p] = Nothing
  /\ pc[p] \in {"source", "probe"} => found[p] = Nothing
  /\ pc[p] \in {"bundle", "key"} => deps[p] = Nothing
  /\ pc[p] = "bundle" => target[p] \in todo[p] \/ code[p][target[p]] # None
  /\ pc[p] = "key" => code[p][target[p]] # None
  /\ pc[p] = "manifest" =>
       /\ code[p][target[p]] = src[p]
       /\ \A f \in Files : /\ f \in todo[p] <=> code[p][f] # None /\ deps[p][f] = None
                           /\ deps[p][f] \in {None, code[p][f]}
  /\ pc[p] \in {"lock", "load", "check", "cached"} => Exact(p)
  /\ pc[p] \in {"create", "fill", "rename"} => \A e \in image[p].entries : True(e)
  /\ pc[p] = "check" => \A f \in Files \ todo[p] : Seen(p, f)
  /\ pc[p] = "cached" => \A f \in Files : Seen(p, f)

Reread(p) == \A f \in Files : BetweenReadings(p, f) => disk[f] = code[p][f]

FaithInv ==
  /\ \A e \in shard.entries : True(e)
  /\ \A p \in Procs : Faithful(p) /\ Reread(p)

LEMMA FaithInit == Init => FaithInv
BY DEF Init, FaithInv, Faithful, Reread, BetweenReadings, EmptyShard

LEMMA GoneFaithful ==
  ASSUME TypeOK, NEW p \in Procs, Gone(p)
  PROVE  Faithful(p)' /\ Reread(p)'
BY DEF TypeOK, Gone, Goto, Faithful, Reread, BetweenReadings

LEMMA BundleReadFaithful ==
  ASSUME Typed, NEW p \in Procs, Faithful(p), Reread(p), NEW f \in Files,
         BundleRead(p, f)
  PROVE  Faithful(p)' /\ Reread(p)'
<1> USE CacheAssumption
<1> USE DEF files, Step, At, Goto
<1>t. TypeOK /\ target[p] \in Files
  BY DEF Typed, Placed, BundleRead
<1>1. /\ pc[p] = "bundle" /\ deps[p] = Nothing
      /\ target[p] \in todo[p] \/ code[p][target[p]] # None
  BY DEF BundleRead, Faithful
<1>2. /\ pc'[p] = IF todo[p] = {f} THEN "key" ELSE "bundle"
      /\ todo'[p] = todo[p] \ {f}
      /\ UNCHANGED <<deps, target, disk>>
  BY <1>t DEF BundleRead, TypeOK
<1>3. /\ code'[p][f] = disk[f] /\ disk[f] \in Contents
      /\ \A g \in Files \ {f} : code'[p][g] = code[p][g]
  BY <1>t DEF BundleRead, TypeOK, Program
<1>4. target[p] \in todo'[p] \/ code'[p][target[p]] # None
  BY <1>t, <1>1, <1>2, <1>3
<1>5. Faithful(p)'
  BY <1>1, <1>2, <1>4 DEF Faithful
<1>6. Reread(p)'
  BY <1>1, <1>2, <1>3 DEF Reread, BetweenReadings
<1> QED
  BY <1>5, <1>6

LEMMA BundleSkipFaithful ==
  ASSUME Typed, NEW p \in Procs, Faithful(p), Reread(p), NEW f \in Files,
         BundleSkip(p, f)
  PROVE  Faithful(p)' /\ Reread(p)'
<1> USE DEF files, Step, At, Goto
<1>t. TypeOK
  BY DEF Typed
<1>1. /\ pc[p] = "bundle" /\ deps[p] = Nothing
      /\ target[p] \in todo[p] \/ code[p][target[p]] # None
      /\ f # target[p]
  BY DEF BundleSkip, Faithful
<1>2. /\ pc'[p] = IF todo[p] = {f} THEN "key" ELSE "bundle"
      /\ todo'[p] = todo[p] \ {f}
      /\ UNCHANGED <<code, deps, target, disk>>
  BY <1>t DEF BundleSkip, TypeOK
<1>3. Faithful(p)'
  BY <1>1, <1>2 DEF Faithful
<1>4. Reread(p)'
  BY <1>1, <1>2 DEF Reread, BetweenReadings
<1> QED
  BY <1>3, <1>4

LEMMA ReadKeyFaithful ==
  ASSUME Typed, NEW p \in Procs, Faithful(p), Reread(p), ReadKey(p)
  PROVE  Faithful(p)' /\ Reread(p)'
<1> USE CacheAssumption
<1> USE DEF files, Step, At, Goto
<1>t. TypeOK /\ target[p] \in Files
  BY DEF Typed, Placed, ReadKey
<1>1. pc[p] = "key" /\ deps[p] = Nothing /\ code[p][target[p]] # None
  BY DEF ReadKey, Faithful
<1>2. disk[target[p]] = code[p][target[p]]
  BY <1>t, <1>1 DEF Reread, BetweenReadings, Nothing
<1>3. /\ pc'[p] = "manifest" /\ src'[p] = disk[target[p]]
      /\ todo'[p] = Inlined(p)
      /\ UNCHANGED <<code, deps, target, disk>>
  BY <1>t DEF ReadKey, TypeOK
<1>4. Faithful(p)'
  BY <1>1, <1>2, <1>3 DEF Faithful, Inlined, Nothing
<1>5. Reread(p)'
  BY <1>1, <1>3 DEF Reread, BetweenReadings
<1> QED
  BY <1>4, <1>5

LEMMA ManifestFaithful ==
  ASSUME Typed, NEW p \in Procs, Faithful(p), Reread(p), NEW f \in Files,
         ReadManifest(p, f)
  PROVE  Faithful(p)' /\ Reread(p)'
<1> USE CacheAssumption
<1> USE DEF files, Step, At, Goto
<1>t. TypeOK
  BY DEF Typed
<1>1. /\ pc[p] = "manifest" /\ code[p][target[p]] = src[p]
      /\ \A g \in Files : /\ g \in todo[p] <=> code[p][g] # None /\ deps[p][g] = None
                          /\ deps[p][g] \in {None, code[p][g]}
  BY DEF ReadManifest, Faithful
<1>2. f \in todo[p] /\ disk[f] = code[p][f]
  BY <1>1 DEF ReadManifest, Reread, BetweenReadings
<1>3. /\ pc'[p] = IF todo[p] = {f} THEN "lock" ELSE "manifest"
      /\ todo'[p] = todo[p] \ {f}
      /\ UNCHANGED <<code, src, target, disk>>
  BY <1>t DEF ReadManifest, TypeOK
<1>4. /\ deps'[p][f] = code[p][f] /\ code[p][f] # None
      /\ \A g \in Files \ {f} : deps'[p][g] = deps[p][g]
  BY <1>t, <1>1, <1>2 DEF ReadManifest, TypeOK, Program
<1>5. \A g \in Files : /\ g \in todo'[p] <=> code'[p][g] # None /\ deps'[p][g] = None
                       /\ deps'[p][g] \in {None, code'[p][g]}
  BY <1>1, <1>2, <1>3, <1>4
<1>6. todo[p] = {f} => Exact(p)'
  <2> SUFFICES ASSUME todo[p] = {f} PROVE Exact(p)'
    OBVIOUS
  <2>1. \A g \in Files : deps'[p][g] = code'[p][g]
    BY <1>3, <1>5
  <2>2. code'[p] \in Program /\ deps'[p] \in Program
    BY TypedStep, <1>t DEF Typed, TypeOK, Next, BuildStep
  <2> QED
    BY <1>1, <1>3, <2>1, <2>2 DEF Exact, Program
<1>7. Faithful(p)'
  BY <1>1, <1>3, <1>5, <1>6 DEF Faithful
<1>8. Reread(p)'
  BY <1>1, <1>2, <1>3, <1>4 DEF Reread, BetweenReadings
<1> QED
  BY <1>7, <1>8

LEMMA StoreFaithful ==
  ASSUME Typed, StampInv, NEW p \in Procs, Faithful(p), Reread(p),
         \A e \in shard.entries : True(e),
         Lock(p) \/ LockFails(p) \/ Load(p) \/ Create(p) \/ Fill(p) \/ Rename(p)
  PROVE  Faithful(p)' /\ Reread(p)'
<1> USE DEF files, job, Step, At, Goto
<1>t. TypeOK
  BY DEF Typed
<1>r. pc'[p] \in Critical => Reread(p)'
  BY DEF Reread, BetweenReadings, Critical
<1>1. CASE Lock(p) \/ LockFails(p)
  <2>1. /\ pc[p] = "lock" /\ pc'[p] = "load"
        /\ UNCHANGED <<code, deps, src, target>>
    BY <1>t, <1>1 DEF Lock, LockFails, TypeOK
  <2>2. Faithful(p)'
    BY <2>1 DEF Faithful, Exact
  <2> QED
    BY <1>r, <2>1, <2>2 DEF Critical
<1>2. CASE Load(p)
  <2> DEFINE entry == [key |-> KeyOf(p), build |-> mine[p],
                       code |-> code[p], deps |-> deps[p]]
             others == {e \in LoadShard(p).entries : e.key # KeyOf(p)}
  <2>1. image'[p].entries = others \cup {entry}
    <3>1. image' = [image EXCEPT ![p].entries = others \cup {entry}]
      BY <1>2 DEF Load
    <3> HIDE DEF entry, others
    <3> QED
      BY <1>t, <3>1 DEF TypeOK, Shard
  <2>2. pc[p] = "load" /\ pc'[p] = "create"
    BY <1>t, <1>2 DEF Load, TypeOK
  <2>3. True(entry)
    BY <2>2 DEF Faithful, Exact, True, KeyOf
  <2>4. \A e \in others : True(e)
    BY DEF LoadShard, EmptyShard
  <2> HIDE DEF entry, others
  <2>5. \A e \in image'[p].entries : True(e)
    BY <2>1, <2>3, <2>4
  <2>6. Faithful(p)'
    BY <2>2, <2>5 DEF Faithful
  <2> QED
    BY <1>r, <2>2, <2>6 DEF Critical
<1>3. CASE Create(p) \/ Fill(p)
  <2>1. /\ pc[p] \in {"create", "fill"} /\ pc'[p] \in {"fill", "rename"}
        /\ image'[p].entries = image[p].entries
    BY <1>t, <1>3 DEF Create, Fill, TypeOK, Shard
  <2>2. Faithful(p)'
    BY <2>1 DEF Faithful
  <2> QED
    BY <1>r, <2>1, <2>2 DEF Critical
<1>4. CASE Rename(p)
  <2>1. pc'[p] = "unlock"
    BY <1>t, <1>4 DEF Rename, TypeOK
  <2> QED
    BY <1>r, <2>1 DEF Faithful, Critical
<1> QED
  BY <1>1, <1>2, <1>3, <1>4

LEMMA RunFaithful ==
  ASSUME Typed, NEW p \in Procs, Faithful(p), Reread(p),
         \A e \in shard.entries : True(e),
         ReadSource(p) \/ Probe(p) \/ \E f \in Files : Check(p, f)
  PROVE  Faithful(p)' /\ Reread(p)'
<1> USE DEF files, Step, At, Goto
<1>t. TypeOK
  BY DEF Typed
<1>r. pc'[p] \in InRun => Reread(p)'
  BY DEF Reread, BetweenReadings, InRun
<1>1. CASE ReadSource(p)
  <2>1. pc[p] = "source" /\ pc'[p] = "probe" /\ UNCHANGED found
    BY <1>t, <1>1 DEF ReadSource, TypeOK
  <2> QED
    BY <1>r, <2>1 DEF Faithful, InRun
<1>2. CASE Probe(p)
  <2>1. PICK e \in LoadShard(p).entries :
          /\ e.key = KeyOf(p)
          /\ code' = [code EXCEPT ![p] = e.code]
          /\ deps' = [deps EXCEPT ![p] = e.deps]
          /\ todo' = [todo EXCEPT ![p] = {f \in Files : e.deps[f] # None}]
    BY <1>2 DEF Probe
  <2>2. /\ pc[p] = "probe" /\ pc'[p] = "check"
        /\ UNCHANGED <<found, src, target>>
    BY <1>t, <1>2 DEF Probe, TypeOK
  <2>3. /\ code'[p] = e.code /\ deps'[p] = e.deps
        /\ todo'[p] = {f \in Files : e.deps[f] # None}
    BY <1>t, <2>1 DEF TypeOK
  <2>4. True(e)
    BY DEF LoadShard, EmptyShard
  <2>5. Exact(p)'
    BY <2>1, <2>2, <2>3, <2>4 DEF Exact, True, KeyOf
  <2>6. found[p] = Nothing
    BY <2>2 DEF Faithful
  <2>7. \A f \in Files \ todo'[p] : Seen(p, f)'
    BY <2>2, <2>3, <2>4, <2>6 DEF Seen, True, Nothing
  <2>8. Faithful(p)'
    BY <2>2, <2>5, <2>7 DEF Faithful
  <2> QED
    BY <1>r, <2>2, <2>8 DEF InRun
<1>3. ASSUME NEW f \in Files, Check(p, f)
      PROVE  Faithful(p)' /\ Reread(p)'
  <2>1. /\ pc[p] = "check" /\ f \in todo[p] /\ disk[f] \in {deps[p][f], Absent}
        /\ pc'[p] = IF todo[p] = {f} THEN "cached" ELSE "check"
        /\ todo'[p] = todo[p] \ {f}
        /\ UNCHANGED <<code, deps, src, target>>
    BY <1>t, <1>3 DEF Check, TypeOK
  <2>2. Exact(p) /\ \A g \in Files \ todo[p] : Seen(p, g)
    BY <2>1 DEF Faithful
  <2>3. /\ found'[p][f] = disk[f]
        /\ \A g \in Files \ {f} : found'[p][g] = found[p][g]
    BY <1>t, <1>3 DEF Check, TypeOK
  <2>4. \A g \in Files \ todo'[p] : Seen(p, g)'
    BY <2>1, <2>2, <2>3 DEF Seen, Exact
  <2>5. Exact(p)'
    BY <2>1, <2>2 DEF Exact
  <2>6. Faithful(p)'
    BY <2>1, <2>4, <2>5 DEF Faithful
  <2> QED
    BY <1>r, <2>1, <2>6 DEF InRun
<1> QED
  BY <1>1, <1>2, <1>3

LEMMA FaithStep ==
  ASSUME ~EditsWhileBuilding, Typed, StampInv, FaithInv, [Next]_vars
  PROVE  FaithInv'
<1> USE CacheAssumption
<1>t. TypeOK
  BY DEF Typed
<1>1. CASE UNCHANGED vars
  BY <1>1 DEF vars, files, job, FaithInv, Faithful, Reread, BetweenReadings,
              Exact, Seen
<1>2. ASSUME NEW p \in Procs, Moves(p) PROVE FaithInv'
  <2>w. UNCHANGED disk
    BY <1>2, WorldUntouched DEF files
  <2>i. Faithful(p) /\ Reread(p) /\ \A e \in shard.entries : True(e)
    BY DEF FaithInv
  <2>1. Faithful(p)' /\ Reread(p)'
    <3>1. ASSUME NEW s \in Scripts, StartBuild(p, s)
          PROVE  Faithful(p)' /\ Reread(p)'
      <4>1. /\ pc[p] = "idle" /\ pc'[p] = "bundle" /\ target'[p] = s
            /\ todo'[p] = Bundle[s] /\ UNCHANGED <<code, deps>>
        BY <1>t, <3>1 DEF StartBuild, Launch, TypeOK, At, Goto
      <4>2. code[p] = Nothing /\ deps[p] = Nothing
        BY <2>i, <4>1 DEF Faithful
      <4>3. Faithful(p)'
        BY <4>1, <4>2 DEF Faithful
      <4>4. Reread(p)'
        BY <4>1, <4>2 DEF Reread, BetweenReadings, Nothing
      <4> QED
        BY <4>3, <4>4
    <3>2. ASSUME NEW s \in Scripts, StartRun(p, s)
          PROVE  Faithful(p)' /\ Reread(p)'
      <4>1. pc[p] = "idle" /\ pc'[p] = "source" /\ UNCHANGED found
        BY <1>t, <3>2 DEF StartRun, Launch, TypeOK, At, Goto
      <4> QED
        BY <2>i, <4>1 DEF Faithful, Reread, BetweenReadings
    <3>3. Gone(p) => Faithful(p)' /\ Reread(p)'
      BY <1>t, GoneFaithful
    <3>4. CASE EndBuild(p) \/ BuildFails(p) \/ EndRun(p) \/ WriteFails(p) \/ Crash(p)
      BY <3>3, <3>4 DEF EndBuild, BuildFails, EndRun, WriteFails, Crash
    <3> QED
      BY <1>2, <2>i, <3>1, <3>2, <3>4, BundleReadFaithful, BundleSkipFaithful,
         ReadKeyFaithful, ManifestFaithful, StoreFaithful, RunFaithful
      DEF Moves, BuildStep, RunStep, Mishap
  <2>2. ASSUME NEW q \in Procs \ {p} PROVE Faithful(q)' /\ Reread(q)'
    <3>1. Untouched(q)
      BY <1>t, <1>2, OthersUntouched
    <3>2. Faithful(q) /\ Reread(q)
      BY DEF FaithInv
    <3>3. Faithful(q)'
      BY <3>1, <3>2 DEF Faithful, Untouched, Exact, Seen
    <3>4. Reread(q)'
      BY <2>w, <3>1, <3>2 DEF Reread, BetweenReadings, Untouched
    <3> QED
      BY <3>3, <3>4
  <2>3. \A e \in shard'.entries : True(e)
    <3>1. CASE UNCHANGED shard
      BY <2>i, <3>1
    <3>2. CASE Rename(p)
      <4>1. shard' = image[p] /\ pc[p] = "rename"
        BY <3>2 DEF Rename, Step, At, StampInv, HonestProcess
      <4> QED
        BY <2>i, <4>1 DEF Faithful
    <3> QED
      BY <1>2, <3>1, <3>2, WorldUntouched
  <2> QED
    BY <2>1, <2>2, <2>3 DEF FaithInv
<1>3. ASSUME NEW f \in Files, Edit(f) PROVE FaithInv'
  <2>1. /\ \A p \in Procs : ~BetweenReadings(p, f)
        /\ \A g \in Files \ {f} : disk'[g] = disk[g]
        /\ UNCHANGED <<shard, pc, job>>
    BY <1>t, <1>3 DEF Edit, TypeOK
  <2>2. \A p \in Procs : Faithful(p)'
    BY <2>1 DEF FaithInv, Faithful, Exact, Seen, job
  <2>3. \A p \in Procs : Reread(p)'
    BY <2>1 DEF FaithInv, Reread, BetweenReadings, job
  <2> QED
    BY <2>1, <2>2, <2>3 DEF FaithInv
<1>4. CASE Rebuild
  BY <1>4 DEF Rebuild, job, FaithInv, Faithful, Reread, BetweenReadings,
              Exact, Seen
<1> QED
  BY <1>1, <1>2, <1>3, <1>4, NextIs

\* If no file changes between the two readings of a build, a hit runs what
\* the files held when it looked at them, whoever built and edited before.
THEOREM HitsAreFaithful ==
  ASSUME ~EditsWhileBuilding
  PROVE  Spec => []RunsWhatItFound
<1>1. FaithInv => RunsWhatItFound
  BY DEF FaithInv, Faithful, Exact, Seen, RunsWhatItFound, At
<1>2. Typed /\ StampInv /\ FaithInv /\ [Next]_vars => FaithInv'
  BY FaithStep
<1> QED
  BY <1>1, <1>2, TypedInit, TypedStep, StampInit, StampStep, FaithInit, PTL
  DEF Spec
=============================================================================
