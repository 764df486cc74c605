---------------------------- MODULE FilesetCore ----------------------------
(***************************************************************************)
(* The shared state of one fileset and the two routines through which      *)
(* every thread of every process claims and returns one of its entries:    *)
(* fileset_pick() and fileset_unbusy() of src/filebench/fileset.c.  Both    *)
(* run wholly under fs_pick_lock, except for the pthread_cond_wait()s,     *)
(* so each is one atomic step here, or one step per visit to the lock      *)
(* where it waits.                                                         *)
(*                                                                         *)
(* A filesetentry is its fse_index: a natural number, the entries of the   *)
(* three types (files, directories, leaf directories) being numbered from  *)
(* disjoint ranges.  The bits of fse_flags are sets of entries, the AVL    *)
(* trees are sets of entries too, and a condition variable is the set of   *)
(* the threads blocked on it.                                              *)
(***************************************************************************)
EXTENDS Integers, FiniteSets

CONSTANTS
  Files,        \* FSE_TYPE_FILE entries
  Dirs,         \* FSE_TYPE_DIR entries
  LeafDirs,     \* FSE_TYPE_LEAFDIR entries
  Threads,      \* worker threads, of all processes
  NULL          \* the C null pointer; also the tid 0 of callers with no rotor

ASSUME EntriesAssumption ==
  /\ Files \subseteq Nat /\ Dirs \subseteq Nat /\ LeafDirs \subseteq Nat
  /\ IsFiniteSet(Files) /\ IsFiniteSet(Dirs) /\ IsFiniteSet(LeafDirs)
  /\ Files \cap Dirs = {} /\ Files \cap LeafDirs = {} /\ Dirs \cap LeafDirs = {}

ASSUME NullAssumption ==
  NULL \notin Files \cup Dirs \cup LeafDirs \cup Threads

Entries == Files \cup Dirs \cup LeafDirs

Kind == {"file", "dir", "leafdir"}

OfKind(k) == IF k = "file" THEN Files ELSE IF k = "dir" THEN Dirs ELSE LeafDirs

KindOf(e) == IF e \in Files THEN "file" ELSE IF e \in Dirs THEN "dir" ELSE "leafdir"

VARIABLES
  fse_free,      \* entries with FSE_FREE set
  fse_exists,    \* entries with FSE_EXISTS set
  fse_busy,      \* entries with FSE_BUSY set
  fse_waitng,    \* entries with FSE_THRD_WAITNG set
  fse_open_cnt,  \* fse_open_cnt of each entry
  fs_tree,       \* the free, exist and noex trees of files and leaf directories
  fs_idle,       \* fs_idle_files, fs_idle_dirs and fs_idle_leafdirs
  fs_rotor,      \* fs_file_exrotor[tid], fs_file_nerotor, fs_dirrotor, ...
  idle_cv,       \* threads blocked on fs_idle_files_cv, fs_idle_dirs_cv, ...
  thrd_wait_cv   \* threads blocked on fs_thrd_wait_cv

flagVars == <<fse_free, fse_exists, fse_open_cnt, fs_tree>>
claimVars == <<fse_busy, fse_waitng, fs_idle, fs_rotor, idle_cv, thrd_wait_cv>>
coreVars == <<flagVars, claimVars>>

Tree == {"free", "exist", "noex"}

\* One rotor per type, wanted state and tid; only the rotor of existing files
\* is per tid in the code, and only that one is used with a tid other than NULL.
Rotor == Kind \X {"exist", "noex"} \X (Threads \cup {NULL})

CoreTypeOK ==
  /\ fse_free \subseteq Entries
  /\ fse_exists \subseteq Entries
  /\ fse_busy \subseteq Entries
  /\ fse_waitng \subseteq Entries
  /\ fse_open_cnt \in [Entries -> Int]
  /\ fs_tree \in [Tree -> SUBSET (Files \cup LeafDirs)]
  /\ fs_idle \in [Kind -> Nat]
  /\ fs_rotor \in [Rotor -> Nat]
  /\ idle_cv \in [Kind -> SUBSET Threads]
  /\ thrd_wait_cv \subseteq Threads

-----------------------------------------------------------------------------
(* Walking an AVL tree in index order.                                     *)

\* Going up from index i, and on from the lowest index at the end, entry e is
\* met no later than entry f.
MetNoLater(i, e, f) ==
  \/ e >= i /\ (f < i \/ e <= f)
  \/ e < i /\ f < i /\ e <= f

\* fileset_find_entry(): the entry with index i, else the next higher one,
\* else the lowest one of the tree.
fileset_find_entry(tree, i, e) ==
  /\ e \in tree
  /\ \A f \in tree : MetNoLater(i, e, f)

\* fileset_move_entry(): remove from one tree, add to another.
fileset_move_entry(src, dst, e) ==
  fs_tree' = [fs_tree EXCEPT ![src] = @ \ {e}, ![dst] = @ \cup {e}]

-----------------------------------------------------------------------------
(* fileset_pick()                                                          *)

\* The tree a pick chooses from.  Interior directories have one tree, from
\* which nothing is ever removed.
PickTree(k, want) == IF k = "dir" THEN Dirs ELSE fs_tree[want] \cap OfKind(k)

\* The start of the search: the supplied index, or the rotor of the caller.
PickStart(k, want, tid, byIndex) ==
  IF byIndex THEN OfKind(k) ELSE {fs_rotor[<<k, want, tid>>]}

\* The rotor moves past the entry that was found first, busy or not.
AdvanceRotor(k, want, tid, byIndex, first) ==
  fs_rotor' = IF byIndex THEN fs_rotor
              ELSE [fs_rotor EXCEPT ![<<k, want, tid>>] = first + 1]

\* No entry is idle: wait for the count to leave zero.
PickWait(t, k) ==
  /\ OfKind(k) # {}
  /\ fs_idle[k] = 0
  /\ idle_cv' = [idle_cv EXCEPT ![k] = @ \cup {t}]
  /\ UNCHANGED <<flagVars, fse_busy, fse_waitng, fs_idle, fs_rotor, thrd_wait_cv>>

\* Plausible slip: the picked entry is not taken off the idle count.
PickUncounted(k, want, tid, byIndex, e) ==
  /\ fs_idle[k] # 0
  /\ \E i \in PickStart(k, want, tid, byIndex), first \in PickTree(k, want) :
       /\ fileset_find_entry(PickTree(k, want), i, first)
       /\ fileset_find_entry(PickTree(k, want) \ fse_busy, first, e)
       /\ AdvanceRotor(k, want, tid, byIndex, first)
  /\ fse_busy' = fse_busy \cup {e}
  /\ UNCHANGED <<flagVars, fs_idle, fse_waitng, idle_cv, thrd_wait_cv>>

\* Plausible slip: the search does not skip busy entries.
PickBusyToo(k, want, tid, byIndex, e) ==
  /\ fs_idle[k] # 0
  /\ \E i \in PickStart(k, want, tid, byIndex) :
       /\ fileset_find_entry(PickTree(k, want), i, e)
       /\ AdvanceRotor(k, want, tid, byIndex, e)
  /\ fs_idle' = [fs_idle EXCEPT ![k] = @ - 1]
  /\ fse_busy' = fse_busy \cup {e}
  /\ UNCHANGED <<flagVars, fse_waitng, idle_cv, thrd_wait_cv>>

\* The search succeeds: e is the first entry that is not busy, going up from
\* the first entry found and wrapping around.
PickEntry(k, want, tid, byIndex, e) ==
  /\ fs_idle[k] # 0
  /\ \E i \in PickStart(k, want, tid, byIndex), first \in PickTree(k, want) :
       /\ fileset_find_entry(PickTree(k, want), i, first)
       /\ fileset_find_entry(PickTree(k, want) \ fse_busy, first, e)
       /\ AdvanceRotor(k, want, tid, byIndex, first)
  /\ fs_idle' = [fs_idle EXCEPT ![k] = @ - 1]
  /\ fse_busy' = fse_busy \cup {e}
  /\ UNCHANGED <<flagVars, fse_waitng, idle_cv, thrd_wait_cv>>

\* The pick returns NULL: the fileset has no entry of the type, or the tree is
\* empty, or all of its entries are busy (the rotor moves in that case only).
PickNull(k, want, tid, byIndex) ==
  /\ \/ /\ OfKind(k) = {} \/ (fs_idle[k] # 0 /\ PickTree(k, want) = {})
        /\ UNCHANGED fs_rotor
     \/ /\ fs_idle[k] # 0
        /\ PickTree(k, want) \subseteq fse_busy
        /\ \E i \in PickStart(k, want, tid, byIndex), first \in PickTree(k, want) :
             /\ fileset_find_entry(PickTree(k, want), i, first)
             /\ AdvanceRotor(k, want, tid, byIndex, first)
  /\ UNCHANGED <<flagVars, fse_busy, fse_waitng, fs_idle, idle_cv, thrd_wait_cv>>

-----------------------------------------------------------------------------
(* fileset_unbusy()                                                        *)

\* pthread_cond_signal(): one of the blocked threads, if any, is released.
SignalIdle(k) ==
  IF idle_cv[k] = {} THEN UNCHANGED idle_cv
  ELSE \E t \in idle_cv[k] : idle_cv' = [idle_cv EXCEPT ![k] = @ \ {t}]

\* Plausible slip: the flag changes, the entry stays in the tree it was in.
UpdateExistKeepsTree(e, exists) ==
  /\ fse_exists' = IF exists THEN fse_exists \cup {e} ELSE fse_exists \ {e}
  /\ fse_free' = fse_free \ {e}
  /\ IF e \in fse_free /\ e \notin Dirs
     THEN fileset_move_entry("free", IF exists THEN "exist" ELSE "noex", e)
     ELSE UNCHANGED fs_tree

\* The FSE_EXISTS update: the flag, FSE_FREE, and the tree the entry is in.
UpdateExist(e, exists) ==
  /\ fse_exists' = IF exists THEN fse_exists \cup {e} ELSE fse_exists \ {e}
  /\ fse_free' = fse_free \ {e}
  /\ LET dst == IF exists THEN "exist" ELSE "noex"
     IN  IF e \in Dirs THEN UNCHANGED fs_tree
         ELSE IF e \in fse_free THEN fileset_move_entry("free", dst, e)
         ELSE IF exists /\ e \notin fse_exists THEN fileset_move_entry("noex", "exist", e)
         ELSE IF ~exists /\ e \in fse_exists THEN fileset_move_entry("exist", "noex", e)
         ELSE UNCHANGED fs_tree

\* Plausible slip: the entry is not counted as idle if its release is broadcast.
ReleaseUncounted(e) ==
  /\ fse_busy' = fse_busy \ {e}
  /\ fse_waitng' = fse_waitng \ {e}
  /\ thrd_wait_cv' = IF e \in fse_waitng THEN {} ELSE thrd_wait_cv
  /\ fs_idle' = [fs_idle EXCEPT ![KindOf(e)] = IF e \in fse_waitng THEN @ ELSE @ + 1]
  /\ IF fs_idle[KindOf(e)] + 1 = 1 THEN SignalIdle(KindOf(e)) ELSE UNCHANGED idle_cv

\* Clearing FSE_BUSY: wake every thread waiting for a particular entry, count
\* the entry as idle, and signal the idle count's leaving zero.
Release(e) ==
  /\ fse_busy' = fse_busy \ {e}
  /\ fse_waitng' = fse_waitng \ {e}
  /\ thrd_wait_cv' = IF e \in fse_waitng THEN {} ELSE thrd_wait_cv
  /\ fs_idle' = [fs_idle EXCEPT ![KindOf(e)] = @ + 1]
  /\ IF fs_idle[KindOf(e)] + 1 = 1 THEN SignalIdle(KindOf(e)) ELSE UNCHANGED idle_cv

fileset_unbusy(e, update_exist, new_exist_val, open_cnt_incr) ==
  /\ IF update_exist THEN UpdateExist(e, new_exist_val)
     ELSE UNCHANGED <<fse_free, fse_exists, fs_tree>>
  /\ fse_open_cnt' = [fse_open_cnt EXCEPT ![e] = @ + open_cnt_incr]
  /\ IF e \in fse_busy THEN Release(e)
     ELSE UNCHANGED <<fse_busy, fse_waitng, thrd_wait_cv, fs_idle, idle_cv>>
  /\ UNCHANGED fs_rotor

-----------------------------------------------------------------------------
(* Properties of the shared state.                                         *)

\* Every file and leaf directory is linked in exactly one tree, the one its
\* flags name: fileset_unbusy() chooses the source tree of its avl_remove()
\* from the flags, so a mismatch would corrupt the trees.
TreesMatchFlags ==
  LET movable == Files \cup LeafDirs
  IN  /\ fs_tree["free"] = fse_free \cap movable
      /\ fs_tree["exist"] = (fse_exists \ fse_free) \cap movable
      /\ fs_tree["noex"] = movable \ (fse_exists \cup fse_free)

\* Entries of type k that are not busy.
NotBusy(k) == OfKind(k) \ fse_busy

\* The idle counts never fall below the number of entries that are not busy,
\* so a thread that finds a count of zero in fileset_pick() really has nothing
\* to take.
IdleCountCovers ==
  \A k \in Kind : fs_idle[k] >= Cardinality(NotBusy(k))
=============================================================================
