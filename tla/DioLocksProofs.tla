--------------------------- MODULE DioLocksProofs ---------------------------
(***************************************************************************)
(* The invariants of DioLocks, for any number of processes, resources and  *)
(* bytes.                                                                  *)
(***************************************************************************)
EXTENDS DioLocks, TLAPS

\* Processes never have locks that conflict.
NoConflict ==
  \A p, q \in Process, b \in Place :
    p # q => ~Conflict(locks[p][b], locks[q][b])

\* Who waits does so through a resource of its own, which nobody else can close.
WaitersOpen ==
  \A p \in Process :
    waiting[p] # Nobody => Owner[waiting[p].handle] = p /\ IsOpen(waiting[p].handle)

IInv == TypeOK /\ NoConflict /\ WaitersOpen /\ ClaimsHold /\ NoLockLeftBehind

LEMMA NoneIsFree ==
  None \in [Place -> LockType \union {Free}] /\ \A b \in Place : None[b] = Free
  BY DEF None

LEMMA OverType ==
  ASSUME NEW f \in [Place -> LockType \union {Free}],
         NEW range \in SUBSET Place, NEW type \in LockType \union {Free}
  PROVE  Over(f, range, type) \in [Place -> LockType \union {Free}]
  BY DEF Over

LEMMA RangeIsPlaces ==
  ASSUME NEW h \in Handle, NEW lk \in LockArg
  PROVE  Range(h, lk) \in SUBSET Place
  BY DEF Range

-----------------------------------------------------------------------------
(* What the calls on the file leave alone.                                   *)

LEMMA OffsetInPlace ==
  ASSUME FilesTypeOK, NEW h \in Handle, IsOpen(h)
  PROVE  desc[h] \in Desc /\ offset[desc[h]] \in Place
  BY DEF FilesTypeOK, IsOpen

\* A call on an open resource keeps the types, and opens and closes nothing.
LEMMA FileCallKeepsTypes ==
  ASSUME FilesTypeOK, NEW h \in Handle, FileCall(h)
  PROVE  FilesTypeOK' /\ desc' = desc
  <1>1. ASSUME NEW n \in Counts, Read(h, n) PROVE FilesTypeOK' /\ desc' = desc
    <2>1. offset[desc[h]] \in Place /\ desc[h] \in Desc
      BY <1>1, OffsetInPlace DEF Read
    <2>2. n \in Nat
      BY <1>1, FilesAssumption
    <2>3. (IF offset[desc[h]] + n < length THEN offset[desc[h]] + n ELSE length) \in Place
      BY <2>1, <2>2, FilesAssumption DEF FilesTypeOK, Place
    <2> QED BY <1>1, <2>1, <2>3 DEF Read, FilesTypeOK
  <1>2. ASSUME NEW n \in Counts, NEW t \in Counts \union {0}, Write(h, n, t)
        PROVE FilesTypeOK' /\ desc' = desc
    <2>1. offset[desc[h]] \in Place /\ desc[h] \in Desc
      BY <1>2, OffsetInPlace DEF Write
    <2> DEFINE at == IF append[desc[h]] THEN length ELSE offset[desc[h]]
    <2>2. at \in Place
      BY <2>1 DEF FilesTypeOK
    <2>3. PICK k \in 1 .. Asked(n, t) :
            /\ at + k <= MaxOffset
            /\ offset' = [offset EXCEPT ![desc[h]] = at + k]
            /\ length' = IF at + k > length THEN at + k ELSE length
      BY <1>2 DEF Write
    <2>4. Asked(n, t) \in Nat
      BY <1>2, FilesAssumption DEF Asked
    <2>5. at + k \in Place
      BY <2>2, <2>3, <2>4, FilesAssumption DEF Place
    <2> QED BY <1>2, <2>1, <2>3, <2>5 DEF Write, FilesTypeOK
  <1>3. ASSUME NEW n \in Positions, Truncate(h, n) PROVE FilesTypeOK' /\ desc' = desc
    BY <1>3 DEF Truncate, FilesTypeOK
  <1>4. ASSUME NEW n \in Positions, NEW w \in Whence, Seek(h, n, w)
        PROVE FilesTypeOK' /\ desc' = desc
    BY <1>4 DEF Seek, FilesTypeOK
  <1>5. ASSUME NEW a \in BOOLEAN, SetFlags(h, a) PROVE FilesTypeOK' /\ desc' = desc
    BY <1>5 DEF SetFlags, FilesTypeOK
  <1> QED BY <1>1, <1>2, <1>3, <1>4, <1>5 DEF FileCall

\* Opening and duplicating keep the types, and close nothing.
LEMMA OpeningKeepsTypes ==
  ASSUME FilesTypeOK, NEW h \in Handle, NEW g \in Handle, NEW a \in BOOLEAN, NEW t \in BOOLEAN,
         Open(h, a, t) \/ Duplicate(h, g)
  PROVE  FilesTypeOK' /\ \A k \in Handle : IsOpen(k) => IsOpen(k)'
  <1>1. CASE Open(h, a, t)
    <2>1. 0 \in Place
      BY FilesAssumption DEF Place
    <2>2. FilesTypeOK'
      BY <1>1, <2>1 DEF Open, FilesTypeOK
    <2> QED BY <1>1, <2>2, FilesAssumption DEF Open, FilesTypeOK, IsOpen
  <1>2. CASE Duplicate(h, g)
    BY <1>2 DEF Duplicate, FilesTypeOK, IsOpen
  <1> QED BY <1>1, <1>2

\* A close closes what it says and nothing else.
LEMMA CloseKeepsTypes ==
  ASSUME FilesTypeOK, NEW h \in Handle, Close(h)
  PROVE  FilesTypeOK' /\ \A k \in Handle : k # h /\ IsOpen(k) => IsOpen(k)'
  <1>1. 0 \in Place /\ desc[h] \in Desc
    BY FilesAssumption, OffsetInPlace DEF Place, Close
  <1>2. FilesTypeOK'
    BY <1>1 DEF Close, FilesTypeOK
  <1> QED BY <1>2 DEF Close, FilesTypeOK, IsOpen

LEMMA CloseAllKeepsTypes ==
  ASSUME FilesTypeOK, NEW p \in Process, CloseAll(p)
  PROVE  /\ FilesTypeOK'
         /\ \A k \in Handle : IF Owner[k] = p THEN ~IsOpen(k)' ELSE IsOpen(k) => IsOpen(k)'
  <1>1. 0 \in Place
    BY FilesAssumption DEF Place
  <1>2. FilesTypeOK'
    BY <1>1 DEF CloseAll, FilesTypeOK
  <1> QED BY <1>2 DEF CloseAll, FilesTypeOK, IsOpen
-----------------------------------------------------------------------------
(* Steps on the locks.                                                       *)

\* Calls on the file: the locks stay, and nothing is closed.
LEMMA FileStep ==
  ASSUME IInv, FilesTypeOK', \A k \in Handle : IsOpen(k) => IsOpen(k)',
         UNCHANGED <<locks, waiting, claim>>
  PROVE  IInv'
  <1>1. TypeOK' /\ NoConflict'
    BY DEF IInv, TypeOK, NoConflict
  <1>2. WaitersOpen'
    BY DEF IInv, WaitersOpen, TypeOK, Wanted
  <1>3. ClaimsHold'
    BY DEF IInv, ClaimsHold
  <1>4. NoLockLeftBehind'
    BY DEF IInv, NoLockLeftBehind
  <1> QED BY <1>1, <1>2, <1>3, <1>4 DEF IInv

\* A process sets, or clears, what nobody has a lock against.
LEMMA SetLockStep ==
  ASSUME IInv, NEW h \in Handle, NEW range \in SUBSET Place,
         NEW type \in LockType \union {Free},
         IsOpen(h), Blockers(Owner[h], range, type) = {}, SetLock(h, range, type),
         waiting' = [waiting EXCEPT ![Owner[h]] = Nobody],
         UNCHANGED files
  PROVE  IInv'
  <1> DEFINE p == Owner[h]
  <1>0. p \in Process
    BY FilesAssumption
  <1>1. /\ locks \in [Process -> [Place -> LockType \union {Free}]]
        /\ claim \in [Handle -> [Place -> LockType \union {Free}]]
        /\ waiting \in [Process -> Wanted \union {Nobody}]
        /\ FilesTypeOK
    BY DEF IInv, TypeOK
  <1>2. locks' = [locks EXCEPT ![p] = Over(locks[p], range, type)]
    BY DEF SetLock
  <1>3. claim' = [Overridden(h, range, type) EXCEPT ![h] = Over(claim[h], range, type)]
    BY DEF SetLock
  <1>4. FilesTypeOK' /\ \A k \in Handle : IsOpen(k)' <=> IsOpen(k)
    BY <1>1 DEF files, FilesTypeOK, IsOpen
  <1>5. Overridden(h, range, type) \in [Handle -> [Place -> LockType \union {Free}]]
    BY <1>1 DEF Overridden
  <1>6. locks' \in [Process -> [Place -> LockType \union {Free}]]
    BY <1>0, <1>1, <1>2, OverType
  <1>7. claim' \in [Handle -> [Place -> LockType \union {Free}]]
    BY <1>1, <1>3, <1>5, OverType
  <1>8. TypeOK'
    BY <1>1, <1>4, <1>6, <1>7 DEF TypeOK
  <1>9. NoConflict'
    <2> SUFFICES ASSUME NEW q \in Process, NEW r \in Process, NEW b \in Place, q # r
                 PROVE  ~Conflict(locks'[q][b], locks'[r][b])
      BY DEF NoConflict, Conflict
    <2>1. ~Conflict(locks[q][b], locks[r][b])
      BY DEF IInv, NoConflict
    <2>2. ASSUME NEW u \in Process, u # p, b \in range
          PROVE  ~Conflict(type, locks[u][b])
      BY <2>2 DEF Blockers
    <2>3. locks'[p][b] = IF b \in range THEN type ELSE locks[p][b]
      BY <1>0, <1>1, <1>2 DEF Over
    <2>4. \A u \in Process : u # p => locks'[u] = locks[u]
      BY <1>0, <1>1, <1>2
    <2> QED BY <2>1, <2>2, <2>3, <2>4 DEF Conflict
  <1>10. WaitersOpen'
    BY <1>0, <1>1, <1>4 DEF IInv, WaitersOpen, Wanted
  <1>11. ClaimsHold'
    <2> SUFFICES ASSUME NEW g \in Handle, NEW b \in Place, claim'[g][b] # Free
                 PROVE  IsOpen(g)' /\ locks'[Owner[g]][b] = claim'[g][b]
      BY DEF ClaimsHold
    <2>1. CASE g = h
      BY <1>0, <1>1, <1>2, <1>3, <1>4, <1>5, <2>1 DEF Over, IInv, ClaimsHold
    <2>2. CASE g # h /\ Owner[g] = p
      <3>1. claim'[g][b] = IF b \in range /\ claim[g][b] # type THEN Free ELSE claim[g][b]
        BY <1>1, <1>3, <1>5, <2>2 DEF Overridden, Siblings
      <3> QED BY <1>0, <1>1, <1>2, <1>4, <2>2, <3>1 DEF Over, IInv, ClaimsHold
    <2>3. CASE Owner[g] # p
      <3>1. claim'[g] = claim[g]
        BY <1>1, <1>3, <1>5, <2>3 DEF Overridden, Siblings
      <3>2. locks'[Owner[g]] = locks[Owner[g]]
        BY <1>0, <1>1, <1>2, <2>3, FilesAssumption
      <3> QED BY <1>4, <3>1, <3>2 DEF IInv, ClaimsHold
    <2> QED BY <2>1, <2>2, <2>3
  <1>12. NoLockLeftBehind'
    <2> SUFFICES ASSUME NEW q \in Process, \A k \in Handle : Owner[k] = q => ~IsOpen(k)'
                 PROVE  locks'[q] = None
      BY DEF NoLockLeftBehind
    <2>1. q # p
      BY <1>4
    <2> QED BY <1>0, <1>1, <1>2, <1>4, <2>1 DEF IInv, NoLockLeftBehind
  <1> QED BY <1>8, <1>9, <1>10, <1>11, <1>12 DEF IInv

\* A process loses all its locks, and what its scripts think of them.
LEMMA LosesLocks ==
  ASSUME IInv, NEW p \in Process, FilesTypeOK',
         locks' = [locks EXCEPT ![p] = None],
         waiting' = [waiting EXCEPT ![p] = Nobody],
         claim' = [g \in Handle |-> IF Owner[g] = p THEN None ELSE claim[g]],
         \A k \in Handle : Owner[k] # p /\ IsOpen(k) => IsOpen(k)'
  PROVE  IInv'
  <1>1. /\ locks \in [Process -> [Place -> LockType \union {Free}]]
        /\ claim \in [Handle -> [Place -> LockType \union {Free}]]
        /\ waiting \in [Process -> Wanted \union {Nobody}]
    BY DEF IInv, TypeOK
  <1>2. /\ locks' \in [Process -> [Place -> LockType \union {Free}]]
        /\ claim' \in [Handle -> [Place -> LockType \union {Free}]]
    BY <1>1, NoneIsFree
  <1>3. TypeOK'
    BY <1>1, <1>2 DEF TypeOK
  <1>4. NoConflict'
    BY <1>1, NoneIsFree DEF IInv, NoConflict, Conflict
  <1>5. WaitersOpen'
    BY <1>1 DEF IInv, WaitersOpen, Wanted
  <1>6. ClaimsHold'
    <2> SUFFICES ASSUME NEW g \in Handle, NEW b \in Place, claim'[g][b] # Free
                 PROVE  IsOpen(g)' /\ locks'[Owner[g]][b] = claim'[g][b]
      BY DEF ClaimsHold
    <2>1. Owner[g] # p
      BY NoneIsFree
    <2> QED BY <1>1, <2>1, FilesAssumption DEF IInv, ClaimsHold
  <1>7. NoLockLeftBehind'
    <2> SUFFICES ASSUME NEW q \in Process, \A k \in Handle : Owner[k] = q => ~IsOpen(k)', q # p
                 PROVE  locks'[q] = None
      BY <1>1 DEF NoLockLeftBehind
    <2> QED BY <1>1 DEF IInv, NoLockLeftBehind
  <1> QED BY <1>3, <1>4, <1>5, <1>6, <1>7 DEF IInv

\* A process starts to wait, or stops: no lock changes.
LEMMA WaitStep ==
  ASSUME IInv, NEW p \in Process, NEW w \in Wanted \union {Nobody},
         w # Nobody => Owner[w.handle] = p /\ IsOpen(w.handle),
         waiting' = [waiting EXCEPT ![p] = w],
         UNCHANGED <<files, locks, claim>>
  PROVE  IInv'
  <1>1. TypeOK'
    BY DEF IInv, TypeOK, files, FilesTypeOK
  <1>2. NoConflict' /\ ClaimsHold' /\ NoLockLeftBehind'
    BY DEF IInv, NoConflict, ClaimsHold, NoLockLeftBehind, files, IsOpen
  <1>3. WaitersOpen'
    BY DEF IInv, TypeOK, WaitersOpen, files, IsOpen, Wanted
  <1> QED BY <1>1, <1>2, <1>3 DEF IInv

-----------------------------------------------------------------------------
(* The invariant. *)

LEMMA InitInv == Init => IInv
  <1> SUFFICES ASSUME Init PROVE IInv
    OBVIOUS
  <1>1. FilesTypeOK
    <2>1. 0 \in Place
      BY FilesAssumption DEF Place
    <2> QED BY <2>1 DEF Init, FilesInit, FilesTypeOK
  <1>2. TypeOK
    BY <1>1, NoneIsFree DEF Init, TypeOK
  <1>3. NoConflict /\ ClaimsHold
    BY NoneIsFree, FilesAssumption DEF Init, NoConflict, Conflict, ClaimsHold
  <1>4. WaitersOpen /\ NoLockLeftBehind
    BY DEF Init, WaitersOpen, NoLockLeftBehind
  <1> QED BY <1>2, <1>3, <1>4 DEF IInv

LEMMA NextInv == IInv /\ [Next]_vars => IInv'
  <1> SUFFICES ASSUME IInv, [Next]_vars PROVE IInv'
    OBVIOUS
  <1>0. /\ FilesTypeOK
        /\ waiting \in [Process -> Wanted \union {Nobody}]
    BY DEF IInv, TypeOK
  <1>1. ASSUME NEW h \in Handle, dio_open(h) PROVE IInv'
    BY <1>0, <1>1, OpeningKeepsTypes, FileStep DEF dio_open
  <1>2. ASSUME NEW h \in Handle, dio_dup(h) PROVE IInv'
    BY <1>0, <1>2, OpeningKeepsTypes, FileStep DEF dio_dup, Dup
  <1>3. ASSUME NEW h \in Handle, pcntl_fork(h) PROVE IInv'
    BY <1>0, <1>3, OpeningKeepsTypes, FileStep DEF pcntl_fork, Inherit
  <1>4. ASSUME NEW h \in Handle, dio_file_call(h) PROVE IInv'
    <2>1. FilesTypeOK' /\ desc' = desc
      BY <1>0, <1>4, FileCallKeepsTypes DEF dio_file_call
    <2> QED BY <1>4, <2>1, FileStep DEF dio_file_call, IsOpen
  <1>5. ASSUME NEW h \in Handle, dio_close(h) PROVE IInv'
    <2>1. FilesTypeOK' /\ \A k \in Handle : k # h /\ IsOpen(k) => IsOpen(k)'
      BY <1>0, <1>5, CloseKeepsTypes DEF dio_close
    <2>2. waiting' = [waiting EXCEPT ![Owner[h]] = Nobody]
      BY <1>0, <1>5, FilesAssumption DEF dio_close, Runs
    <2>3. Owner[h] \in Process
      BY FilesAssumption
    <2> QED BY <1>5, <2>1, <2>2, <2>3, LosesLocks DEF dio_close
  <1>6. ASSUME NEW h \in Handle, NEW lk \in LockArg, dio_fcntl_setlk(h, lk) PROVE IInv'
    <2>1. waiting' = [waiting EXCEPT ![Owner[h]] = Nobody]
      BY <1>0, <1>6, FilesAssumption DEF dio_fcntl_setlk, Runs
    <2>2. lk.type \in LockType \union {Free}
      BY DEF LockArg, Free
    <2> QED BY <1>6, <2>1, <2>2, RangeIsPlaces, SetLockStep DEF dio_fcntl_setlk
  <1>7. ASSUME NEW h \in Handle, NEW lk \in LockArg, dio_fcntl_setlkw(h, lk) PROVE IInv'
    <2> DEFINE w == [handle |-> h, range |-> Range(h, lk), type |-> lk.type]
    <2>1. lk.type \in LockType
      BY <1>7 DEF dio_fcntl_setlkw, Blockers, Conflict, LockArg, Free
    <2>2. w \in Wanted
      BY <2>1, RangeIsPlaces DEF Wanted
    <2>3. Owner[w.handle] = Owner[h] /\ IsOpen(w.handle) /\ Owner[h] \in Process
      BY <1>7, FilesAssumption DEF dio_fcntl_setlkw
    <2>4. waiting' = [waiting EXCEPT ![Owner[h]] = w]
      BY <1>7 DEF dio_fcntl_setlkw
    <2> HIDE DEF w
    <2> QED BY <1>7, <2>2, <2>3, <2>4, WaitStep DEF dio_fcntl_setlkw
  <1>8. ASSUME NEW p \in Process, Granted(p) PROVE IInv'
    <2>1. waiting[p] \in Wanted
      BY <1>0, <1>8 DEF Granted
    <2>2. /\ waiting[p].handle \in Handle
          /\ waiting[p].range \in SUBSET Place
          /\ waiting[p].type \in LockType
      BY <2>1 DEF Wanted
    <2>3. Owner[waiting[p].handle] = p /\ IsOpen(waiting[p].handle)
      BY <1>8 DEF Granted, IInv, WaitersOpen
    <2> QED BY <1>8, <2>2, <2>3, SetLockStep DEF Granted
  <1>9. ASSUME NEW p \in Process, Interrupted(p) PROVE IInv'
    BY <1>9, WaitStep DEF Interrupted
  <1>10. ASSUME NEW p \in Process, Die(p) PROVE IInv'
    <2>1. FilesTypeOK' /\ \A k \in Handle : Owner[k] # p /\ IsOpen(k) => IsOpen(k)'
      BY <1>0, <1>10, CloseAllKeepsTypes DEF Die
    <2> QED BY <1>10, <2>1, LosesLocks DEF Die
  <1>11. CASE UNCHANGED vars
    BY <1>11, FileStep, <1>0 DEF vars, files, FilesTypeOK, IsOpen
  <1> QED BY <1>1, <1>2, <1>3, <1>4, <1>5, <1>6, <1>7, <1>8, <1>9, <1>10, <1>11 DEF Next

THEOREM Invariance == Spec => []IInv
  BY InitInv, NextInv, PTL DEF Spec

-----------------------------------------------------------------------------

\* The values that the model's variables take.
THEOREM TypeCorrect == Spec => []TypeOK
  <1>1. IInv => TypeOK
    BY DEF IInv
  <1> QED BY <1>1, Invariance, PTL

\* What a script was told that it locked is locked, however other processes use
\* the file, until its own process overrides it.
THEOREM ClaimsAreHeld == Spec => []ClaimsHold
  <1>1. IInv => ClaimsHold
    BY DEF IInv
  <1> QED BY <1>1, Invariance, PTL

\* Scripts of two processes are never both told that they have a byte which
\* one of them may write.
THEOREM ClaimsExcludeEachOther == Spec => []ClaimsExclude
  <1>1. IInv => ClaimsExclude
    <2> SUFFICES ASSUME IInv, NEW h \in Handle, NEW g \in Handle, NEW b \in Place,
                        Owner[h] # Owner[g], Conflict(claim[h][b], claim[g][b])
                 PROVE  FALSE
      BY DEF ClaimsExclude
    <2>1. locks[Owner[h]][b] = claim[h][b] /\ locks[Owner[g]][b] = claim[g][b]
      BY DEF Conflict, IInv, ClaimsHold
    <2> QED BY <2>1, FilesAssumption DEF IInv, NoConflict
  <1> QED BY <1>1, Invariance, PTL

\* A process that has closed the file, through whatever resources, has no lock
\* on it.
THEOREM NothingStaysLocked == Spec => []NoLockLeftBehind
  <1>1. IInv => NoLockLeftBehind
    BY DEF IInv
  <1> QED BY <1>1, Invariance, PTL

=============================================================================
