------------------------------ MODULE DioLocks ------------------------------
(***************************************************************************)
(* Record locks on a file, which dio_fcntl() sets, waits for and asks for. *)
(* A script locks through a resource.  The kernel gives the lock to the    *)
(* process: any other resource of the process on that file replaces it, or *)
(* loses it by being closed.  Where a lock begins may be told from the     *)
(* offset, which reads and writes of all duplicates move, or from the end  *)
(* of the file.                                                            *)
(***************************************************************************)
EXTENDS DioFiles

CONSTANTS
  Starts,   \* "start" of the locks that scripts ask for
  Lengths,  \* their "length"; 0 is up to the end, however far, and less than 0
            \* is that many bytes before the start
  Nobody    \* what a process that does not wait waits for

ASSUME LocksAssumption ==
  /\ Starts \subseteq Int
  /\ Lengths \subseteq Int

LockType == {"F_RDLCK", "F_WRLCK"}
LockArg  == [type : LockType \union {"F_UNLCK"}, whence : Whence,
             start : Starts, length : Lengths]
Wanted   == [handle : Handle, range : SUBSET Place, type : LockType]

ASSUME NobodyAssumption == Nobody \notin Wanted

VARIABLES
  locks,    \* kernel: the type of lock each process has on each byte
  waiting,  \* the lock each process waits for in F_SETLKW
  claim     \* history: what a script was told that it locked through a resource
            \* and its process has not overridden since

vars == <<files, locks, waiting, claim>>

Free == "F_UNLCK"
None == [b \in Place |-> Free]

Init ==
  /\ FilesInit
  /\ locks = [p \in Process |-> None]
  /\ waiting = [p \in Process |-> Nobody]
  /\ claim = [h \in Handle |-> None]

-----------------------------------------------------------------------------

\* The bytes that a struct flock means now.  The last place of the model also
\* stands for all that follow it.
Range(h, lk) ==
  LET from == Base(h, lk.whence) + lk.start
  IN  {b \in Place :
         \/ lk.length = 0 /\ from <= b
         \/ lk.length > 0 /\ b \in from .. from + lk.length - 1
         \/ lk.length < 0 /\ b \in from + lk.length .. from - 1}

\* fcntl() refuses a range that begins before the file.
Valid(h, lk) ==
  LET from == Base(h, lk.whence) + lk.start
  IN  from >= 0 /\ from + lk.length >= 0

Conflict(t, u) == t # Free /\ u # Free /\ "F_WRLCK" \in {t, u}

\* The other processes that have a lock in the way of one of this type.
Blockers(p, range, type) ==
  {q \in Process \ {p} : \E b \in range : Conflict(type, locks[q][b])}

Runs(h) == waiting[Owner[h]] = Nobody

Siblings(h) == {g \in Handle \ {h} : Owner[g] = Owner[h]}

Over(f, range, type) == [b \in Place |-> IF b \in range THEN type ELSE f[b]]

\* The claims through other resources of the process on bytes that now have a
\* lock of another type, or none, are void.
Overridden(h, range, type) ==
  [g \in Handle |->
     IF g \in Siblings(h)
     THEN [b \in Place |-> IF b \in range /\ claim[g][b] # type THEN Free ELSE claim[g][b]]
     ELSE claim[g]]

\* The process has the lock, in place of what it had there, and the script is
\* told so.
SetLock(h, range, type) ==
  /\ locks' = [locks EXCEPT ![Owner[h]] = Over(locks[Owner[h]], range, type)]
  /\ claim' = [Overridden(h, range, type) EXCEPT ![h] = Over(claim[h], range, type)]

\* Mutant of dio_fcntl_setlk: the result of fcntl() is not looked at.
SetlkAlways(h, lk) ==
  /\ IsOpen(h) /\ Runs(h)
  /\ Valid(h, lk)
  /\ SetLock(h, Range(h, lk), lk.type)
  /\ UNCHANGED <<files, waiting>>

\* F_SETLK fails at once if another process is in the way; if none is, F_SETLKW
\* is the same.  An array without a "type" asks for a read lock, an integer is
\* a type for the whole file.
dio_fcntl_setlk(h, lk) ==
  /\ IsOpen(h) /\ Runs(h)
  /\ Valid(h, lk)
  /\ Blockers(Owner[h], Range(h, lk), lk.type) = {}
  /\ SetLock(h, Range(h, lk), lk.type)
  /\ UNCHANGED <<files, waiting>>

\* F_SETLKW waits instead, for the bytes the range means at this time.  A kernel
\* may see that this would be for ever and refuse, which changes nothing; it
\* need not.
dio_fcntl_setlkw(h, lk) ==
  /\ IsOpen(h) /\ Runs(h)
  /\ Valid(h, lk)
  /\ Blockers(Owner[h], Range(h, lk), lk.type) # {}
  /\ waiting' = [waiting EXCEPT ![Owner[h]] =
                   [handle |-> h, range |-> Range(h, lk), type |-> lk.type]]
  /\ UNCHANGED <<files, locks, claim>>

\* F_GETLK, which changes nothing: dio_fcntl() passes a zeroed struct flock, a
\* read lock on the whole file, and not its argument.  The answer is the type of
\* a lock that is in the way.
dio_fcntl_getlk(h, lk) ==
  LET zeroed == [type |-> "F_RDLCK", whence |-> "SEEK_SET", start |-> 0, length |-> 0]
      inWay  == Blockers(Owner[h], Range(h, zeroed), zeroed.type)
  IN  IF inWay = {} THEN Free ELSE "F_WRLCK"

\* Nobody is in the way any more.
Granted(p) ==
  /\ waiting[p] # Nobody
  /\ Blockers(p, waiting[p].range, waiting[p].type) = {}
  /\ SetLock(waiting[p].handle, waiting[p].range, waiting[p].type)
  /\ waiting' = [waiting EXCEPT ![p] = Nobody]
  /\ UNCHANGED files

\* A signal interrupts the wait; dio_fcntl() does not try again.
Interrupted(p) ==
  /\ waiting[p] # Nobody
  /\ waiting' = [waiting EXCEPT ![p] = Nobody]
  /\ UNCHANGED <<files, locks, claim>>

-----------------------------------------------------------------------------
(* Opening, using and closing resources on the file.                         *)

\* Mutant of dio_open: it opens the file twice, and closes it once.
OpenLooksFirst(h) ==
  /\ Runs(h)
  /\ \E a, t \in BOOLEAN : Open(h, a, t)
  /\ locks' = [locks EXCEPT ![Owner[h]] = None]
  /\ UNCHANGED <<waiting, claim>>

dio_open(h) ==
  /\ Runs(h)
  /\ \E a, t \in BOOLEAN : Open(h, a, t)
  /\ UNCHANGED <<locks, waiting, claim>>

dio_dup(h) ==
  /\ Runs(h)
  /\ \E g \in Handle : Dup(h, g)
  /\ UNCHANGED <<locks, waiting, claim>>

\* The child of pcntl_fork() shares the description, not the locks.
pcntl_fork(h) ==
  /\ Runs(h)
  /\ \E g \in Handle : Runs(g) /\ Inherit(h, g)
  /\ UNCHANGED <<locks, waiting, claim>>

dio_file_call(h) ==
  /\ Runs(h)
  /\ FileCall(h)
  /\ UNCHANGED <<locks, waiting, claim>>

\* Mutant of dio_close: the descriptor is not closed, only the resource freed.
CloseFreesOnly(h) ==
  /\ Runs(h)
  /\ Close(h)
  /\ claim' = [claim EXCEPT ![h] = None]
  /\ UNCHANGED <<locks, waiting>>

\* With any close of the file all locks of the process on it are gone.
dio_close(h) ==
  /\ Runs(h)
  /\ Close(h)
  /\ locks' = [locks EXCEPT ![Owner[h]] = None]
  /\ claim' = [g \in Handle |-> IF Owner[g] = Owner[h] THEN None ELSE claim[g]]
  /\ UNCHANGED waiting

Die(p) ==
  /\ CloseAll(p)
  /\ locks' = [locks EXCEPT ![p] = None]
  /\ waiting' = [waiting EXCEPT ![p] = Nobody]
  /\ claim' = [h \in Handle |-> IF Owner[h] = p THEN None ELSE claim[h]]

Next ==
  \/ \E h \in Handle :
       \/ dio_open(h) \/ dio_dup(h) \/ pcntl_fork(h) \/ dio_file_call(h) \/ dio_close(h)
       \/ \E lk \in LockArg : dio_fcntl_setlk(h, lk) \/ dio_fcntl_setlkw(h, lk)
  \/ \E p \in Process : Granted(p) \/ Interrupted(p) \/ Die(p)

Spec == Init /\ [][Next]_vars

-----------------------------------------------------------------------------
(* Properties. *)

TypeOK ==
  /\ FilesTypeOK
  /\ locks \in [Process -> [Place -> LockType \union {Free}]]
  /\ waiting \in [Process -> Wanted \union {Nobody}]
  /\ claim \in [Handle -> [Place -> LockType \union {Free}]]

\* What a script was told that it locked is locked, in that type, until it
\* unlocks it through that resource, or its own process closes some resource on
\* the file or locks the bytes through another one: no other process's lock, cut
\* of the file, move of a shared offset or death ends it.
ClaimsHold ==
  \A h \in Handle, b \in Place :
    claim[h][b] # Free => IsOpen(h) /\ locks[Owner[h]][b] = claim[h][b]

\* So scripts of two processes are never both told that they have a byte, if
\* one of them may write it.
ClaimsExclude ==
  \A h, g \in Handle, b \in Place :
    Owner[h] # Owner[g] => ~Conflict(claim[h][b], claim[g][b])

\* No lock is left by a process that has closed the file, though the locks were
\* set through any of its resources and closed through any other: a request
\* that ends, which destroys its resources, leaves the file unlocked.
NoLockLeftBehind ==
  \A p \in Process :
    (\A h \in Handle : Owner[h] = p => ~IsOpen(h)) => locks[p] = None

\* What its prototype says, "Perform a c library fcntl on fd": F_GETLK tells
\* whether the lock it is given could be set.
GetlkTells ==
  \A h \in Handle, lk \in LockArg :
    IsOpen(h) /\ Valid(h, lk) /\ lk.type # Free =>
      (dio_fcntl_getlk(h, lk) = Free <=> Blockers(Owner[h], Range(h, lk), lk.type) = {})

=============================================================================
