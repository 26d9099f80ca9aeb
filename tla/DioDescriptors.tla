--------------------------- MODULE DioDescriptors ---------------------------
(***************************************************************************)
(* The life of the file descriptors that the dio extension opens.  A PHP   *)
(* worker process serves one request after another.  A script of a request *)
(* holds handles: legacy resources (dio_open, dio_fdopen, dio_dup and      *)
(* dio_fcntl(F_DUPFD), each a php_fd_t that holds a descriptor number) and *)
(* streams (dio_raw and dio_serial, or fopen on dio.raw:// and             *)
(* dio.serial://, each a php_dio_posix_stream_data that holds one).        *)
(*                                                                         *)
(* A handle stores the NUMBER of a descriptor; the kernel decides which    *)
(* open file the number stands for, and gives the lowest free number to    *)
(* the next open.  The module checks that a number never comes to mean     *)
(* something else while a handle still uses it, and that nothing stays     *)
(* open that no handle can close, but for what three calls of the code     *)
(* leave to nobody: two failed allocations and a dio_fcntl that duplicates *)
(* a descriptor and returns a plain number.  They are kept in ownerless.   *)
(***************************************************************************)
EXTENDS Integers, FiniteSets

CONSTANTS
  MaxFd,         \* descriptors are 0 .. MaxFd (RLIMIT_NOFILE minus one)
  Inherited,     \* descriptors the worker owns before any request (0, 1, 2)
  MaxHandle,     \* bound: resources registered in one request
  MaxFile,       \* bound: files opened in a behaviour
  MaxOwnerless,  \* bound: descriptors left open without a handle
  FdopenNumbers, \* the numbers scripts give to dio_fdopen (a zend_long)
  IntModulus     \* 2^32: an int keeps a zend_long modulo this

Fd     == 0 .. MaxFd
Handle == 1 .. MaxHandle
NoFd   == -1   \* what a failing fcntl(F_DUPFD) leaves in php_fd_t.fd
NoFile == 0    \* what a closed descriptor refers to

ASSUME DescriptorAssumption ==
  /\ MaxFd \in Nat
  /\ Inherited \subseteq Fd
  /\ MaxHandle \in Nat
  /\ MaxFile \in Nat
  /\ MaxOwnerless \in Nat
  /\ FdopenNumbers \subseteq Nat
  /\ IntModulus \in Nat \ {0}

VARIABLES
  fdTable,    \* kernel: the open file each descriptor refers to, or NoFile
  files,      \* files opened so far; the next one gets number files + 1
  registered, \* handles registered in this request, numbered from 1
  kind,       \* what a handle is, "none" before and "closed" after its life
  fd,         \* the descriptor number a handle stores
  file,       \* history: the file a handle was made for
  reach,      \* handles the script has a reference to
  fdopened,   \* history: numbers that were given to dio_fdopen
  ownerless,  \* history: descriptors that were opened and got no handle
  phase       \* "running" a script, in "shutdown" after it, or "idle"

table   == <<fdTable, files>>
handles == <<registered, kind, fd, file, reach>>
vars    == <<fdTable, files, registered, kind, fd, file, reach, fdopened,
             ownerless, phase>>

StreamKind == {"raw", "serial"}
LiveKind   == {"fd", "plain"} \union StreamKind
Live       == {h \in Handle : kind[h] \in LiveKind}

\* The file an inherited descriptor refers to; files 1 .. MaxFd + 1 are theirs.
Initially(n) == IF n \in Inherited THEN n + 1 ELSE NoFile

Init ==
  /\ fdTable = [n \in Fd |-> Initially(n)]
  /\ files = MaxFd + 1
  /\ registered = 0
  /\ kind = [h \in Handle |-> "none"]
  /\ fd = [h \in Handle |-> NoFd]
  /\ file = [h \in Handle |-> NoFile]
  /\ reach = {}
  /\ fdopened = {} /\ ownerless = {}
  /\ phase = "running"

-----------------------------------------------------------------------------
(* The kernel's part: external, as POSIX describes it. *)

IsOpen(n)   == n \in Fd /\ fdTable[n] # NoFile
FreeFrom(m) == {n \in Fd : n >= m /\ fdTable[n] = NoFile}
LowestFree(n, m) == n \in FreeFrom(m) /\ \A k \in FreeFrom(m) : n <= k

\* open() gives number n to a file not opened before.
OpenAs(n) ==
  /\ LowestFree(n, 0)
  /\ files < MaxFd + 1 + MaxFile
  /\ fdTable' = [fdTable EXCEPT ![n] = files + 1]
  /\ files' = files + 1

\* dup() and fcntl(F_DUPFD) make n refer to the open file of descriptor o.
DuplicateAs(n, o, m) ==
  /\ LowestFree(n, m)
  /\ fdTable' = [fdTable EXCEPT ![n] = fdTable[o]]
  /\ UNCHANGED files

\* close(n); closing a number that is not open only fails with EBADF.
CloseFd(n) ==
  /\ fdTable' = IF IsOpen(n) THEN [fdTable EXCEPT ![n] = NoFile] ELSE fdTable
  /\ UNCHANGED files

-----------------------------------------------------------------------------
(* The Zend engine's part: external, the request's list of resources. *)

\* zend_register_resource() and php_stream_alloc(); the handle's number is the
\* next one, and the script sees it only when the function returns it.
Register(k, n, returned) ==
  LET h == registered + 1
  IN  /\ registered < MaxHandle
      /\ registered' = h
      /\ kind' = [kind EXCEPT ![h] = k]
      /\ fd' = [fd EXCEPT ![h] = n]
      /\ file' = [file EXCEPT ![h] = IF n = NoFd THEN NoFile ELSE fdTable'[n]]
      /\ reach' = IF returned THEN reach \union {h} ELSE reach

\* The script calls a function on a resource of kind k: zend_fetch_resource()
\* refuses one that was closed.
Fetch(h, k) == phase = "running" /\ h \in reach /\ kind[h] = k

\* Mutant of Destroy: the legacy resources have no destructor.
DestroyClosesStreams(h) ==
  /\ IF kind[h] = "fd" THEN UNCHANGED table ELSE CloseFd(fd[h])
  /\ kind' = [kind EXCEPT ![h] = "closed"]

\* The destructor of a handle: _dio_close_fd() for a legacy resource, the close
\* operation for a stream.  Neither looks whether the number is still its own.
Destroy(h) ==
  /\ CloseFd(fd[h])
  /\ kind' = [kind EXCEPT ![h] = "closed"]

-----------------------------------------------------------------------------
(* The legacy functions.  A call that fails before it changes anything (a    *)
(* refused path, a failing open or dup) is a stuttering step.                *)

\* Descriptors N stay open without a handle.
LeaveOpen(N) ==
  /\ ownerless' = ownerless \union N
  /\ Cardinality(ownerless') <= MaxOwnerless

\* new_php_fd() and zend_register_resource(): without memory for the php_fd_t
\* the function returns FALSE and leaves descriptor n as it is.
Wrap(n, returned) ==
  /\ \/ Register("fd", n, returned) /\ UNCHANGED ownerless
     \/ UNCHANGED handles /\ LeaveOpen({n} \ {NoFd})
  /\ UNCHANGED <<fdopened, phase>>

dio_open ==
  /\ phase = "running"
  /\ \E n \in Fd : OpenAs(n) /\ Wrap(n, TRUE)

\* The cast fd = (int)lfd; what it makes negative is not open either way.
AsInt(lfd) == lfd % IntModulus

\* The descriptor only has to be open in the process, whoever opened it.
dio_fdopen(lfd) ==
  /\ phase = "running"
  /\ IsOpen(AsInt(lfd))
  /\ UNCHANGED table
  /\ Register("fd", AsInt(lfd), TRUE)
  /\ fdopened' = fdopened \union {AsInt(lfd)}
  /\ UNCHANGED <<ownerless, phase>>

\* Mutants of dio_dup: the new resource is made of the old number, or of the -1
\* of a dup() that failed.
DupWrapsOriginal(h) ==
  /\ Fetch(h, "fd")
  /\ IsOpen(fd[h])
  /\ \E n \in Fd : DuplicateAs(n, fd[h], 0) /\ Wrap(fd[h], TRUE)

DupUnchecked(h) ==
  /\ Fetch(h, "fd")
  /\ \/ \E n \in Fd : IsOpen(fd[h]) /\ DuplicateAs(n, fd[h], 0) /\ Wrap(n, TRUE)
     \/ /\ ~IsOpen(fd[h]) \/ FreeFrom(0) = {}
        /\ UNCHANGED table
        /\ Wrap(NoFd, TRUE)

dio_dup(h) ==
  /\ Fetch(h, "fd")
  /\ IsOpen(fd[h])
  /\ \E n \in Fd : DuplicateAs(n, fd[h], 0) /\ Wrap(n, TRUE)

\* Mutants of dio_fcntl_dupfd: no resource is registered, or one of the number
\* that was asked for and not of the one fcntl() gave.
DupfdRegistersNothing(h, m) ==
  /\ Fetch(h, "fd")
  /\ \E n \in Fd : IsOpen(fd[h]) /\ DuplicateAs(n, fd[h], m)
  /\ UNCHANGED <<handles, fdopened, ownerless, phase>>

DupfdWrapsMinimum(h, m) ==
  /\ Fetch(h, "fd")
  /\ \E n \in Fd : IsOpen(fd[h]) /\ DuplicateAs(n, fd[h], m) /\ Wrap(m, FALSE)

\* dio_fcntl($f, F_DUPFD, m): the result of fcntl() is wrapped unchecked and
\* the resource is registered, but the function does not return it.
dio_fcntl_dupfd(h, m) ==
  /\ Fetch(h, "fd")
  /\ \/ \E n \in Fd : IsOpen(fd[h]) /\ DuplicateAs(n, fd[h], m) /\ Wrap(n, FALSE)
     \/ /\ ~IsOpen(fd[h]) \/ FreeFrom(m) = {}
        /\ UNCHANGED table
        /\ Wrap(NoFd, FALSE)

\* dio_fcntl with any other command hands it to fcntl() and returns the result.
\* One command opens a descriptor, F_DUPFD_CLOEXEC with its minimum m: the
\* script gets the number, and nobody gets a handle.
dio_fcntl_default(h, m) ==
  /\ Fetch(h, "fd")
  /\ \E n \in Fd : IsOpen(fd[h]) /\ DuplicateAs(n, fd[h], m) /\ LeaveOpen({n})
  /\ UNCHANGED <<handles, fdopened, phase>>

\* Mutants of dio_close: the resource stays usable, or the descriptor open.
CloseKeepsResource(h) ==
  /\ Fetch(h, "fd")
  /\ CloseFd(fd[h])
  /\ UNCHANGED <<handles, fdopened, ownerless, phase>>

CloseKeepsDescriptor(h) ==
  /\ Fetch(h, "fd")
  /\ kind' = [kind EXCEPT ![h] = "closed"]
  /\ UNCHANGED <<fdTable, files, registered, fd, file, reach, fdopened, ownerless,
                 phase>>

dio_close(h) ==
  /\ Fetch(h, "fd")
  /\ Destroy(h)
  /\ UNCHANGED <<registered, fd, file, reach, fdopened, ownerless, phase>>

-----------------------------------------------------------------------------
(* The streams: dio_raw(), dio_serial() and the two stream wrappers.         *)

\* A stream that is not opened is a stuttering step: open() fails, or
\* dio_serial_init() does and the descriptor is closed again.
StreamOpened(k) ==
  /\ phase = "running"
  /\ \E n \in Fd : OpenAs(n) /\ Register(k, n, TRUE)
  /\ UNCHANGED <<fdopened, ownerless, phase>>

\* php_stream_alloc() fails: a raw stream's descriptor is closed, a serial
\* stream's is not.
StreamNotAllocated ==
  /\ phase = "running"
  /\ \E n \in Fd : OpenAs(n) /\ LeaveOpen({n})
  /\ UNCHANGED <<handles, fdopened, phase>>

fclose(h) ==
  /\ \E k \in StreamKind \union {"plain"} : Fetch(h, k)
  /\ Destroy(h)
  /\ UNCHANGED <<registered, fd, file, reach, fdopened, ownerless, phase>>

-----------------------------------------------------------------------------
(* The rest of the worker: external. *)

\* Other PHP code opens a file: a plain stream, a socket.
OtherOpen ==
  /\ phase = "running"
  /\ \E n \in Fd : OpenAs(n) /\ Register("plain", n, TRUE)
  /\ UNCHANGED <<fdopened, ownerless, phase>>

\* The script loses its last reference to a handle: unset(), a return.
Drop(h) ==
  /\ phase = "running"
  /\ h \in reach
  /\ reach' = reach \ {h}
  /\ IF h \in Live THEN Destroy(h) ELSE UNCHANGED <<fdTable, files, kind>>
  /\ UNCHANGED <<registered, fd, file, fdopened, ownerless, phase>>

BeginShutdown ==
  /\ phase = "running"
  /\ phase' = "shutdown"
  /\ reach' = {}
  /\ UNCHANGED <<fdTable, files, registered, kind, fd, file, fdopened, ownerless>>

\* zend_close_rsrc_list() destroys the handles that are left, the last first.
ShutdownClose ==
  /\ phase = "shutdown"
  /\ \E h \in Live : (\A g \in Live : g <= h) /\ Destroy(h)
  /\ UNCHANGED <<registered, fd, file, reach, fdopened, ownerless, phase>>

\* The engine forgets the list and frees every emalloc()ed block.
EndRequest ==
  /\ phase = "shutdown"
  /\ Live = {}
  /\ phase' = "idle"
  /\ registered' = 0
  /\ kind' = [h \in Handle |-> "none"]
  /\ fd' = [h \in Handle |-> NoFd]
  /\ file' = [h \in Handle |-> NoFile]
  /\ UNCHANGED <<fdTable, files, reach, fdopened, ownerless>>

StartRequest ==
  /\ phase = "idle"
  /\ phase' = "running"
  /\ UNCHANGED <<fdTable, files, registered, kind, fd, file, reach, fdopened, ownerless>>

Legacy ==
  \/ dio_open
  \/ \E lfd \in FdopenNumbers : dio_fdopen(lfd)
  \/ \E h \in Handle : dio_dup(h) \/ dio_close(h)
  \/ \E h \in Handle, m \in Fd : dio_fcntl_dupfd(h, m) \/ dio_fcntl_default(h, m)

Streams ==
  \/ \E k \in StreamKind : StreamOpened(k)
  \/ StreamNotAllocated
  \/ \E h \in Handle : fclose(h)

Worker ==
  \/ OtherOpen
  \/ \E h \in Handle : Drop(h)
  \/ BeginShutdown \/ ShutdownClose \/ EndRequest \/ StartRequest

Next == Legacy \/ Streams \/ Worker

\* Request shutdown runs to its end once it has begun; a script need not end.
Fairness == WF_vars(ShutdownClose) /\ WF_vars(EndRequest)

Spec == Init /\ [][Next]_vars /\ Fairness

-----------------------------------------------------------------------------
(* Properties. *)

\* The type invariant.  A script never gets a handle without a descriptor: the
\* -1 of a failed call is wrapped in none but the resource that dio_fcntl keeps
\* to itself.
TypeOK ==
  /\ fdTable \in [Fd -> Nat]
  /\ files \in Nat
  /\ registered \in 0 .. MaxHandle
  /\ kind \in [Handle -> LiveKind \union {"none", "closed"}]
  /\ fd \in [Handle -> Fd \union {NoFd}]
  /\ file \in [Handle -> Nat]
  /\ reach \subseteq 1 .. registered
  /\ \A h \in reach : fd[h] \in Fd
  /\ fdopened \subseteq Fd /\ ownerless \subseteq Fd
  /\ phase \in {"running", "shutdown", "idle"}

\* The number a live handle stores was never given to dio_fdopen.
Unshared(h) == h \in Live /\ fd[h] \notin fdopened \union {NoFd}

\* A live handle still means the file it was made for, whatever sequence of
\* opens, dups, closes and request ends happened: the number it stores was not
\* closed and handed out again under it.  dio_fdopen is the only way to lose
\* this, and only for the very numbers it was given: a stale handle on such a
\* number never reaches a file behind another number.
AliasContainment ==
  \A h \in Handle : Unshared(h) => fdTable[fd[h]] = file[h]

\* Two live handles never close the same descriptor, unless dio_fdopen was
\* given its number; so no close in dio closes another component's file.
SoleOwner ==
  \A g, h \in Live : Unshared(g) /\ fd[g] = fd[h] => g = h

\* Nothing dio opened stays open without a handle that closes it, but for what
\* the code gives to nobody: the descriptors of the two allocation failures (see
\* Wrap and StreamNotAllocated) and those dio_fcntl returns as a plain number
\* (see dio_fcntl_default).
NoOrphan ==
  \A n \in Fd \ (Inherited \union fdopened \union ownerless) :
    fdTable[n] # NoFile => \E h \in Live : fd[h] = n

\* Descriptor n is as it was when the worker started.
AsStarted(n) == fdTable[n] = Initially(n)

\* A request leaves the worker's descriptor table as the worker started:
\* nothing leaks into the next request, and the worker's own descriptors are
\* still what they were, but for numbers given to dio_fdopen and for descriptors
\* that never had a handle, which the code leaves open.
RequestIsolation ==
  phase = "idle" => \A n \in Fd \ (fdopened \union ownerless) : AsStarted(n)

\* The worker's own descriptors are never closed or replaced in a request
\* either, unless dio_fdopen was given their number, even without memory.
InheritedKept ==
  \A n \in Inherited \ fdopened : AsStarted(n)

\* Once a script ended, every descriptor that has a handle is given back, also
\* those of handles no variable refers to (F_DUPFD); only numbers given to
\* dio_fdopen and descriptors that never had a handle may differ from the start.
ShutdownReleases ==
  phase = "shutdown" ~> (phase = "idle" /\ RequestIsolation)
=============================================================================
