------------------------ MODULE DioDescriptorsProofs ------------------------
(***************************************************************************)
(* Proofs about DioDescriptors, for every size of the descriptor table and *)
(* every number of handles.  The inductive invariant IInv adds to what the *)
(* runs check that handles not yet registered are unused (Fresh) and that  *)
(* an unshared handle means an open file of its own (Bound), which is what *)
(* keeps a free descriptor from being one that a handle still stores.      *)
(***************************************************************************)
EXTENDS DioDescriptors, FiniteSetTheorems, TLAPS

\* Handles are registered in order: the next one is not in use.
Fresh == \A h \in Handle : h > registered => kind[h] = "none"

\* An unshared live handle stores the number of the open file it was made
\* for, and that number is not one of the worker's own descriptors.
Bound ==
  \A h \in Handle :
    Unshared(h) => /\ fdTable[fd[h]] = file[h]
                   /\ file[h] # NoFile
                   /\ fd[h] \notin Inherited

\* Everything in TypeOK but what it says of reach and ownerless.
TypeTable ==
  /\ fdTable \in [Fd -> Nat]
  /\ files \in Nat
  /\ registered \in 0 .. MaxHandle
  /\ kind \in [Handle -> LiveKind \union {"none", "closed"}]
  /\ fd \in [Handle -> Fd \union {NoFd}]
  /\ file \in [Handle -> Nat]
  /\ reach \subseteq 1 .. registered
  /\ fdopened \subseteq Fd
  /\ phase \in {"running", "shutdown", "idle"}

TableInv == TypeTable /\ Fresh /\ Bound /\ SoleOwner /\ InheritedKept

\* Only a running script refers to handles.
Unreachable == phase # "running" => reach = {}

\* What a script refers to has a descriptor.
ReachInv == \A h \in reach : fd[h] \in Fd

\* Between requests no handle is left.
Idle == phase = "idle" => Live = {}

LeakInv == ownerless \subseteq Fd /\ NoOrphan /\ Idle

IInv == TableInv /\ Unreachable /\ ReachInv /\ LeakInv

-----------------------------------------------------------------------------
(* The table: handles and descriptors stay bound. *)

USE DEF Fd, Handle, NoFd, NoFile, StreamKind, LiveKind

\* A descriptor is opened or duplicated and wrapped in a handle.
LEMMA WrappedKeepsTable ==
  ASSUME TableInv, DescriptorAssumption,
         NEW n \in Fd, NEW v \in Nat \ {0}, NEW k \in LiveKind, NEW returned \in BOOLEAN,
         fdTable[n] = NoFile, fdTable' = [fdTable EXCEPT ![n] = v], files' \in Nat,
         Register(k, n, returned), fdopened' = fdopened, phase' = phase
  PROVE  TableInv'
<1>1. /\ registered + 1 \in Handle /\ kind[registered + 1] = "none"
      /\ kind' = [kind EXCEPT ![registered + 1] = k]
      /\ fd' = [fd EXCEPT ![registered + 1] = n]
      /\ file' = [file EXCEPT ![registered + 1] = v]
      /\ registered' = registered + 1
  <2>1. fdTable'[n] = v /\ n # NoFd
    BY DEF TableInv, TypeTable, DescriptorAssumption
  <2>2. registered + 1 \in Handle /\ registered + 1 > registered
    BY DEF TableInv, TypeTable, Register, DescriptorAssumption
  <2>. QED  BY <2>1, <2>2 DEF TableInv, Fresh, Register
<1>2. TypeTable'
  <2>1. /\ kind' \in [Handle -> LiveKind \union {"none", "closed"}]
        /\ fd' \in [Handle -> Fd \union {NoFd}]
        /\ file' \in [Handle -> Nat]
    BY <1>1 DEF TableInv, TypeTable
  <2>2. registered' \in 0 .. MaxHandle /\ reach' \subseteq 1 .. registered'
    BY <1>1 DEF TableInv, TypeTable, Register, DescriptorAssumption
  <2>3. fdTable' \in [Fd -> Nat]
    BY DEF TableInv, TypeTable
  <2>. QED  BY <2>1, <2>2, <2>3 DEF TableInv, TypeTable
<1>3. Fresh'
  BY <1>1 DEF TableInv, TypeTable, Fresh, DescriptorAssumption
<1>4. Bound'
  <2> SUFFICES ASSUME NEW h \in Handle, Unshared(h)'
               PROVE  /\ fdTable'[fd'[h]] = file'[h]
                      /\ file'[h] # NoFile
                      /\ fd'[h] \notin Inherited
    BY DEF Bound
  <2>1. CASE h = registered + 1
    BY <1>1, <2>1 DEF TableInv, TypeTable, Unshared, InheritedKept, AsStarted, Initially,
                      DescriptorAssumption
  <2>2. CASE h # registered + 1
    <3>1. Unshared(h) /\ fd'[h] = fd[h] /\ file'[h] = file[h] /\ fd[h] \in Fd
      BY <1>1, <2>2 DEF TableInv, TypeTable, Unshared, Live
    <3>2. fd[h] # n
      BY <3>1 DEF TableInv, Bound
    <3>. QED  BY <3>1, <3>2 DEF TableInv, TypeTable, Bound
  <2>. QED  BY <2>1, <2>2
<1>5. SoleOwner'
  <2> SUFFICES ASSUME NEW g \in Live', NEW h \in Live', Unshared(g)', fd'[g] = fd'[h]
               PROVE  g = h
    BY DEF SoleOwner
  <2>0. g \in Handle /\ h \in Handle
    BY DEF Live
  <2>1. \A i \in Handle : i # registered + 1 =>
          /\ kind'[i] = kind[i] /\ fd'[i] = fd[i]
          /\ i \in Live' => i \in Live
          /\ i \in Live' /\ fd'[i] \notin fdopened \union {NoFd} => Unshared(i) /\ fd[i] # n
    BY <1>1 DEF TableInv, TypeTable, Live, Unshared, Bound
  <2>2. fd'[registered + 1] = n
    BY <1>1 DEF TableInv, TypeTable
  <2>3. fd'[g] \notin fdopened \union {NoFd} /\ fd'[h] \notin fdopened \union {NoFd}
    BY DEF Unshared
  <2>. QED  BY <2>0, <2>1, <2>2, <2>3 DEF TableInv, SoleOwner
<1>6. InheritedKept'
  BY DEF TableInv, TypeTable, InheritedKept, AsStarted, Initially, DescriptorAssumption
<1>. QED  BY <1>2, <1>3, <1>4, <1>5, <1>6 DEF TableInv

\* A descriptor is opened or duplicated, and no handle is made for it.
LEMMA OpenedKeepsTable ==
  ASSUME TableInv, DescriptorAssumption, NEW n \in Fd, NEW v \in Nat,
         fdTable[n] = NoFile, fdTable' = [fdTable EXCEPT ![n] = v], files' \in Nat,
         UNCHANGED <<handles, fdopened, phase>>
  PROVE  TableInv'
<1>1. TypeTable'
  BY DEF TableInv, TypeTable, handles
<1>2. Fresh' /\ Live' = Live /\ \A h \in Handle : Unshared(h)' <=> Unshared(h)
  BY DEF TableInv, Fresh, Live, Unshared, handles
<1>3. Bound'
  BY <1>2 DEF TableInv, TypeTable, Bound, Unshared, Live, handles
<1>4. SoleOwner'
  BY <1>2 DEF TableInv, SoleOwner, Unshared, Live, handles
<1>5. InheritedKept'
  BY DEF TableInv, TypeTable, InheritedKept, AsStarted, Initially, DescriptorAssumption
<1>. QED  BY <1>1, <1>2, <1>3, <1>4, <1>5 DEF TableInv

\* A handle is made for a number that fdopened holds from now on, or for the
\* result of a failed fcntl(F_DUPFD): it is not unshared, and changes nothing
\* for the others.
LEMMA SharedKeepsTable ==
  ASSUME TableInv, DescriptorAssumption,
         NEW n \in Fd \union {NoFd}, NEW returned \in BOOLEAN,
         Register("fd", n, returned), UNCHANGED <<table, phase>>,
         fdopened \subseteq fdopened', fdopened' \subseteq Fd,
         n \in fdopened' \union {NoFd}
  PROVE  TableInv'
<1> DEFINE f == IF n = NoFd THEN NoFile ELSE fdTable[n]
<1>1. /\ registered + 1 \in Handle
      /\ kind' = [kind EXCEPT ![registered + 1] = "fd"]
      /\ fd' = [fd EXCEPT ![registered + 1] = n]
      /\ file' = [file EXCEPT ![registered + 1] = f]
      /\ f \in Nat
      /\ registered' = registered + 1
      /\ fdTable' = fdTable /\ files' = files
  BY DEF TableInv, TypeTable, Register, DescriptorAssumption, table
<1>. HIDE DEF f
<1>2. TypeTable'
  BY <1>1 DEF TableInv, TypeTable, Register, DescriptorAssumption
<1>3. Fresh'
  BY <1>1 DEF TableInv, TypeTable, Fresh, DescriptorAssumption
<1>4. \A h \in Handle : Unshared(h)' =>
        Unshared(h) /\ h # registered + 1 /\ fd'[h] = fd[h] /\ file'[h] = file[h]
  BY <1>1 DEF TableInv, TypeTable, Unshared, Live
<1>5. Bound'
  BY <1>1, <1>4 DEF TableInv, Bound
<1>6. \A g \in Live', h \in Live' :
        Unshared(g)' /\ fd'[g] = fd'[h] => h \in Live /\ fd'[h] = fd[h]
  BY <1>1 DEF TableInv, TypeTable, Unshared, Live
<1>7. SoleOwner'
  BY <1>4, <1>6 DEF TableInv, SoleOwner, Unshared, Live
<1>8. InheritedKept'
  BY <1>1 DEF TableInv, InheritedKept, AsStarted
<1>. QED  BY <1>2, <1>3, <1>5, <1>7, <1>8 DEF TableInv

\* A live handle is destroyed.  If it is unshared, its descriptor was its own;
\* if not, its number is one no unshared handle stores.
LEMMA DestroyedKeepsTable ==
  ASSUME TableInv, DescriptorAssumption, NEW h \in Live, Destroy(h),
         UNCHANGED <<registered, fd, file, fdopened, phase>>,
         reach' \subseteq reach
  PROVE  TableInv'
<1>1. /\ h \in Handle
      /\ kind' = [kind EXCEPT ![h] = "closed"]
      /\ files' = files
      /\ fdTable' \in [Fd -> Nat]
      /\ \A n \in Fd : n # fd[h] => fdTable'[n] = fdTable[n]
  BY DEF TableInv, TypeTable, Live, Destroy, CloseFd, IsOpen
<1>2. TypeTable'
  BY <1>1 DEF TableInv, TypeTable
<1>3. h <= registered
  BY <1>1 DEF TableInv, TypeTable, Fresh, Live
<1>4. Fresh'
  BY <1>1, <1>3 DEF TableInv, TypeTable, Fresh
<1>5. Live' = Live \ {h}
  BY <1>1 DEF TableInv, TypeTable, Live
<1>6. \A g \in Handle : Unshared(g)' => /\ Unshared(g) /\ fd[g] # fd[h] /\ fd[g] \in Fd
  BY <1>1, <1>5 DEF TableInv, TypeTable, Unshared, SoleOwner
<1>7. Bound'
  BY <1>1, <1>6 DEF TableInv, Bound
<1>8. SoleOwner'
  BY <1>5, <1>6 DEF TableInv, SoleOwner, Unshared, Live
<1>9. InheritedKept'
  <2> SUFFICES ASSUME NEW n \in Inherited \ fdopened
               PROVE  fdTable'[n] = Initially(n)
    BY DEF InheritedKept, AsStarted, Initially
  <2>1. CASE n = fd[h]
    <3>1. Unshared(h)
      BY <2>1 DEF Unshared, DescriptorAssumption
    <3>. QED  BY <3>1, <2>1, <1>1 DEF TableInv, Bound
  <2>2. CASE n # fd[h]
    BY <2>2, <1>1 DEF TableInv, InheritedKept, AsStarted, DescriptorAssumption
  <2>. QED  BY <2>1, <2>2
<1>. QED  BY <1>2, <1>4, <1>7, <1>8, <1>9 DEF TableInv

LEMMA InitTable == DescriptorAssumption /\ Init => TableInv
  BY DEF DescriptorAssumption, Init, TableInv, TypeTable, Fresh, Bound, SoleOwner,
         InheritedKept, AsStarted, Initially, Unshared, Live

LEMMA LowestIsFree ==
  ASSUME NEW n \in Fd, NEW m, LowestFree(n, m)
  PROVE  fdTable[n] = NoFile
BY DEF LowestFree, FreeFrom

\* open(), and what is then made of the descriptor.
LEMMA OpenStep ==
  ASSUME TableInv, DescriptorAssumption, NEW n \in Fd, OpenAs(n),
         NEW k \in LiveKind, Register(k, n, TRUE) \/ UNCHANGED handles,
         UNCHANGED <<fdopened, phase>>
  PROVE  TableInv'
<1>1. /\ files + 1 \in Nat \ {0}
      /\ fdTable[n] = NoFile
      /\ fdTable' = [fdTable EXCEPT ![n] = files + 1]
      /\ files' \in Nat
  BY LowestIsFree DEF TableInv, TypeTable, OpenAs
<1>2. CASE Register(k, n, TRUE)
  BY <1>1, <1>2, WrappedKeepsTable
<1>3. CASE UNCHANGED handles
  BY <1>1, <1>3, OpenedKeepsTable
<1>. QED  BY <1>2, <1>3

\* dup() or fcntl(F_DUPFD) of a legacy handle's descriptor.
LEMMA DuplicateStep ==
  ASSUME TableInv, DescriptorAssumption, NEW n \in Fd, NEW o, IsOpen(o), NEW m,
         DuplicateAs(n, o, m), NEW returned \in BOOLEAN, Wrap(n, returned)
  PROVE  TableInv'
<1>1. /\ fdTable[o] \in Nat \ {0}
      /\ fdTable[n] = NoFile
      /\ fdTable' = [fdTable EXCEPT ![n] = fdTable[o]]
      /\ files' \in Nat
  BY LowestIsFree DEF TableInv, TypeTable, DuplicateAs, IsOpen
<1>2. CASE Register("fd", n, returned)
  BY <1>1, <1>2, WrappedKeepsTable DEF Wrap
<1>3. CASE UNCHANGED handles
  BY <1>1, <1>3, OpenedKeepsTable DEF Wrap
<1>. QED  BY <1>2, <1>3 DEF Wrap

LEMMA SameTable ==
  ASSUME TableInv, UNCHANGED <<table, handles, fdopened, phase>>
  PROVE  TableInv'
BY DEF TableInv, TypeTable, Fresh, Bound, SoleOwner, InheritedKept, AsStarted, Unshared, Live,
       table, handles

LEMMA LegacyKeepsTable ==
  ASSUME TableInv, DescriptorAssumption, Legacy
  PROVE  TableInv'
<1>1. CASE dio_open
  BY <1>1, OpenStep DEF dio_open, Wrap
<1>2. ASSUME NEW lfd \in FdopenNumbers, dio_fdopen(lfd)
      PROVE  TableInv'
  <2>1. AsInt(lfd) \in Fd
    BY <1>2 DEF dio_fdopen, IsOpen
  <2>2. fdopened \subseteq Fd
    BY DEF TableInv, TypeTable
  <2>. QED  BY <1>2, <2>1, <2>2, SharedKeepsTable DEF dio_fdopen, table
<1>3. ASSUME NEW h \in Handle, dio_dup(h)
      PROVE  TableInv'
  BY <1>3, DuplicateStep DEF dio_dup
<1>4. ASSUME NEW h \in Handle, dio_close(h)
      PROVE  TableInv'
  BY <1>4, DestroyedKeepsTable DEF dio_close, Fetch, Live
<1>5. ASSUME NEW h \in Handle, NEW m \in Fd, dio_fcntl_dupfd(h, m)
      PROVE  TableInv'
  <2>1. CASE \E n \in Fd : IsOpen(fd[h]) /\ DuplicateAs(n, fd[h], m) /\ Wrap(n, FALSE)
    BY <2>1, DuplicateStep
  <2>2. CASE UNCHANGED table /\ Wrap(NoFd, FALSE)
    <3>1. CASE Register("fd", NoFd, FALSE)
      BY <2>2, <3>1, SharedKeepsTable DEF Wrap, TableInv, TypeTable
    <3>2. CASE UNCHANGED handles
      BY <2>2, <3>2, SameTable DEF Wrap
    <3>. QED  BY <2>2, <3>1, <3>2 DEF Wrap
  <2>. QED  BY <1>5, <2>1, <2>2 DEF dio_fcntl_dupfd
<1>6. ASSUME NEW h \in Handle, NEW m \in Fd, dio_fcntl_default(h, m)
      PROVE  TableInv'
  <2>1. PICK n \in Fd : IsOpen(fd[h]) /\ DuplicateAs(n, fd[h], m)
    BY <1>6 DEF dio_fcntl_default
  <2>2. /\ fdTable[n] = NoFile
        /\ fdTable' = [fdTable EXCEPT ![n] = fdTable[fd[h]]]
        /\ fdTable[fd[h]] \in Nat /\ files' \in Nat
    BY <2>1, LowestIsFree DEF TableInv, TypeTable, DuplicateAs, IsOpen
  <2>. QED  BY <1>6, <2>2, OpenedKeepsTable DEF dio_fcntl_default
<1>. QED  BY <1>1, <1>2, <1>3, <1>4, <1>5, <1>6 DEF Legacy

LEMMA StreamsKeepTable ==
  ASSUME TableInv, DescriptorAssumption, Streams
  PROVE  TableInv'
<1>1. ASSUME NEW k \in StreamKind, StreamOpened(k)
      PROVE  TableInv'
  BY <1>1, OpenStep DEF StreamOpened
<1>2. CASE StreamNotAllocated
  BY <1>2, OpenStep DEF StreamNotAllocated, handles
<1>3. ASSUME NEW h \in Handle, fclose(h)
      PROVE  TableInv'
  BY <1>3, DestroyedKeepsTable DEF fclose, Fetch, Live
<1>. QED  BY <1>1, <1>2, <1>3 DEF Streams

LEMMA WorkerKeepsTable ==
  ASSUME TableInv, Unreachable, DescriptorAssumption, Worker
  PROVE  TableInv'
<1>1. CASE OtherOpen
  BY <1>1, OpenStep DEF OtherOpen
<1>2. ASSUME NEW h \in Handle, Drop(h)
      PROVE  TableInv'
  <2>1. CASE h \in Live
    BY <1>2, <2>1, DestroyedKeepsTable DEF Drop
  <2>2. CASE h \notin Live
    BY <1>2, <2>2 DEF Drop, TableInv, TypeTable, Fresh, Bound, SoleOwner, InheritedKept, AsStarted,
                      Unshared, Live
  <2>. QED  BY <2>1, <2>2
<1>3. CASE BeginShutdown
  BY <1>3 DEF BeginShutdown, TableInv, TypeTable, Fresh, Bound, SoleOwner,
              InheritedKept, AsStarted, Unshared, Live
<1>4. CASE ShutdownClose
  BY <1>4, DestroyedKeepsTable DEF ShutdownClose
<1>5. CASE EndRequest
  <2>1. Live' = {}
    BY <1>5 DEF EndRequest, Live
  <2>2. TypeTable'
    <3>1. reach = {}
      BY <1>5 DEF EndRequest, Unreachable
    <3>. QED  BY <1>5, <3>1 DEF EndRequest, TableInv, TypeTable, DescriptorAssumption
  <2>. QED  BY <1>5, <2>1, <2>2 DEF EndRequest, TableInv, Fresh, Bound, SoleOwner,
                                   InheritedKept, AsStarted, Unshared
<1>6. CASE StartRequest
  BY <1>6 DEF StartRequest, TableInv, TypeTable, Fresh, Bound, SoleOwner,
              InheritedKept, AsStarted, Unshared, Live
<1>. QED  BY <1>1, <1>2, <1>3, <1>4, <1>5, <1>6 DEF Worker

LEMMA StepKeepsUnreachable ==
  ASSUME Unreachable, Next
  PROVE  Unreachable'
<1>1. CASE Legacy
  <2>1. phase' = phase /\ phase = "running"
    BY <1>1 DEF Legacy, dio_open, dio_fdopen, dio_dup, dio_close, dio_fcntl_dupfd,
                dio_fcntl_default, Wrap, Fetch
  <2>. QED  BY <2>1 DEF Unreachable
<1>2. CASE Streams
  <2>1. phase' = phase /\ phase = "running"
    BY <1>2 DEF Streams, StreamOpened, StreamNotAllocated, fclose, Fetch
  <2>. QED  BY <2>1 DEF Unreachable
<1>3. CASE Worker
  BY <1>3 DEF Worker, Unreachable, OtherOpen, Drop, BeginShutdown, ShutdownClose,
              EndRequest, StartRequest
<1>. QED  BY <1>1, <1>2, <1>3 DEF Next

-----------------------------------------------------------------------------
(* What a script can refer to: only a handle that is returned comes in.      *)

LEMMA RegisteredIsReached ==
  ASSUME TableInv, ReachInv, DescriptorAssumption, NEW k,
         NEW n \in Fd \union {NoFd}, NEW returned \in BOOLEAN, returned => n \in Fd,
         Register(k, n, returned)
  PROVE  ReachInv'
<1>1. /\ registered + 1 \in Handle
      /\ fd' = [fd EXCEPT ![registered + 1] = n]
      /\ reach \subseteq Handle \ {registered + 1}
      /\ reach' = IF returned THEN reach \union {registered + 1} ELSE reach
  BY DEF TableInv, TypeTable, Register, DescriptorAssumption
<1>. QED  BY <1>1 DEF TableInv, TypeTable, ReachInv

LEMMA FewerReached ==
  ASSUME ReachInv, fd' = fd, reach' \subseteq reach
  PROVE  ReachInv'
BY DEF ReachInv

LEMMA WrappedIsReached ==
  ASSUME TableInv, ReachInv, DescriptorAssumption,
         NEW n \in Fd \union {NoFd}, NEW returned \in BOOLEAN, returned => n \in Fd,
         Wrap(n, returned)
  PROVE  ReachInv'
<1>1. CASE Register("fd", n, returned)
  BY <1>1, RegisteredIsReached
<1>2. CASE UNCHANGED handles
  BY <1>2, FewerReached DEF handles
<1>. QED  BY <1>1, <1>2 DEF Wrap

LEMMA StepKeepsReached ==
  ASSUME TableInv, Unreachable, ReachInv, DescriptorAssumption, Next
  PROVE  ReachInv'
<1>1. CASE dio_open \/ \E h \in Handle : dio_dup(h)
  BY <1>1, WrappedIsReached DEF dio_open, dio_dup
<1>2. ASSUME NEW lfd \in FdopenNumbers, dio_fdopen(lfd)
      PROVE  ReachInv'
  <2>1. AsInt(lfd) \in Fd
    BY <1>2 DEF dio_fdopen, IsOpen
  <2>. QED  BY <1>2, <2>1, RegisteredIsReached DEF dio_fdopen
<1>3. ASSUME NEW h \in Handle, NEW m \in Fd, dio_fcntl_dupfd(h, m)
      PROVE  ReachInv'
  BY <1>3, WrappedIsReached DEF dio_fcntl_dupfd
<1>4. ASSUME NEW k \in LiveKind, NEW n \in Fd, Register(k, n, TRUE)
      PROVE  ReachInv'
  BY <1>4, RegisteredIsReached
<1>5. CASE OtherOpen \/ \E k \in StreamKind : StreamOpened(k)
  <2>1. \E k \in LiveKind, n \in Fd : Register(k, n, TRUE)
    BY <1>5 DEF OtherOpen, StreamOpened
  <2>. QED  BY <2>1, <1>4
<1>6. CASE \/ \E h \in Handle : dio_close(h) \/ fclose(h) \/ Drop(h)
           \/ \E h \in Handle, m \in Fd : dio_fcntl_default(h, m)
           \/ StreamNotAllocated \/ BeginShutdown \/ ShutdownClose \/ StartRequest
  <2>1. fd' = fd /\ reach' \subseteq reach
    BY <1>6 DEF dio_close, fclose, Drop, dio_fcntl_default, StreamNotAllocated, BeginShutdown,
                ShutdownClose, StartRequest, handles
  <2>. QED  BY <2>1, FewerReached
<1>7. CASE EndRequest
  BY <1>7 DEF EndRequest, Unreachable, ReachInv
<1>. QED  BY <1>1, <1>2, <1>3, <1>5, <1>6, <1>7 DEF Next, Legacy, Streams, Worker

-----------------------------------------------------------------------------
(* Leaks: every descriptor has a handle, or is one that never had one.       *)

\* A descriptor that n may have been is open, and a handle was made for it.
LEMMA RegisteredHasOwner ==
  ASSUME TableInv, LeakInv, DescriptorAssumption, phase = "running", phase' = phase,
         NEW n \in Fd \union {NoFd}, NEW k \in LiveKind, NEW returned,
         Register(k, n, returned), fdopened \subseteq fdopened', ownerless' = ownerless,
         \A i \in Fd : i # n => fdTable'[i] = fdTable[i]
  PROVE  LeakInv'
<1>1. /\ registered + 1 \in Handle
      /\ kind' = [kind EXCEPT ![registered + 1] = k]
      /\ fd' = [fd EXCEPT ![registered + 1] = n]
      /\ kind[registered + 1] = "none"
  BY DEF TableInv, TypeTable, Fresh, Register, DescriptorAssumption
<1>2. registered + 1 \in Live' /\ fd'[registered + 1] = n
  BY <1>1 DEF TableInv, TypeTable, Live
<1>3. \A h \in Live : h \in Live' /\ fd'[h] = fd[h]
  BY <1>1 DEF TableInv, TypeTable, Live
<1>. QED  BY <1>2, <1>3 DEF LeakInv, NoOrphan, Idle

\* A descriptor that n may have been is left open, and counted as ownerless.
LEMMA LeftOpen ==
  ASSUME LeakInv, NEW n, UNCHANGED <<kind, fd, fdopened, phase>>,
         ownerless \subseteq ownerless', ownerless' \subseteq Fd, n \in ownerless' \union {NoFd},
         \A i \in Fd : i # n => fdTable'[i] = fdTable[i]
  PROVE  LeakInv'
BY DEF LeakInv, NoOrphan, Idle, Live

\* new_php_fd() and its caller make a handle for n, or leave n open.
LEMMA WrappedHasOwner ==
  ASSUME TableInv, LeakInv, DescriptorAssumption, phase = "running",
         NEW n \in Fd \union {NoFd}, NEW returned, Wrap(n, returned),
         \A i \in Fd : i # n => fdTable'[i] = fdTable[i]
  PROVE  LeakInv'
<1>1. CASE Register("fd", n, returned) /\ UNCHANGED ownerless
  BY <1>1, RegisteredHasOwner DEF Wrap
<1>2. CASE UNCHANGED handles /\ LeaveOpen({n} \ {NoFd})
  <2>1. ownerless' = ownerless \union ({n} \ {NoFd}) /\ ownerless \subseteq Fd
    BY <1>2 DEF LeaveOpen, LeakInv
  <2>2. UNCHANGED <<kind, fd, fdopened, phase>>
    BY <1>2 DEF handles, Wrap
  <2>. QED  BY <2>1, <2>2, LeftOpen
<1>. QED  BY <1>1, <1>2 DEF Wrap

LEMMA OnlyOneChanges ==
  ASSUME TableInv, NEW n \in Fd, OpenAs(n) \/ \E o, m : DuplicateAs(n, o, m)
  PROVE  \A i \in Fd : i # n => fdTable'[i] = fdTable[i]
BY DEF TableInv, TypeTable, OpenAs, DuplicateAs

\* A descriptor is opened or duplicated, and no handle is made for it.
LEMMA GivenToNobody ==
  ASSUME TableInv, LeakInv, NEW n \in Fd, OpenAs(n) \/ \E o, m : DuplicateAs(n, o, m),
         LeaveOpen({n}), UNCHANGED <<handles, fdopened, phase>>
  PROVE  LeakInv'
<1>1. ownerless' = ownerless \union {n} /\ ownerless \subseteq Fd
  BY DEF LeaveOpen, LeakInv
<1>2. UNCHANGED <<kind, fd, fdopened, phase>>
  BY DEF handles
<1>. QED  BY <1>1, <1>2, LeftOpen, OnlyOneChanges

LEMMA DestroyedHasNoOrphan ==
  ASSUME TableInv, LeakInv, DescriptorAssumption, NEW h \in Live, Destroy(h),
         UNCHANGED <<fd, fdopened, ownerless, phase>>
  PROVE  LeakInv'
<1>1. Live' = Live \ {h}
  BY DEF TableInv, TypeTable, Destroy, Live
<1>2. \A n \in Fd : fdTable'[n] # NoFile => fdTable'[n] = fdTable[n] /\ n # fd[h]
  BY DEF TableInv, TypeTable, Destroy, CloseFd, IsOpen
<1>. QED  BY <1>1, <1>2 DEF LeakInv, NoOrphan, Idle

LEMMA SameLeak ==
  ASSUME LeakInv, UNCHANGED <<fdTable, kind, fd, fdopened, ownerless>>,
         phase' = phase \/ phase' = "running"
  PROVE  LeakInv'
BY DEF LeakInv, NoOrphan, Idle, Live

LEMMA LegacyLeavesNoOrphan ==
  ASSUME TableInv, LeakInv, DescriptorAssumption, Legacy
  PROVE  LeakInv'
<1>1. CASE dio_open
  BY <1>1, WrappedHasOwner, OnlyOneChanges DEF dio_open
<1>2. ASSUME NEW lfd \in FdopenNumbers, dio_fdopen(lfd)
      PROVE  LeakInv'
  BY <1>2, RegisteredHasOwner DEF dio_fdopen, IsOpen, table
<1>3. ASSUME NEW h \in Handle, dio_dup(h)
      PROVE  LeakInv'
  BY <1>3, WrappedHasOwner, OnlyOneChanges DEF dio_dup, Fetch
<1>4. ASSUME NEW h \in Handle, dio_close(h)
      PROVE  LeakInv'
  BY <1>4, DestroyedHasNoOrphan DEF dio_close, Fetch, Live
<1>5. ASSUME NEW h \in Handle, NEW m \in Fd, dio_fcntl_dupfd(h, m)
      PROVE  LeakInv'
  <2>1. CASE \E n \in Fd : IsOpen(fd[h]) /\ DuplicateAs(n, fd[h], m) /\ Wrap(n, FALSE)
    BY <1>5, <2>1, WrappedHasOwner, OnlyOneChanges DEF dio_fcntl_dupfd, Fetch
  <2>2. CASE UNCHANGED table /\ Wrap(NoFd, FALSE)
    BY <1>5, <2>2, WrappedHasOwner DEF dio_fcntl_dupfd, Fetch, table
  <2>. QED  BY <1>5, <2>1, <2>2 DEF dio_fcntl_dupfd
<1>6. ASSUME NEW h \in Handle, NEW m \in Fd, dio_fcntl_default(h, m)
      PROVE  LeakInv'
  <2>1. PICK n \in Fd : DuplicateAs(n, fd[h], m) /\ LeaveOpen({n})
    BY <1>6 DEF dio_fcntl_default
  <2>. QED  BY <1>6, <2>1, GivenToNobody DEF dio_fcntl_default
<1>. QED  BY <1>1, <1>2, <1>3, <1>4, <1>5, <1>6 DEF Legacy

LEMMA StreamsLeaveNoOrphan ==
  ASSUME TableInv, LeakInv, DescriptorAssumption, Streams
  PROVE  LeakInv'
<1>1. ASSUME NEW k \in StreamKind, StreamOpened(k)
      PROVE  LeakInv'
  BY <1>1, RegisteredHasOwner, OnlyOneChanges DEF StreamOpened
<1>2. CASE StreamNotAllocated
  <2>1. PICK n \in Fd : OpenAs(n) /\ LeaveOpen({n})
    BY <1>2 DEF StreamNotAllocated
  <2>. QED  BY <1>2, <2>1, GivenToNobody DEF StreamNotAllocated
<1>3. ASSUME NEW h \in Handle, fclose(h)
      PROVE  LeakInv'
  BY <1>3, DestroyedHasNoOrphan DEF fclose, Fetch, Live
<1>. QED  BY <1>1, <1>2, <1>3 DEF Streams

LEMMA WorkerLeavesNoOrphan ==
  ASSUME TableInv, LeakInv, DescriptorAssumption, Worker
  PROVE  LeakInv'
<1>1. CASE OtherOpen
  BY <1>1, RegisteredHasOwner, OnlyOneChanges DEF OtherOpen
<1>2. ASSUME NEW h \in Handle, Drop(h)
      PROVE  LeakInv'
  BY <1>2, DestroyedHasNoOrphan, SameLeak DEF Drop
<1>3. CASE BeginShutdown
  BY <1>3 DEF BeginShutdown, LeakInv, NoOrphan, Idle, Live
<1>4. CASE ShutdownClose
  BY <1>4, DestroyedHasNoOrphan DEF ShutdownClose
<1>5. CASE EndRequest
  BY <1>5 DEF EndRequest, LeakInv, NoOrphan, Idle, Live
<1>6. CASE StartRequest
  BY <1>6, SameLeak DEF StartRequest
<1>. QED  BY <1>1, <1>2, <1>3, <1>4, <1>5, <1>6 DEF Worker

-----------------------------------------------------------------------------
(* The invariant and what follows from it. *)

LEMMA InitIInv == DescriptorAssumption /\ Init => IInv
<1> SUFFICES ASSUME DescriptorAssumption, Init
             PROVE  IInv
  OBVIOUS
<1>1. ReachInv /\ Unreachable
  BY DEF Init, ReachInv, Unreachable
<1>2. LeakInv
  BY DEF Init, LeakInv, NoOrphan, Idle, Initially
<1>. QED  BY <1>1, <1>2, InitTable DEF IInv

LEMMA StepKeepsIInv == DescriptorAssumption /\ IInv /\ [Next]_vars => IInv'
<1> SUFFICES ASSUME DescriptorAssumption, IInv, [Next]_vars
             PROVE  IInv'
  OBVIOUS
<1>1. CASE Next
  <2>1. TableInv'
    BY <1>1, LegacyKeepsTable, StreamsKeepTable, WorkerKeepsTable DEF Next, IInv
  <2>2. ReachInv'
    BY <1>1, StepKeepsReached DEF IInv
  <2>3. LeakInv'
    BY <1>1, LegacyLeavesNoOrphan, StreamsLeaveNoOrphan, WorkerLeavesNoOrphan DEF Next, IInv
  <2>. QED  BY <1>1, <2>1, <2>2, <2>3, StepKeepsUnreachable DEF IInv
<1>2. CASE UNCHANGED vars
  BY <1>2, SameTable, FewerReached, SameLeak DEF vars, table, handles, IInv, Unreachable
<1>. QED  BY <1>1, <1>2

LEMMA SpecIInv == Spec => []IInv
  BY DescriptorAssumption, InitIInv, StepKeepsIInv, PTL DEF Spec

\* Every state of the worker has the types declared for it.
THEOREM TypeCorrect == Spec => []TypeOK
<1>1. IInv => TypeOK
  BY DEF IInv, TableInv, ReachInv, LeakInv, TypeTable, TypeOK
<1>. QED  BY <1>1, SpecIInv, PTL

\* dio's handles keep meaning the files they were made for, for any number of
\* descriptors, handles and requests and whichever allocations fail: only the
\* numbers given to dio_fdopen can come to mean something else.
THEOREM HandlesKeepTheirFiles == Spec => []AliasContainment
<1>1. IInv => AliasContainment
  BY DEF IInv, TableInv, Bound, AliasContainment
<1>. QED  BY <1>1, SpecIInv, PTL

\* No two live handles would close the same descriptor, dio_fdopen apart.
THEOREM DescriptorsHaveOneOwner == Spec => []SoleOwner
<1>1. IInv => SoleOwner
  BY DEF IInv, TableInv
<1>. QED  BY <1>1, SpecIInv, PTL

\* dio never closes a descriptor the worker itself owns, dio_fdopen apart.
THEOREM WorkerKeepsItsDescriptors == Spec => []InheritedKept
<1>1. IInv => InheritedKept
  BY DEF IInv, TableInv
<1>. QED  BY <1>1, SpecIInv, PTL

\* Every open descriptor that is not the worker's own has a live handle whose
\* destructor will close it, but for those dio_fdopen was given and those that
\* never had one: an allocation failed, or dio_fcntl returned the number.
THEOREM NothingIsOrphaned == Spec => []NoOrphan
<1>1. IInv => NoOrphan
  BY DEF IInv, LeakInv
<1>. QED  BY <1>1, SpecIInv, PTL

\* A request leaves to the next one the descriptor table the worker started
\* with, but for those same numbers.
THEOREM RequestsAreIsolated == Spec => []RequestIsolation
<1>1. IInv => RequestIsolation
  BY DEF IInv, TableInv, TypeTable, LeakInv, NoOrphan, Idle, InheritedKept, AsStarted,
         RequestIsolation, AsStarted, Initially
<1>. QED  BY <1>1, SpecIInv, PTL

-----------------------------------------------------------------------------
(* What the end of a request rests on: ShutdownReleases itself, which speaks *)
(* of what happens eventually, is left to the run.                           *)

\* A finite set of numbers that is not empty has a last one: of the sets of
\* those above each, one has no smaller one, and it is empty.
LEMMA LastOf ==
  ASSUME NEW T, T \subseteq Nat, IsFiniteSet(T), T # {}
  PROVE  \E h \in T : \A g \in T : g <= h
<1> DEFINE Above(h) == {g \in T : g > h}
           Aboves   == {Above(h) : h \in T}
<1>1. Aboves \subseteq FiniteSubsetsOf(T) /\ Aboves # {}
  <2>1. Aboves \subseteq SUBSET T
    OBVIOUS
  <2>2. Aboves # {}
    <3>. HIDE DEF Above
    <3>. QED  OBVIOUS
  <2>. HIDE DEF Aboves
  <2>. QED  BY <2>1, <2>2, FS_FiniteSubsetsOfFinite
<1>2. PICK U \in Aboves : \A V \in Aboves : <<V, U>> \notin StrictSubsetOrdering(T)
  <2>. HIDE DEF Aboves
  <2>. QED  BY <1>1, FS_StrictSubsetOrderingWellFounded, WFMin
<1>3. PICK h \in T : U = Above(h)
  BY <1>2
<1>4. ASSUME NEW g \in T, g > h PROVE FALSE
  <2>1. Above(g) \subseteq U /\ g \in U /\ g \notin Above(g)
    <3>1. g \in Nat /\ h \in Nat /\ \A i \in T : i > g => i > h
      BY <1>4
    <3>2. Above(g) \subseteq Above(h)
      BY <3>1, Zenon
    <3>3. g \in Above(h) /\ g \notin Above(g)
      BY <1>4, <3>1
    <3>. HIDE DEF Above
    <3>. QED  BY <1>3, <3>2, <3>3
  <2>2. Above(g) \in SUBSET T /\ U \in SUBSET T /\ Above(g) # U
    BY <1>3, <2>1
  <2>3. <<Above(g), U>> \in StrictSubsetOrdering(T)
    <3>. HIDE DEF Above
    <3>. QED  BY <2>1, <2>2 DEF StrictSubsetOrdering
  <2>. QED  BY <1>2, <2>3
<1>5. \A g \in T : g <= h
  <2>. HIDE DEF Above, Aboves
  <2>. QED  BY <1>4
<1>. QED  BY <1>5

\* While a request ends there is a last handle to destroy until there is none;
\* then nothing is open that the request opened, but for the same numbers.
ShutdownHasWork ==
  phase = "shutdown" =>
    \/ \E h \in Live : \A g \in Live : g <= h
    \/ Live = {} /\ \A n \in Fd \ (fdopened \union ownerless) : AsStarted(n)

\* A step in it destroys one handle, and nothing makes another one.
ShutdownShrinks ==
  [][phase = "shutdown" => IF phase' = "shutdown" THEN \E h \in Live : Live' = Live \ {h}
                                                  ELSE phase' = "idle" /\ Live = {}]_vars

\* The end of a request is never stuck, and comes nearer with every step, for
\* any number of handles and descriptors, and also when numbers were given to
\* dio_fdopen, are closed twice, or never had a handle.
THEOREM ShutdownComesToItsEnd == Spec => []ShutdownHasWork /\ ShutdownShrinks
<1>1. IInv => ShutdownHasWork
  <2> SUFFICES ASSUME IInv, phase = "shutdown"
               PROVE  \/ \E h \in Live : \A g \in Live : g <= h
                      \/ Live = {} /\ \A n \in Fd \ (fdopened \union ownerless) : AsStarted(n)
    BY DEF ShutdownHasWork
  <2>1. IsFiniteSet(Handle) /\ Live \in SUBSET Handle /\ Handle \subseteq Nat
    BY FS_Interval, DescriptorAssumption DEF DescriptorAssumption, Live
  <2>2. CASE Live # {}
    <3>1. IsFiniteSet(Live) /\ Live \subseteq Nat
      BY <2>1, FS_Subset
    <3>. QED  BY <2>2, <3>1, LastOf
  <2>3. CASE Live = {}
    <3>1. \A n \in Fd \ (Inherited \union fdopened \union ownerless) : fdTable[n] = NoFile
      BY <2>3 DEF IInv, LeakInv, NoOrphan
    <3>2. \A n \in Inherited \ fdopened : AsStarted(n)
      BY DEF IInv, TableInv, InheritedKept
    <3>. QED  BY <2>3, <3>1, <3>2 DEF AsStarted, Initially
  <2>. QED  BY <2>2, <2>3
<1>2. ASSUME IInv, Next, phase = "shutdown"
      PROVE  IF phase' = "shutdown" THEN \E h \in Live : Live' = Live \ {h}
                                    ELSE phase' = "idle" /\ Live = {}
  <2>1. CASE ShutdownClose
    <3>1. PICK h \in Live : Destroy(h)
      BY <2>1 DEF ShutdownClose
    <3>2. Live' = Live \ {h}
      BY <1>2, <3>1 DEF IInv, TableInv, TypeTable, Destroy, Live
    <3>. QED  BY <1>2, <2>1, <3>2 DEF ShutdownClose
  <2>2. CASE EndRequest
    BY <2>2 DEF EndRequest
  <2>3. ASSUME Legacy \/ Streams \/ OtherOpen \/ (\E h \in Handle : Drop(h))
               \/ BeginShutdown \/ StartRequest
        PROVE  FALSE
    BY <1>2, <2>3 DEF Legacy, dio_open, dio_fdopen, dio_dup, dio_close, dio_fcntl_dupfd,
       dio_fcntl_default, Fetch, Streams, StreamOpened, StreamNotAllocated, fclose, OtherOpen, Drop,
       BeginShutdown, StartRequest
  <2>. QED  BY <1>2, <2>1, <2>2, <2>3 DEF Next, Worker
<1>3. IInv /\ [Next]_vars =>
        [phase = "shutdown" => IF phase' = "shutdown" THEN \E h \in Live : Live' = Live \ {h}
                                                      ELSE phase' = "idle" /\ Live = {}]_vars
  BY <1>2
<1>4. Spec => []ShutdownHasWork
  BY <1>1, SpecIInv, PTL
<1>5. Spec => ShutdownShrinks
  BY <1>3, SpecIInv, PTL DEF Spec, ShutdownShrinks
<1>. QED  BY <1>4, <1>5

=============================================================================
