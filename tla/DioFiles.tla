------------------------------ MODULE DioFiles ------------------------------
(***************************************************************************)
(* The legacy functions on one regular file: dio_read(), dio_write(),      *)
(* dio_seek(), dio_truncate(), and F_SETFL of dio_fcntl().  The extension  *)
(* keeps no state for them.  The offset and O_APPEND are the kernel's and  *)
(* belong to an open file description, which every duplicate of a          *)
(* resource shares, those of a forked process too; the length is the       *)
(* file's.  Bytes are counted, not named.                                  *)
(***************************************************************************)
EXTENDS Integers

CONSTANTS
  Handle,     \* resources that may be open on the file at a time
  Process,    \* the PHP processes
  Owner,      \* the process each resource belongs to
  Desc,       \* open file descriptions
  NoDesc,     \* what a resource that is not open refers to
  Counts,     \* the lengths of strings to write, the counts of reads
  Positions,  \* the offsets that dio_seek() and dio_truncate() are given
  MaxOffset   \* bound: the largest size of a file

ASSUME FilesAssumption ==
  /\ Owner \in [Handle -> Process]
  /\ NoDesc \notin Desc
  /\ Counts \subseteq Nat \ {0}
  /\ Positions \subseteq Int
  /\ MaxOffset \in Nat

VARIABLES
  desc,    \* the description each resource refers to
  offset,  \* kernel: the file offset of each description
  append,  \* kernel: whether it has O_APPEND
  length   \* kernel: the size of the file

files == <<desc, offset, append, length>>

Whence == {"SEEK_SET", "SEEK_CUR", "SEEK_END"}
Place  == 0 .. MaxOffset

IsOpen(h) == desc[h] # NoDesc
Used      == {desc[h] : h \in Handle} \ {NoDesc}

\* Where an offset counts from.
Base(h, whence) ==
  CASE whence = "SEEK_SET" -> 0
    [] whence = "SEEK_CUR" -> offset[desc[h]]
    [] whence = "SEEK_END" -> length

FilesInit ==
  /\ desc = [h \in Handle |-> NoDesc]
  /\ offset = [d \in Desc |-> 0]
  /\ append = [d \in Desc |-> FALSE]
  /\ length \in Place

-----------------------------------------------------------------------------
(* A call that fails before it changed anything is a stuttering step.        *)

\* open() makes a new description; O_TRUNC empties the file for everyone.
Open(h, toAppend, truncated) ==
  /\ ~IsOpen(h)
  /\ \E d \in Desc \ Used :
       /\ desc' = [desc EXCEPT ![h] = d]
       /\ offset' = [offset EXCEPT ![d] = 0]
       /\ append' = [append EXCEPT ![d] = toAppend]
  /\ length' = IF truncated THEN 0 ELSE length

\* dup(), and F_DUPFD, share the description.
Duplicate(h, g) ==
  /\ IsOpen(h) /\ ~IsOpen(g)
  /\ desc' = [desc EXCEPT ![g] = desc[h]]
  /\ UNCHANGED <<offset, append, length>>

\* dio_dup(), of a process's own resource.
Dup(h, g) == Owner[h] = Owner[g] /\ Duplicate(h, g)

\* A forked process has duplicates of its parent's resources.
Inherit(h, g) == Owner[h] # Owner[g] /\ Duplicate(h, g)

\* read() on a file gets all there is up to n bytes.
Read(h, n) ==
  /\ IsOpen(h)
  /\ LET at == offset[desc[h]]
     IN  /\ at < length
         /\ offset' = [offset EXCEPT ![desc[h]] =
                         IF at + n < length THEN at + n ELSE length]
  /\ UNCHANGED <<desc, append, length>>

\* A third argument of 0, which is its default, is the whole string.
Asked(n, truncLen) == IF truncLen = 0 THEN n ELSE truncLen

\* write() may write less than it is asked to: nothing is written past the
\* largest size of a file.
Write(h, n, truncLen) ==
  /\ IsOpen(h) /\ truncLen <= n
  /\ LET at == IF append[desc[h]] THEN length ELSE offset[desc[h]]
     IN  \E k \in 1 .. Asked(n, truncLen) :
           /\ at + k <= MaxOffset
           /\ offset' = [offset EXCEPT ![desc[h]] = at + k]
           /\ length' = IF at + k > length THEN at + k ELSE length
  /\ UNCHANGED <<desc, append>>

\* ftruncate() moves no offset, also of descriptions that are now past the end.
Truncate(h, n) ==
  /\ IsOpen(h)
  /\ n \in Place
  /\ length' = n
  /\ UNCHANGED <<desc, offset, append>>

\* Mutant of Seek: only an absolute place is looked at.
SeekUnchecked(h, n, whence) ==
  /\ IsOpen(h)
  /\ whence = "SEEK_SET" => n \in Place
  /\ offset' = [offset EXCEPT ![desc[h]] = Base(h, whence) + n]
  /\ UNCHANGED <<desc, append, length>>

\* lseek() refuses a place before the start, and allows one past the end.
Seek(h, n, whence) ==
  /\ IsOpen(h)
  /\ Base(h, whence) + n \in Place
  /\ offset' = [offset EXCEPT ![desc[h]] = Base(h, whence) + n]
  /\ UNCHANGED <<desc, append, length>>

\* dio_fcntl() hands all other commands to fcntl().  Of those, F_SETFL alone
\* changes what is modelled here: it replaces the flags of the description,
\* O_APPEND among them.  (F_DUPFD_CLOEXEC is in DioDescriptors.)
SetFlags(h, toAppend) ==
  /\ IsOpen(h)
  /\ append' = [append EXCEPT ![desc[h]] = toAppend]
  /\ UNCHANGED <<desc, offset, length>>

\* dio_close() and the destructor of a resource.  The last close of a
\* description frees it.
Close(h) ==
  LET last == \A g \in Handle \ {h} : desc[g] # desc[h]
  IN  /\ IsOpen(h)
      /\ desc' = [desc EXCEPT ![h] = NoDesc]
      /\ offset' = IF last THEN [offset EXCEPT ![desc[h]] = 0] ELSE offset
      /\ append' = IF last THEN [append EXCEPT ![desc[h]] = FALSE] ELSE append
      /\ UNCHANGED length

\* The kernel closes what a killed process had open.
CloseAll(p) ==
  LET left == {desc[h] : h \in {g \in Handle : Owner[g] # p}}
  IN  /\ desc' = [h \in Handle |-> IF Owner[h] = p THEN NoDesc ELSE desc[h]]
      /\ offset' = [d \in Desc |-> IF d \in left THEN offset[d] ELSE 0]
      /\ append' = [d \in Desc |-> d \in left /\ append[d]]
      /\ UNCHANGED length

\* The calls on h that move, cut or grow what others share.
FileCall(h) ==
  \/ \E n \in Counts : Read(h, n) \/ \E t \in Counts \union {0} : Write(h, n, t)
  \/ \E n \in Positions : Truncate(h, n) \/ \E w \in Whence : Seek(h, n, w)
  \/ \E a \in BOOLEAN : SetFlags(h, a)

FilesTypeOK ==
  /\ desc \in [Handle -> Desc \union {NoDesc}]
  /\ offset \in [Desc -> Place]
  /\ append \in [Desc -> BOOLEAN]
  /\ length \in Place

=============================================================================
