---------------------------- MODULE DioOpenModes ----------------------------
(***************************************************************************)
(* What the mode and the basic options of a stream make of open() on POSIX *)
(* and of CreateFile() on Windows, and what the flags that were kept make  *)
(* of a later flush.  Flags are sets of bits; O_RDONLY is none.  The mode  *)
(* is a sequence of characters, without the file permissions: open() is    *)
(* called without any if the script gave none.                             *)
(***************************************************************************)
EXTENDS DioOptions, Sequences

O_RDONLY == {}
O_WRONLY == {"WRONLY"}
O_RDWR   == {"RDWR"}

-----------------------------------------------------------------------------
(* POSIX *)

\* What the first letter says; a letter that is none of these says nothing.
Creation(letter) ==
  CASE letter = "w" -> {"TRUNC", "CREAT"}
    [] letter = "a" -> {"APPEND", "CREAT"}
    [] letter = "x" -> {"EXCL", "CREAT"}
    [] OTHER        -> {}

\* Mutant of dio_stream_mode_to_flags: a mode that creates is for writing only.
WritesBeforePlus(mode) ==
  LET flags == Creation(mode[1])
  IN  flags \union (IF flags # {} THEN O_WRONLY
                    ELSE IF Len(mode) > 1 /\ mode[2] = "+" THEN O_RDWR
                    ELSE O_RDONLY)

\* A plus counts right behind the first letter only.
dio_stream_mode_to_flags(mode) ==
  LET flags == Creation(mode[1])
  IN  flags \union (IF Len(mode) > 1 /\ mode[2] = "+" THEN O_RDWR
                    ELSE IF flags # {} THEN O_WRONLY
                    ELSE O_RDONLY)

\* The flags of dio_raw_open_stream(), which replace what the stream's flags
\* held: the O_NOCTTY of dio_serial_open_stream() too.
OpenFlags(mode, data) ==
  dio_stream_mode_to_flags(mode) \union
    (IF ~data.is_blocking \/ data.has_timeout THEN {"NONBLOCK"} ELSE {})

\* A call that opens nothing.
Refused(file) ==
  [ok |-> FALSE, file |-> file, reads |-> FALSE, writes |-> FALSE, appends |-> FALSE]

\* open() of a file that is absent, empty or has data: what becomes of the file,
\* what the descriptor may do, and whether its writes go to the end of the file
\* or to where the file offset is, which starts at 0.
Open(flags, file) ==
  IF (file = "absent" /\ "CREAT" \notin flags) \/ (file # "absent" /\ "EXCL" \in flags)
  THEN Refused(file)
  ELSE [ok      |-> TRUE,
        file    |-> IF file = "absent" \/ "TRUNC" \in flags THEN "empty" ELSE file,
        reads   |-> "WRONLY" \notin flags,
        writes  |-> flags \intersect (O_WRONLY \union O_RDWR) # {},
        appends |-> "APPEND" \in flags]

\* Mutant of PurgedQueues: the first test is the one that is always true.
ReadOnlyFirst(flags) ==
  IF O_RDONLY \subseteq flags THEN {"input"}
  ELSE IF O_RDWR \subseteq flags THEN {"input", "output"}
  ELSE {"output"}

\* dio_serial_purge(): the tests, in their order; the last is always true.
PurgedQueues(flags) ==
  IF O_RDWR \subseteq flags THEN {"input", "output"}
  ELSE IF O_WRONLY \subseteq flags THEN {"output"}
  ELSE {"input"}

-----------------------------------------------------------------------------
(* Windows *)

\* What the letter says; CreateFile() refuses the 0 of any other letter.
creation_disposition(mode) ==
  CASE mode[1] = "r" -> "OPEN_EXISTING"
    [] mode[1] = "w" -> "TRUNCATE_EXISTING"
    [] mode[1] = "a" -> "OPEN_ALWAYS"
    [] mode[1] = "x" -> "CREATE_NEW"
    [] OTHER         -> "0"

\* One letter between the first one and a plus is skipped.
desired_access(mode) ==
  LET at == IF Len(mode) > 1 /\ mode[2] # "+" THEN 3 ELSE 2
  IN  IF Len(mode) >= at /\ mode[at] = "+" THEN {"read", "write"}
      ELSE IF creation_disposition(mode) = "OPEN_EXISTING" THEN {"read"}
      ELSE {"write"}

\* Without FILE_APPEND_DATA, and with GENERIC_WRITE, no handle appends.
CreateFile(access, disposition, file) ==
  IF \/ disposition = "0"
     \/ file = "absent" /\ disposition \in {"OPEN_EXISTING", "TRUNCATE_EXISTING"}
     \/ file # "absent" /\ disposition = "CREATE_NEW"
  THEN Refused(file)
  ELSE [ok      |-> TRUE,
        file    |-> IF file = "absent" \/ disposition \in {"TRUNCATE_EXISTING", "CREATE_ALWAYS"}
                    THEN "empty" ELSE file,
        reads   |-> "read" \in access,
        writes  |-> "write" \in access,
        appends |-> FALSE]

\* Mutant of dio_raw_open_stream: a missing file is not created.
OpenOnce(mode, file) ==
  CreateFile(desired_access(mode), creation_disposition(mode), file)

\* A file that could not be truncated because it is absent is created.
dio_raw_open_stream(mode, file) ==
  LET first == CreateFile(desired_access(mode), creation_disposition(mode), file)
  IN  IF ~first.ok /\ file = "absent" /\ creation_disposition(mode) = "TRUNCATE_EXISTING"
      THEN CreateFile(desired_access(mode), "CREATE_ALWAYS", file)
      ELSE first

-----------------------------------------------------------------------------
(* The modes of fopen(): a letter, and behind it a plus and b or t in either *)
(* order.                                                                    *)

Modes ==
  {<<l>> \o rest : l \in {"r", "w", "a", "x"},
                   rest \in {<<>>, <<"b">>, <<"t">>, <<"+">>, <<"+", "b">>, <<"+", "t">>,
                             <<"b", "+">>, <<"t", "+">>}}

HasPlus(mode) == \E i \in 1 .. Len(mode) : mode[i] = "+"

\* What fopen() does with a file.
Fopen(mode, file) ==
  IF (mode[1] = "r" /\ file = "absent") \/ (mode[1] = "x" /\ file # "absent")
  THEN Refused(file)
  ELSE [ok      |-> TRUE,
        file    |-> IF mode[1] = "w" \/ file = "absent" THEN "empty" ELSE file,
        reads   |-> mode[1] = "r" \/ HasPlus(mode),
        writes  |-> mode[1] # "r" \/ HasPlus(mode),
        appends |-> mode[1] = "a"]
=============================================================================
