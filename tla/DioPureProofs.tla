---------------------------- MODULE DioPureProofs ----------------------------
(***************************************************************************)
(* What the run of DioPure shows for the inputs of an instance, for all    *)
(* normalised times, all fopen() modes and whatever options a script gives *)
(* and a port was set to.                                                  *)
(***************************************************************************)
EXTENDS DioPure, DioTimevalLemmas, SequenceTheorems, TLAPS

\* The inputs have their types, whichever of them an initial state chose; of
\* the options nothing is needed.
InputsOK ==
  /\ late \in Timeval /\ early \in Timeval
  /\ mode \in Modes /\ file \in Files
  /\ old.cflag \subseteq Bits

-----------------------------------------------------------------------------
(* Modes, as sequences of characters. *)

Letters == {"r", "w", "a", "x"}
Signs   == {"+", "b", "t"}

Rests == {<<>>, <<"b">>, <<"t">>, <<"+">>, <<"+", "b">>, <<"+", "t">>, <<"b", "+">>, <<"t", "+">>}

\* A mode begins with a letter; a plus, if there is one, comes right behind it
\* or behind one other character.
ModeOK(m) ==
  /\ m[1] \in Letters /\ Len(m) \in 1 .. 3
  /\ Len(m) = 1 \/ m[2] \in Signs
  /\ Len(m) = 3 => (m[2] = "+" /\ m[3] # "+") \/ (m[2] # "+" /\ m[3] = "+")

LEMMA RestShape ==
  ASSUME NEW r \in Rests
  PROVE  /\ r \in Seq(Letters \union Signs) /\ Len(r) \in 0 .. 2
         /\ Len(r) > 0 => r[1] \in Signs
         /\ Len(r) = 2 => (r[1] = "+" /\ r[2] # "+") \/ (r[1] # "+" /\ r[2] = "+")
  <1>1. CASE r = <<>>
    BY <1>1, EmptySeq
  <1>2. ASSUME NEW c \in Signs, r = <<c>>
        PROVE  r \in Seq(Letters \union Signs) /\ Len(r) = 1 /\ r[1] = c
    BY <1>2
  <1>3. ASSUME NEW c \in Signs, NEW d \in Signs, r = <<c, d>>
        PROVE  r \in Seq(Letters \union Signs) /\ Len(r) = 2 /\ r[1] = c /\ r[2] = d
    BY <1>3
  <1> QED BY <1>1, <1>2, <1>3 DEF Rests, Signs

LEMMA ModeShape ==
  ASSUME NEW m \in Modes
  PROVE  ModeOK(m)
  <1>1. PICK l \in Letters, r \in Rests : m = <<l>> \o r
    BY DEF Modes, Letters, Rests
  <1>2. <<l>> \in Seq(Letters \union Signs) /\ Len(<<l>>) = 1 /\ <<l>>[1] = l
    OBVIOUS
  <1>3. /\ Len(m) = 1 + Len(r)
        /\ \A i \in 1 .. 1 + Len(r) : m[i] = IF i <= 1 THEN l ELSE r[i - 1]
    <2> HIDE DEF Rests
    <2> QED BY <1>1, <1>2, RestShape, ConcatProperties
  <1>4. Len(m) \in 1 .. 3 /\ m[1] = l
    BY <1>3, RestShape
  <1>5. Len(m) > 1 => m[2] = r[1]
    BY <1>3, RestShape
  <1>6. Len(m) = 3 => m[3] = r[2]
    BY <1>3, RestShape
  <1> QED BY <1>3, <1>4, <1>5, <1>6, RestShape DEF ModeOK

LEMMA InputsAreValid == Spec => []InputsOK
  <1>1. ASSUME Init PROVE InputsOK
    <2>1. Zero \in Timeval
      <3>1. UsecPerSec \in Nat /\ UsecPerSec > 0
        BY SMT DEF UsecPerSec
      <3> QED BY <3>1 DEF Zero, Timeval
    <2>2. <<"r">> \in Modes
      <3>1. <<"r">> = <<"r">> \o <<>>
        BY ConcatEmptySeq
      <3> QED BY <3>1 DEF Modes
    <2>3. Times \subseteq Timeval
      BY PureAssumption DEF Times, Timeval
    <2>4. \A f \in Found : f.cflag \subseteq Bits
      BY PureAssumption
    <2>5. NoTimes => late \in Timeval /\ early \in Timeval
      BY <2>1 DEF NoTimes
    <2>6. NoOpening => mode \in Modes /\ file \in Files
      BY <2>2 DEF NoOpening, Files
    <2>7. NoSerial => old.cflag \subseteq Bits
      BY DEF NoSerial
    <2> QED BY <1>1, <2>3, <2>4, <2>5, <2>6, <2>7 DEF Init, InputsOK
  <1>2. InputsOK /\ [Next]_vars => InputsOK'
    BY DEF InputsOK, Next, vars
  <1> QED BY <1>1, <1>2, PTL DEF Spec

-----------------------------------------------------------------------------
(* The subtraction of times. *)

\* Of two normalised times the function gives the exact difference, itself
\* normalised, and zero if the first is the earlier.
THEOREM SubtractionIsExact == Spec => []DifferenceOrZero
  <1>1. late \in Timeval /\ early \in Timeval => DifferenceOrZero
    <2> SUFFICES ASSUME late \in Timeval, early \in Timeval
                 PROVE  DifferenceOrZero
      OBVIOUS
    <2>1. Zero \in Timeval /\ Micros(Zero) = 0
      <3>1. UsecPerSec \in Nat /\ UsecPerSec > 0
        BY SMT DEF UsecPerSec
      <3>. QED  BY <3>1 DEF Zero, Timeval, Micros
    <2>2. CASE Earlier(late, early)
      <3>1. dio_timeval_subtract(late, early) = [ret |-> 0, diff |-> Zero]
        BY <2>2 DEF dio_timeval_subtract
      <3>. QED  BY <2>1, <2>2, <3>1, EarlierIsLess DEF DifferenceOrZero
    <2>3. CASE ~Earlier(late, early)
      <3>1. dio_timeval_subtract(late, early) = [ret |-> 1, diff |-> Difference(late, early)]
        BY <2>3 DEF dio_timeval_subtract
      <3>. QED  BY <2>3, <3>1, EarlierIsLess, DifferenceIsExact DEF DifferenceOrZero
    <2>. QED  BY <2>2, <2>3
  <1>2. InputsOK => late \in Timeval /\ early \in Timeval
    BY DEF InputsOK
  <1>. QED  BY <1>1, <1>2, InputsAreValid, PTL

-----------------------------------------------------------------------------
(* Opening. *)

PlusBehindLetter(m) == Len(m) > 1 /\ m[2] = "+"

LEMMA FlagsOfMode ==
  ASSUME NEW m, ModeOK(m), NEW extra \in SUBSET {"NONBLOCK"}, NEW flags,
         flags = dio_stream_mode_to_flags(m) \union extra
  PROVE  /\ "CREAT" \in flags <=> m[1] # "r"
         /\ "EXCL" \in flags <=> m[1] = "x"
         /\ "TRUNC" \in flags <=> m[1] = "w"
         /\ "APPEND" \in flags <=> m[1] = "a"
         /\ "RDWR" \in flags <=> PlusBehindLetter(m)
         /\ "WRONLY" \in flags <=> m[1] # "r" /\ ~PlusBehindLetter(m)
  <1>1. CASE m[1] = "r"
    <2>1. Creation(m[1]) = {}
      BY <1>1 DEF Creation
    <2> QED BY <1>1, <2>1
          DEF dio_stream_mode_to_flags, PlusBehindLetter, O_RDONLY, O_WRONLY, O_RDWR
  <1>2. CASE m[1] = "w"
    <2>1. Creation(m[1]) = {"TRUNC", "CREAT"}
      BY <1>2 DEF Creation
    <2> QED BY <1>2, <2>1
          DEF dio_stream_mode_to_flags, PlusBehindLetter, O_RDONLY, O_WRONLY, O_RDWR
  <1>3. CASE m[1] = "a"
    <2>1. Creation(m[1]) = {"APPEND", "CREAT"}
      BY <1>3 DEF Creation
    <2> QED BY <1>3, <2>1
          DEF dio_stream_mode_to_flags, PlusBehindLetter, O_RDONLY, O_WRONLY, O_RDWR
  <1>4. CASE m[1] = "x"
    <2>1. Creation(m[1]) = {"EXCL", "CREAT"}
      BY <1>4 DEF Creation
    <2> QED BY <1>4, <2>1
          DEF dio_stream_mode_to_flags, PlusBehindLetter, O_RDONLY, O_WRONLY, O_RDWR
  <1> QED BY <1>1, <1>2, <1>3, <1>4 DEF ModeOK, Letters

\* The options add at most O_NONBLOCK.
LEMMA OptionsAddNonblock ==
  ASSUME NEW m, NEW data
  PROVE  \E extra \in SUBSET {"NONBLOCK"} :
           OpenFlags(m, data) = dio_stream_mode_to_flags(m) \union extra
  BY DEF OpenFlags

\* What open() makes of these flags.
LEMMA OpenOfMode ==
  ASSUME NEW m, ModeOK(m), NEW data, NEW f \in Files, NEW plus,
         plus = PlusBehindLetter(m)
  PROVE  Open(OpenFlags(m, data), f) =
           IF (m[1] = "r" /\ f = "absent") \/ (m[1] = "x" /\ f # "absent")
           THEN Refused(f)
           ELSE [ok      |-> TRUE,
                 file    |-> IF m[1] = "w" \/ f = "absent" THEN "empty" ELSE f,
                 reads   |-> m[1] = "r" \/ plus,
                 writes  |-> m[1] # "r" \/ plus,
                 appends |-> m[1] = "a"]
  <1> DEFINE flags == OpenFlags(m, data)
  <1>1. /\ "CREAT" \in flags <=> m[1] # "r"
        /\ "EXCL" \in flags <=> m[1] = "x"
        /\ "TRUNC" \in flags <=> m[1] = "w"
        /\ "APPEND" \in flags <=> m[1] = "a"
        /\ "RDWR" \in flags <=> plus
        /\ "WRONLY" \in flags <=> m[1] # "r" /\ ~plus
    BY OptionsAddNonblock, FlagsOfMode
  <1> HIDE DEF flags
  <1>2. flags \intersect (O_WRONLY \union O_RDWR) # {} <=> m[1] # "r" \/ plus
    BY <1>1 DEF O_WRONLY, O_RDWR
  <1>3. "WRONLY" \notin flags <=> m[1] = "r" \/ plus
    BY <1>1
  <1>4. Open(flags, f) =
          IF (f = "absent" /\ "CREAT" \notin flags) \/ (f # "absent" /\ "EXCL" \in flags)
          THEN Refused(f)
          ELSE [ok      |-> TRUE,
                file    |-> IF f = "absent" \/ "TRUNC" \in flags THEN "empty" ELSE f,
                reads   |-> "WRONLY" \notin flags,
                writes  |-> flags \intersect (O_WRONLY \union O_RDWR) # {},
                appends |-> "APPEND" \in flags]
    BY DEF Open
  <1>5. ("APPEND" \in flags) = (m[1] = "a")
    BY <1>1
  <1> QED BY <1>1, <1>2, <1>3, <1>4, <1>5 DEF flags

LEMMA OutcomeFields ==
  ASSUME NEW o, NEW f, NEW r, NEW w, NEW a,
         o = [ok |-> TRUE, file |-> f, reads |-> r, writes |-> w, appends |-> a]
  PROVE  o.reads = r /\ o.writes = w
  OBVIOUS

LEMMA PlusAnywhere ==
  ASSUME NEW m, ModeOK(m)
  PROVE  /\ HasPlus(m) <=> PlusBehindLetter(m) \/ (Len(m) = 3 /\ m[3] = "+")
         /\ (\A i \in 3 .. Len(m) : m[i] # "+") => (HasPlus(m) <=> PlusBehindLetter(m))
  <1>1. Len(m) \in 1 .. 3 /\ m[1] # "+"
    BY DEF ModeOK, Letters
  <1>2. HasPlus(m) => PlusBehindLetter(m) \/ (Len(m) = 3 /\ m[3] = "+")
    BY <1>1 DEF HasPlus, PlusBehindLetter
  <1>3. PlusBehindLetter(m) \/ (Len(m) = 3 /\ m[3] = "+") => HasPlus(m)
    BY <1>1 DEF HasPlus, PlusBehindLetter
  <1> QED BY <1>1, <1>2, <1>3

\* For all options, a stream on POSIX opens and creates a file, and appends to
\* it, as fopen() does, if the plus is right behind the letter.
THEOREM PosixModesOpenAsFopen == Spec => []PosixOpensAsFopen
  <1>1. ASSUME InputsOK, \A i \in 3 .. Len(mode) : mode[i] # "+"
        PROVE  Open(OpenFlags(mode, dio_assoc_array_get_basic_options(basic)), file)
                 = Fopen(mode, file)
    <2>1. ModeOK(mode) /\ file \in Files
      BY <1>1, ModeShape DEF InputsOK
    <2>2. HasPlus(mode) <=> PlusBehindLetter(mode)
      BY <1>1, <2>1, PlusAnywhere
    <2> QED BY <2>1, <2>2, OpenOfMode DEF Fopen
  <1>2. InputsOK => PosixOpensAsFopen
    BY <1>1 DEF PosixOpensAsFopen
  <1> QED BY <1>2, InputsAreValid, PTL

\* Streams on Windows do in every mode, but that none of them appends.
THEOREM Win32ModesOpenAsFopen == Spec => []Win32OpensAsFopen
  <1>1. ASSUME InputsOK
        PROVE  dio_raw_open_stream(mode, file) = [Fopen(mode, file) EXCEPT !.appends = FALSE]
    <2>1. ModeOK(mode) /\ file \in Files
      BY <1>1, ModeShape DEF InputsOK
    <2> DEFINE disposition == creation_disposition(mode)
    <2>2. /\ mode[1] = "r" => disposition = "OPEN_EXISTING"
          /\ mode[1] = "w" => disposition = "TRUNCATE_EXISTING"
          /\ mode[1] = "a" => disposition = "OPEN_ALWAYS"
          /\ mode[1] = "x" => disposition = "CREATE_NEW"
      BY DEF creation_disposition
    <2>3. mode[1] \in Letters
      BY <2>1 DEF ModeOK
    <2>4. /\ "read" \in desired_access(mode) <=> mode[1] = "r" \/ HasPlus(mode)
          /\ "write" \in desired_access(mode) <=> mode[1] # "r" \/ HasPlus(mode)
      <3>1. HasPlus(mode) <=>
              LET at == IF Len(mode) > 1 /\ mode[2] # "+" THEN 3 ELSE 2
              IN  Len(mode) >= at /\ mode[at] = "+"
        BY <2>1, PlusAnywhere DEF ModeOK, PlusBehindLetter
      <3> QED BY <2>2, <2>3, <3>1 DEF desired_access, Letters
    <2> DEFINE Opened == [ok      |-> TRUE,
                          file    |-> IF mode[1] = "w" \/ file = "absent" THEN "empty" ELSE file,
                          reads   |-> mode[1] = "r" \/ HasPlus(mode),
                          writes  |-> mode[1] # "r" \/ HasPlus(mode),
                          appends |-> FALSE]
    <2>10. [Fopen(mode, file) EXCEPT !.appends = FALSE] =
             IF (mode[1] = "r" /\ file = "absent") \/ (mode[1] = "x" /\ file # "absent")
             THEN Refused(file) ELSE Opened
      <3>1. [Refused(file) EXCEPT !.appends = FALSE] = Refused(file)
        <4> DEFINE o  == Refused(file)
                   no == FALSE
        <4>1. o = [ok |-> no, file |-> file, reads |-> no, writes |-> no, appends |-> no]
          BY Zenon DEF Refused
        <4> HIDE DEF o, no
        <4>2. [o EXCEPT !.appends = no] = o
          BY <4>1
        <4> QED BY <4>2, Zenon DEF o, no
      <3>2. CASE (mode[1] = "r" /\ file = "absent") \/ (mode[1] = "x" /\ file # "absent")
        BY <3>1, <3>2, Zenon DEF Fopen
      <3>3. CASE ~((mode[1] = "r" /\ file = "absent") \/ (mode[1] = "x" /\ file # "absent"))
        <4> DEFINE o    == Fopen(mode, file)
                   ok   == TRUE
                   no   == FALSE
                   left == IF mode[1] = "w" \/ file = "absent" THEN "empty" ELSE file
                   r    == mode[1] = "r" \/ HasPlus(mode)
                   w    == mode[1] # "r" \/ HasPlus(mode)
                   a    == mode[1] = "a"
        <4>1. o = [ok |-> ok, file |-> left, reads |-> r, writes |-> w, appends |-> a]
          BY <3>3, Zenon DEF Fopen
        <4>2. Opened = [ok |-> ok, file |-> left, reads |-> r, writes |-> w, appends |-> no]
          BY Zenon
        <4> HIDE DEF o, ok, no, left, r, w, a, Opened
        <4>3. [o EXCEPT !.appends = no] = Opened
          BY <4>1, <4>2
        <4> QED BY <3>3, <4>3, Zenon DEF o, no
      <3> QED BY <3>2, <3>3, Zenon
    <2>11. Opened.ok /\ ~Refused(file).ok
      BY DEF Refused
    <2> HIDE DEF disposition
    <2>5. ASSUME NEW d, d = disposition \/ d = "CREATE_ALWAYS",
                 \/ d = "0"
                 \/ file = "absent" /\ d \in {"OPEN_EXISTING", "TRUNCATE_EXISTING"}
                 \/ file # "absent" /\ d = "CREATE_NEW"
          PROVE  CreateFile(desired_access(mode), d, file)
                   = Refused(file)
      BY <2>5 DEF CreateFile
    <2>6. ASSUME NEW d, d # "0",
                 ~(file = "absent" /\ d \in {"OPEN_EXISTING", "TRUNCATE_EXISTING"}),
                 ~(file # "absent" /\ d = "CREATE_NEW"),
                 d \in {"TRUNCATE_EXISTING", "CREATE_ALWAYS"} <=> mode[1] = "w"
          PROVE  CreateFile(desired_access(mode), d, file)
                   = Opened
      <3>1. ("read" \in desired_access(mode)) = (mode[1] = "r" \/ HasPlus(mode))
        BY <2>4
      <3>2. ("write" \in desired_access(mode)) = (mode[1] # "r" \/ HasPlus(mode))
        BY <2>4
      <3> QED BY <2>6, <3>1, <3>2 DEF CreateFile
    <2>7. CASE (mode[1] = "r" /\ file = "absent") \/ (mode[1] = "x" /\ file # "absent")
      <3>1. CreateFile(desired_access(mode), disposition, file)
              = Refused(file)
        BY <2>2, <2>5, <2>7
      <3>2. ~(file = "absent" /\ disposition = "TRUNCATE_EXISTING")
        BY <2>2, <2>7
      <3> QED BY <2>7, <2>10, <3>1, <3>2 DEF dio_raw_open_stream, disposition
    <2>8. CASE mode[1] = "w" /\ file = "absent"
      <3>1. disposition = "TRUNCATE_EXISTING"
        BY <2>2, <2>8
      <3>2. ~CreateFile(desired_access(mode), disposition, file).ok
        BY <2>5, <2>8, <2>11, <3>1
      <3>3. CreateFile(desired_access(mode), "CREATE_ALWAYS", file) = Opened
        BY <2>6, <2>8
      <3> QED BY <2>8, <2>10, <3>1, <3>2, <3>3 DEF dio_raw_open_stream, disposition
    <2>9. CASE /\ ~((mode[1] = "r" /\ file = "absent") \/ (mode[1] = "x" /\ file # "absent"))
               /\ ~(mode[1] = "w" /\ file = "absent")
      <3>1. CreateFile(desired_access(mode), disposition, file) = Opened
        BY <2>2, <2>3, <2>6, <2>9 DEF Letters
      <3> QED BY <2>9, <2>10, <2>11, <3>1 DEF dio_raw_open_stream, disposition
    <2> QED BY <2>7, <2>8, <2>9
  <1>2. InputsOK => Win32OpensAsFopen
    BY <1>1 DEF Win32OpensAsFopen
  <1> QED BY <1>2, InputsAreValid, PTL

\* In every mode and with all options, a flush discards exactly the queues that
\* its stream can use.
THEOREM FlushPurgesWhatIsOpen == Spec => []PurgesWhatItOpened
  <1>1. ASSUME InputsOK
        PROVE  PurgesWhatItOpened
    <2> DEFINE data  == dio_stream_context_get_basic_options(basic)
               flags == OpenFlags(mode, data)
    <2>1. ModeOK(mode) /\ file \in Files
      BY <1>1, ModeShape DEF InputsOK
    <2>2. /\ "RDWR" \in flags <=> PlusBehindLetter(mode)
          /\ "WRONLY" \in flags <=> mode[1] # "r" /\ ~PlusBehindLetter(mode)
      BY <2>1, OptionsAddNonblock, FlagsOfMode
    <2> DEFINE reads   == mode[1] = "r" \/ PlusBehindLetter(mode)
               writes  == mode[1] # "r" \/ PlusBehindLetter(mode)
               refused == (mode[1] = "r" /\ file = "absent") \/ (mode[1] = "x" /\ file # "absent")
    <2>3. /\ refused => ~Open(flags, file).ok
          /\ ~refused => \E f, a : Open(flags, file) =
               [ok |-> TRUE, file |-> f, reads |-> reads, writes |-> writes, appends |-> a]
      BY <2>1, OpenOfMode DEF Refused
    <2> HIDE DEF flags, reads, writes, refused
    <2>4. Open(flags, file).ok =>
            Open(flags, file).reads = reads /\ Open(flags, file).writes = writes
      <3>1. CASE refused
        BY <2>3, <3>1, Zenon
      <3>2. CASE ~refused
        <4>1. PICK f, a : Open(flags, file) =
                [ok |-> TRUE, file |-> f, reads |-> reads, writes |-> writes, appends |-> a]
          BY <2>3, <3>2, Zenon
        <4> QED BY <4>1, OutcomeFields
      <3> QED BY <3>1, <3>2, Zenon
    <2>5. PurgedQueues(flags) =
            (IF reads THEN {"input"} ELSE {}) \union (IF writes THEN {"output"} ELSE {})
      BY <2>2 DEF PurgedQueues, O_RDWR, O_WRONLY, reads, writes
    <2>6. Open(flags, file).ok => PurgedQueues(flags) =
            (IF Open(flags, file).reads THEN {"input"} ELSE {})
              \union (IF Open(flags, file).writes THEN {"output"} ELSE {})
      BY <2>4, <2>5, Zenon
    <2> QED BY <2>6 DEF PurgesWhatItOpened, flags, data
  <1> QED BY <1>1, InputsAreValid, PTL

-----------------------------------------------------------------------------
(* Serial settings. *)

\* The line of accepted options: parity by number, with mark and space for a
\* port that has CMSPAR, and the two bits that only say how a port is used.
LineNamed(data, stick, local, receives) ==
  [rate      |-> data.data_rate,
   bits      |-> data.data_bits,
   stop      |-> data.stop_bits,
   parity    |-> ParityTold(data.parity, stick),
   handshake |-> data.flow_control,
   local     |-> local,
   receives  |-> receives]

\* A line of a port, from the bits of its c_cflag.
LEMMA LineOfBits ==
  ASSUME NEW t, NEW data, data.data_bits \in 5 .. 8, data.stop_bits \in 1 .. 2,
         data.parity \in 0 .. 2, data.flow_control \in BOOLEAN, t.rate = data.data_rate,
         "size0" \in t.cflag <=> data.data_bits \in {6, 8},
         "size1" \in t.cflag <=> data.data_bits \in {7, 8},
         "CSTOPB" \in t.cflag <=> data.stop_bits = 2,
         "PARENB" \in t.cflag <=> data.parity # 0,
         "PARODD" \in t.cflag <=> data.parity = 1,
         "CRTSCTS" \in t.cflag <=> data.flow_control
  PROVE  LineOf(t) = LineNamed(data, "CMSPAR" \in t.cflag, "CLOCAL" \in t.cflag,
                               "CREAD" \in t.cflag)
  <1> DEFINE size   == 5 + (IF "size0" \in t.cflag THEN 1 ELSE 0)
                         + (IF "size1" \in t.cflag THEN 2 ELSE 0)
             two    == IF "CSTOPB" \in t.cflag THEN 2 ELSE 1
             parity == IF "PARENB" \in t.cflag
                       THEN Sense("PARODD" \in t.cflag, "CMSPAR" \in t.cflag) ELSE "none"
             shakes == "CRTSCTS" \in t.cflag
  <1>1. size = data.data_bits
    OBVIOUS
  <1>2. two = data.stop_bits
    OBVIOUS
  <1>3. parity = ParityTold(data.parity, "CMSPAR" \in t.cflag)
    <2>1. ("PARODD" \in t.cflag) = (data.parity = 1)
      OBVIOUS
    <2> QED BY <2>1 DEF ParityTold
  <1>4. shakes = data.flow_control
    OBVIOUS
  <1>5. LineOf(t) = [rate |-> t.rate, bits |-> size, stop |-> two, parity |-> parity,
                     handshake |-> shakes, local |-> "CLOCAL" \in t.cflag,
                     receives |-> "CREAD" \in t.cflag]
    BY Zenon DEF LineOf
  <1> HIDE DEF size, two, parity, shakes
  <1> QED BY <1>1, <1>2, <1>3, <1>4, <1>5, Zenon DEF LineNamed

\* The two tables of each size and parity.
LEMMA SizeBits ==
  ASSUME NEW n \in 5 .. 8
  PROVE  /\ dio_data_bits_to_define(n) = {b \in CSIZE : \/ b = "size0" /\ n \in {6, 8}
                                                        \/ b = "size1" /\ n \in {7, 8}}
         /\ LegacySize(n) = dio_data_bits_to_define(n)
  <1>1. CASE n = 5
    BY <1>1 DEF dio_data_bits_to_define, LegacySize, CSIZE
  <1>2. CASE n = 6
    BY <1>2 DEF dio_data_bits_to_define, LegacySize, CSIZE
  <1>3. CASE n = 7
    BY <1>3 DEF dio_data_bits_to_define, LegacySize, CSIZE
  <1>4. CASE n = 8
    BY <1>4 DEF dio_data_bits_to_define, LegacySize, CSIZE
  <1> QED BY <1>1, <1>2, <1>3, <1>4

LEMMA ParityBits ==
  ASSUME NEW n \in 0 .. 2
  PROVE  /\ dio_parity_to_define(n) = {b \in {"PARENB", "PARODD"} : \/ b = "PARENB" /\ n # 0
                                                                    \/ b = "PARODD" /\ n = 1}
         /\ LegacyParity(n) = dio_parity_to_define(n)
  <1>1. CASE n = 0
    BY <1>1 DEF dio_parity_to_define, LegacyParity
  <1>2. CASE n = 1
    BY <1>2 DEF dio_parity_to_define, LegacyParity
  <1>3. CASE n = 2
    BY <1>3 DEF dio_parity_to_define, LegacyParity
  <1> QED BY <1>1, <1>2, <1>3

LEMMA StreamLine ==
  ASSUME NEW o, NEW data, StreamAccepts(data), data.flow_control \in BOOLEAN
  PROVE  /\ LineOf(dio_serial_init(o, data))
              = LineNamed(data, "CMSPAR" \in o.cflag, ~data.flow_control, "CREAD" \in o.cflag)
         /\ \A b \in {"CMSPAR", "HUPCL"} :
              b \in dio_serial_init(o, data).cflag <=> b \in o.cflag
  <1> DEFINE t == dio_serial_init(o, data)
             start == IF data.canonical THEN o.cflag ELSE cfmakeraw(o.cflag)
  <1>1. data.data_bits \in 5 .. 8 /\ data.stop_bits \in 1 .. 2 /\ data.parity \in 0 .. 2
    BY DEF StreamAccepts
  <1>2. /\ t.rate = data.data_rate
        /\ t.cflag = (start \ Cleared)
                       \union dio_data_bits_to_define(data.data_bits)
                       \union dio_stop_bits_to_define(data.stop_bits)
                       \union dio_parity_to_define(data.parity)
                       \union {IF data.flow_control THEN "CRTSCTS" ELSE "CLOCAL"}
    BY DEF dio_serial_init
  <1>3. \A b \in {"CMSPAR", "CREAD", "HUPCL"} : b \in start <=> b \in o.cflag
    BY DEF cfmakeraw, CSIZE
  <1> HIDE DEF t, start
  <1>4. dio_stop_bits_to_define(data.stop_bits) = {b \in {"CSTOPB"} : data.stop_bits = 2}
    BY <1>1 DEF dio_stop_bits_to_define
  <1>5. /\ "size0" \in t.cflag <=> data.data_bits \in {6, 8}
        /\ "size1" \in t.cflag <=> data.data_bits \in {7, 8}
    BY <1>1, <1>2, <1>4, SizeBits, ParityBits DEF Cleared, CSIZE
  <1>6. "CSTOPB" \in t.cflag <=> data.stop_bits = 2
    BY <1>1, <1>2, <1>4, SizeBits, ParityBits DEF Cleared, CSIZE
  <1>7. /\ "PARENB" \in t.cflag <=> data.parity # 0
        /\ "PARODD" \in t.cflag <=> data.parity = 1
    BY <1>1, <1>2, <1>4, SizeBits, ParityBits DEF Cleared, CSIZE
  <1>8. \A b \in {"CMSPAR", "CREAD", "HUPCL"} : b \in t.cflag <=> b \in o.cflag
    BY <1>1, <1>2, <1>3, <1>4, SizeBits, ParityBits DEF Cleared, CSIZE
  <1>9. /\ "CRTSCTS" \in t.cflag <=> data.flow_control
        /\ "CLOCAL" \in t.cflag <=> ~data.flow_control
    BY <1>1, <1>2, <1>4, SizeBits, ParityBits DEF Cleared, CSIZE
  <1>10. LineOf(t) = LineNamed(data, "CMSPAR" \in t.cflag, "CLOCAL" \in t.cflag,
                               "CREAD" \in t.cflag)
    BY <1>1, <1>2, <1>5, <1>6, <1>7, <1>9, LineOfBits
  <1>11. /\ ("CMSPAR" \in t.cflag) = ("CMSPAR" \in o.cflag)
         /\ ("CREAD" \in t.cflag) = ("CREAD" \in o.cflag)
         /\ ("CLOCAL" \in t.cflag) = ~data.flow_control
    BY <1>8, <1>9
  <1> QED BY <1>8, <1>10, <1>11 DEF t

LEMMA LegacyLine ==
  ASSUME NEW data, NEW legacy,
         legacy = [Baud_Rate |-> data.data_rate, Data_Bits |-> data.data_bits,
                   Stop_Bits |-> data.stop_bits, Parity |-> data.parity,
                   Flow_Control |-> data.flow_control, Is_Canonical |-> legacy.Is_Canonical],
         StreamAccepts(data), data.flow_control \in BOOLEAN
  PROVE  LineOf(dio_tcsetattr(legacy)) = LineNamed(data, FALSE, TRUE, TRUE)
  <1> DEFINE t == dio_tcsetattr(legacy)
  <1>1. data.data_bits \in 5 .. 8 /\ data.stop_bits \in 1 .. 2 /\ data.parity \in 0 .. 2
    BY DEF StreamAccepts
  <1>2. /\ t.rate = data.data_rate
        /\ t.cflag = LegacySize(data.data_bits)
                       \union (IF data.stop_bits = 2 THEN {"CSTOPB"} ELSE {})
                       \union LegacyParity(data.parity)
                       \union {"CLOCAL", "CREAD"}
                       \union (IF data.flow_control THEN {"CRTSCTS"} ELSE {})
    BY DEF dio_tcsetattr
  <1> HIDE DEF t
  <1>3. /\ "size0" \in t.cflag <=> data.data_bits \in {6, 8}
        /\ "size1" \in t.cflag <=> data.data_bits \in {7, 8}
    BY <1>1, <1>2, SizeBits, ParityBits DEF CSIZE
  <1>4. "CSTOPB" \in t.cflag <=> data.stop_bits = 2
    BY <1>1, <1>2, SizeBits, ParityBits DEF CSIZE
  <1>5. /\ "PARENB" \in t.cflag <=> data.parity # 0
        /\ "PARODD" \in t.cflag <=> data.parity = 1
    BY <1>1, <1>2, SizeBits, ParityBits DEF CSIZE
  <1>6. "CRTSCTS" \in t.cflag <=> data.flow_control
    BY <1>1, <1>2, SizeBits, ParityBits DEF CSIZE
  <1>7. /\ ("CMSPAR" \in t.cflag) = FALSE
        /\ ("CLOCAL" \in t.cflag) = TRUE
        /\ ("CREAD" \in t.cflag) = TRUE
    BY <1>1, <1>2, SizeBits, ParityBits DEF CSIZE
  <1>8. LineOf(t) = LineNamed(data, "CMSPAR" \in t.cflag, "CLOCAL" \in t.cflag,
                              "CREAD" \in t.cflag)
    BY <1>1, <1>2, <1>3, <1>4, <1>5, <1>6, LineOfBits
  <1> QED BY <1>7, <1>8 DEF t

LEMMA Win32Line ==
  ASSUME NEW data, StreamAccepts(data), data.flow_control \in BOOLEAN
  PROVE  LineOfDcb(DcbOf(data)) = LineNamed(data, FALSE, TRUE, TRUE)
  <1> DEFINE stop == Win32StopBits(data.stop_bits)
             sent == Win32Parity(data.parity)
             two  == IF stop = "ONESTOPBIT" THEN 1 ELSE 2
             seen == CASE sent = "NOPARITY" -> "none"
                       [] sent = "ODDPARITY" -> "odd"
                       [] OTHER -> "even"
  <1>1. data.stop_bits \in 1 .. 2 /\ data.parity \in 0 .. 2
    BY DEF StreamAccepts
  <1>2. two = data.stop_bits
    BY <1>1 DEF Win32StopBits
  <1>3. seen = ParityTold(data.parity, FALSE)
    <2>1. CASE data.parity = 0
      BY <2>1 DEF Win32Parity, ParityTold
    <2>2. CASE data.parity = 1
      BY <2>2 DEF Win32Parity, ParityTold, Sense
    <2>3. CASE data.parity = 2
      BY <2>3 DEF Win32Parity, ParityTold, Sense
    <2>4. data.parity = 0 \/ data.parity = 1 \/ data.parity = 2
      BY <1>1
    <2> HIDE DEF seen
    <2> QED BY <2>1, <2>2, <2>3, <2>4, Zenon
  <1>4. LineOfDcb(DcbOf(data)) =
          [rate |-> data.data_rate, bits |-> data.data_bits, stop |-> two, parity |-> seen,
           handshake |-> data.flow_control, local |-> TRUE, receives |-> TRUE]
    BY Zenon DEF LineOfDcb, DcbOf
  <1> HIDE DEF two, seen
  <1> QED BY <1>2, <1>3, <1>4, Zenon DEF LineNamed

LEMMA DirectLine ==
  ASSUME NEW data, NEW local, NEW receives
  PROVE  Direct(LineNamed(data, FALSE, local, receives)) = LineNamed(data, FALSE, TRUE, TRUE)
  <1> DEFINE yes    == TRUE
             told   == ParityTold(data.parity, FALSE)
             line   == LineNamed(data, FALSE, local, receives)
             first  == [line EXCEPT !.local = yes]
             second == [first EXCEPT !.receives = yes]
  <1>1. line = [rate |-> data.data_rate, bits |-> data.data_bits, stop |-> data.stop_bits,
                parity |-> told, handshake |-> data.flow_control,
                local |-> local, receives |-> receives]
    BY Zenon DEF LineNamed
  <1>2. LineNamed(data, FALSE, TRUE, TRUE) =
          [rate |-> data.data_rate, bits |-> data.data_bits, stop |-> data.stop_bits,
           parity |-> told, handshake |-> data.flow_control, local |-> yes, receives |-> yes]
    BY Zenon DEF LineNamed
  <1>3. Direct(line) = second
    BY Zenon DEF Direct
  <1> HIDE DEF yes, told, line
  <1>4. first = [rate |-> data.data_rate, bits |-> data.data_bits, stop |-> data.stop_bits,
                 parity |-> told, handshake |-> data.flow_control,
                 local |-> yes, receives |-> receives]
    BY <1>1
  <1> HIDE DEF first
  <1>5. second = [rate |-> data.data_rate, bits |-> data.data_bits, stop |-> data.stop_bits,
                  parity |-> told, handshake |-> data.flow_control,
                  local |-> yes, receives |-> yes]
    BY <1>4
  <1> QED BY <1>2, <1>3, <1>5, Zenon DEF line

\* Whatever a port was set to and whatever the options of a stream are, if they
\* are accepted the port's line is the one they say, as far as an int holds
\* them, with mark and space for a port that was left with CMSPAR.
THEOREM StreamLineIsAsTold == Spec => []LineAsTold
  <1>1. LineAsTold
    <2> DEFINE data    == dio_stream_context_get_serial_options(serial)
               told(n) == StreamOption(serial, n)
    <2>1. /\ data.data_rate = told("rate") /\ data.data_bits = AsInt(told("bits"))
          /\ data.stop_bits = AsInt(told("stop")) /\ data.parity = AsInt(told("parity"))
          /\ data.flow_control = (told("flow_control") # 0)
          /\ data.flow_control \in BOOLEAN
      BY Zenon DEF dio_stream_context_get_serial_options, dio_assoc_array_get_serial_options
    <2>2. (~data.flow_control) = (told("flow_control") = 0)
      <3> HIDE DEF data, told
      <3> QED BY <2>1
    <2> HIDE DEF data, told
    <2>3. ASSUME StreamAccepts(data)
          PROVE  LineOf(dio_serial_init(old, data)) =
                   [rate      |-> told("rate"),
                    bits      |-> AsInt(told("bits")),
                    stop      |-> AsInt(told("stop")),
                    parity    |-> ParityTold(AsInt(told("parity")), "CMSPAR" \in old.cflag),
                    handshake |-> told("flow_control") # 0,
                    local     |-> told("flow_control") = 0,
                    receives  |-> "CREAD" \in old.cflag]
      <3>1. LineOf(dio_serial_init(old, data))
              = LineNamed(data, "CMSPAR" \in old.cflag, ~data.flow_control, "CREAD" \in old.cflag)
        BY <2>1, <2>3, StreamLine, Zenon
      <3> QED BY <2>1, <2>2, <3>1, Zenon DEF LineNamed
    <2>4. StreamAccepts(data) => \A b \in {"CMSPAR", "HUPCL"} :
                                   b \in dio_serial_init(old, data).cflag <=> b \in old.cflag
      BY <2>1, StreamLine
    <2> QED BY <2>3, <2>4, Zenon DEF LineAsTold, data, told
  <1> QED BY <1>1, PTL

\* The same options mean one line for the three ways to set it, but for the
\* modem's lines and the receiver.
THEOREM OptionsMeanOneLine == Spec => []SameLine
  <1>1. SameLine
    <2> DEFINE data   == dio_assoc_array_get_serial_options(serial)
               legacy == LegacyOptions(serial)
               win32  == Win32Options(serial)
               line   == LineOf(dio_serial_init(old, data))
               Holds(n) == AsInt(StreamOption(serial, n)) = StreamOption(serial, n)
    <2> SUFFICES ASSUME Holds("rate"), Holds("flow_control"), "CMSPAR" \notin old.cflag
                 PROVE  /\ LegacyAccepts(legacy) <=> StreamAccepts(data) /\ data.data_rate # 0
                        /\ LegacyAccepts(legacy) => LineOf(dio_tcsetattr(legacy)) = Direct(line)
                        /\ StreamAccepts(data) /\ Win32Accepts(win32)
                             => LineOfDcb(DcbOf(win32)) = Direct(line)
      BY Zenon DEF SameLine
    <2>1. data.flow_control \in BOOLEAN
      BY DEF dio_assoc_array_get_serial_options
    <2>2. legacy = [Baud_Rate |-> data.data_rate, Data_Bits |-> data.data_bits,
                    Stop_Bits |-> data.stop_bits, Parity |-> data.parity,
                    Flow_Control |-> data.flow_control, Is_Canonical |-> legacy.Is_Canonical]
      BY DEF dio_assoc_array_get_serial_options, LegacyOptions, StreamOption, Given,
             dio_init_stream_data
    <2>3. win32 = data
      BY DEF dio_assoc_array_get_serial_options, Win32Options
    <2> HIDE DEF data, legacy, win32, Holds
    <2>4. LegacyAccepts(legacy) <=> StreamAccepts(data) /\ data.data_rate # 0
      BY <2>2 DEF LegacyAccepts, StreamAccepts
    <2>5. StreamAccepts(data) =>
            /\ Direct(line) = LineNamed(data, FALSE, TRUE, TRUE)
            /\ LineOf(dio_tcsetattr(legacy)) = LineNamed(data, FALSE, TRUE, TRUE)
            /\ LineOfDcb(DcbOf(data)) = LineNamed(data, FALSE, TRUE, TRUE)
      <3>1. ("CMSPAR" \in old.cflag) = FALSE
        OBVIOUS
      <3> SUFFICES ASSUME StreamAccepts(data)
                   PROVE  /\ Direct(line) = LineNamed(data, FALSE, TRUE, TRUE)
                          /\ LineOf(dio_tcsetattr(legacy)) = LineNamed(data, FALSE, TRUE, TRUE)
                          /\ LineOfDcb(DcbOf(data)) = LineNamed(data, FALSE, TRUE, TRUE)
        OBVIOUS
      <3>2. line = LineNamed(data, "CMSPAR" \in old.cflag, ~data.flow_control,
                             "CREAD" \in old.cflag)
        BY <2>1, StreamLine, Zenon
      <3>3. Direct(line) = LineNamed(data, FALSE, TRUE, TRUE)
        BY <3>1, <3>2, DirectLine, Zenon
      <3>4. LineOf(dio_tcsetattr(legacy)) = LineNamed(data, FALSE, TRUE, TRUE)
        BY <2>1, <2>2, LegacyLine, Zenon
      <3>5. LineOfDcb(DcbOf(data)) = LineNamed(data, FALSE, TRUE, TRUE)
        BY <2>1, Win32Line, Zenon
      <3> QED BY <3>3, <3>4, <3>5
    <2> QED BY <2>3, <2>4, <2>5
  <1> QED BY <1>1, PTL

=============================================================================
