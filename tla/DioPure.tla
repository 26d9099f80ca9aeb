------------------------------- MODULE DioPure -------------------------------
(***************************************************************************)
(* The functions without state of their own, each tried on a set of inputs *)
(* that an initial state chooses: the subtraction of times (late, early),  *)
(* the modes and options of open() (mode, file, basic), and the conversion *)
(* of serial options (old, serial).  Inputs of the other two are fixed.    *)
(***************************************************************************)
EXTENDS DioTimeval, DioOpenModes, DioTermios

CONSTANTS
  Secs, Usecs,    \* the values of the two fields of a time
  BasicValues,    \* the numbers that scripts give for the basic options, and
  SerialValues,   \* for the serial ones: functions on the names of all
  Found           \* the settings that a port may be found with

ASSUME PureAssumption ==
  /\ Secs \subseteq Nat /\ Usecs \subseteq 0 .. UsecPerSec - 1
  /\ Found \subseteq [rate : Nat, cflag : SUBSET Bits]

VARIABLES late, early, mode, file, basic, old, serial

vars == <<late, early, mode, file, basic, old, serial>>

Times == [sec : Secs, usec : Usecs]
Files == {"absent", "empty", "data"}

\* A script gives the values of any of the names.
Choices(values) == UNION {{[n \in N |-> o[n]] : N \in SUBSET DOMAIN o} : o \in values}
BasicOptions    == Choices(BasicValues)
SerialOptions   == Choices(SerialValues)

NoOptions == [n \in {} |-> 0]
NoTimes   == late = Zero /\ early = Zero
NoOpening == mode = <<"r">> /\ file = "absent" /\ basic = NoOptions
NoSerial  == old = [rate |-> 9600, cflag |-> {}] /\ serial = NoOptions

Init ==
  \/ late \in Times /\ early \in Times /\ NoOpening /\ NoSerial
  \/ NoTimes /\ NoSerial /\ mode \in Modes /\ file \in Files /\ basic \in BasicOptions
  \/ NoTimes /\ NoOpening /\ old \in Found /\ serial \in SerialOptions

\* Every input is an initial state; there is nothing to do after it.
Next == UNCHANGED vars

Spec == Init /\ [][Next]_vars

-----------------------------------------------------------------------------

\* The first call of a pass, of three different structures: the time between
\* two readings of the clock, normalised, or zero if the clock was set back.  It
\* is the difference that counts: this call's result is ignored, and is 0 where
\* the comment of the function says "Returns -1 as error if late time is earlier
\* than early time."
DifferenceOrZero ==
  LET r == dio_timeval_subtract(late, early)
  IN  /\ r.diff \in Timeval
      /\ Micros(r.diff) = IF Micros(late) < Micros(early) THEN 0
                          ELSE Micros(late) - Micros(early)

\* Streams open and create files on POSIX as fopen() does in the same mode
\* ("Convert an fopen() mode string to open() flags"), append as it does, and
\* may read and write as it may, if b or t does not come before the plus; no
\* option changes that.
PosixOpensAsFopen ==
  (\A i \in 3 .. Len(mode) : mode[i] # "+")
    => Open(OpenFlags(mode, dio_assoc_array_get_basic_options(basic)), file) = Fopen(mode, file)

\* Streams on Windows open, create and empty files as fopen() does, and may read
\* and write as it may, in every mode, also in a file that is not there yet; but
\* in mode a, unlike fopen(), they write from the beginning of the file.
Win32OpensAsFopen ==
  dio_raw_open_stream(mode, file) = [Fopen(mode, file) EXCEPT !.appends = FALSE]

\* A flush discards the queues that the stream can use, in every mode ("If the
\* stream is read only, it flushes the read stream, if it is write only it
\* flushes the write, otherwise it flushes both").
PurgesWhatItOpened ==
  LET flags  == OpenFlags(mode, dio_stream_context_get_basic_options(basic))
      stream == Open(flags, file)
  IN  stream.ok => PurgedQueues(flags) =
        (IF stream.reads THEN {"input"} ELSE {}) \union (IF stream.writes THEN {"output"} ELSE {})

\* What a parity that a stream accepts is on the line.
ParityTold(n, stick) == IF n = 0 THEN "none" ELSE Sense(n = 1, stick)

\* A stream that accepts its options has the line that they say, whatever the
\* port was set to, but for two bits that no option names and no stream changes:
\* one left with CMSPAR sends mark for odd and space for even, and one left
\* without CREAD receives nothing.  Sizes, stop bits and parities are what an
\* int keeps of the script's numbers; flow control of 2^32 is flow control.
LineAsTold ==
  LET data    == dio_stream_context_get_serial_options(serial)
      new     == dio_serial_init(old, data)
      told(n) == StreamOption(serial, n)
  IN  StreamAccepts(data) =>
        /\ LineOf(new) = [rate      |-> told("rate"),
                          bits      |-> AsInt(told("bits")),
                          stop      |-> AsInt(told("stop")),
                          parity    |-> ParityTold(AsInt(told("parity")), "CMSPAR" \in old.cflag),
                          handshake |-> told("flow_control") # 0,
                          local     |-> told("flow_control") = 0,
                          receives  |-> "CREAD" \in old.cflag]
        /\ \A b \in {"CMSPAR", "HUPCL"} : b \in new.cflag <=> b \in old.cflag

\* What dio_tcsetattr and Windows make of a line of a stream on POSIX.
Direct(line) == [line EXCEPT !.local = TRUE, !.receives = TRUE]

\* The same options mean the same line in dio_tcsetattr, in a stream on POSIX
\* and in one on Windows, where two of them accept these, but that the first
\* and the last never mind the modem's lines and always receive.  But for the
\* rate the first two accept the same options, and only the rate 0 is refused
\* by the first alone.  All of this for a rate and a flow control that an int
\* holds, for dio_tcsetattr takes 2^32 for no flow control, and for a port that
\* was not left with CMSPAR, which only dio_tcsetattr and Windows clear.
SameLine ==
  LET data    == dio_assoc_array_get_serial_options(serial)
      legacy  == LegacyOptions(serial)
      win32   == Win32Options(serial)
      line    == LineOf(dio_serial_init(old, data))
  IN  /\ \A n \in {"rate", "flow_control"} : AsInt(StreamOption(serial, n)) = StreamOption(serial, n)
      /\ "CMSPAR" \notin old.cflag
      => /\ LegacyAccepts(legacy) <=> StreamAccepts(data) /\ data.data_rate # 0
         /\ LegacyAccepts(legacy) => LineOf(dio_tcsetattr(legacy)) = Direct(line)
         /\ StreamAccepts(data) /\ Win32Accepts(win32) => LineOfDcb(DcbOf(win32)) = Direct(line)
=============================================================================
