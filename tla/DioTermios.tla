----------------------------- MODULE DioTermios -----------------------------
(***************************************************************************)
(* What the serial options of a script make of a port's c_cflag, once for  *)
(* streams, once for dio_tcsetattr(), and of a DCB on Windows.  c_cflag is *)
(* a set of bits, of which CSIZE has two; the rate, another field of       *)
(* several bits that cfsetispeed() and cfsetospeed() replace, is apart.    *)
(***************************************************************************)
EXTENDS DioOptions

CSIZE == {"size0", "size1"}
Bits  == CSIZE \union {"CSTOPB", "PARENB", "PARODD", "CMSPAR", "CLOCAL", "CRTSCTS", "CREAD",
                       "HUPCL"}

-----------------------------------------------------------------------------
(* Streams on POSIX. *)

\* The numbers that each function has a define for.
PosixRates ==
  {0, 50, 75, 110, 134, 150, 200, 300, 600, 1200, 1800, 2400, 4800, 9600, 19200, 38400,
   57600, 115200, 230400, 460800}

dio_data_bits_to_define(n) ==
  CASE n = 8 -> CSIZE [] n = 7 -> {"size1"} [] n = 6 -> {"size0"} [] n = 5 -> {}

dio_stop_bits_to_define(n) == IF n = 2 THEN {"CSTOPB"} ELSE {}

dio_parity_to_define(n) ==
  CASE n = 0 -> {} [] n = 1 -> {"PARENB", "PARODD"} [] n = 2 -> {"PARENB"}

StreamAccepts(data) ==
  /\ data.data_rate \in PosixRates /\ data.data_bits \in 5 .. 8
  /\ data.stop_bits \in 1 .. 2 /\ data.parity \in 0 .. 2

\* cfmakeraw() chooses eight bits and no parity, for the code to change.
cfmakeraw(cflag) == (cflag \ (CSIZE \union {"PARENB"})) \union CSIZE

\* Mutant of Cleared: the bits of the old size stay.
ClearedButSize == {"CSTOPB", "PARENB", "PARODD", "CLOCAL", "CRTSCTS"}

\* The bits that the options name, cleared before they are set.  CMSPAR, which
\* makes mark of odd parity and space of even, is not one of them.
Cleared == CSIZE \union {"CSTOPB", "PARENB", "PARODD", "CLOCAL", "CRTSCTS"}

dio_serial_init(old, data) ==
  LET start == IF data.canonical THEN old.cflag ELSE cfmakeraw(old.cflag)
  IN  [rate  |-> data.data_rate,
       cflag |-> (start \ Cleared)
                   \union dio_data_bits_to_define(data.data_bits)
                   \union dio_stop_bits_to_define(data.stop_bits)
                   \union dio_parity_to_define(data.parity)
                   \union {IF data.flow_control THEN "CRTSCTS" ELSE "CLOCAL"}]

-----------------------------------------------------------------------------
(* dio_tcsetattr on a legacy resource. *)

LegacyAccepts(data) ==
  /\ data.Baud_Rate \in PosixRates \ {0} /\ data.Data_Bits \in 5 .. 8
  /\ data.Stop_Bits \in 1 .. 2 /\ data.Parity \in 0 .. 2

\* Mutant of LegacyParity: odd and even change places.
LegacyParitySwapped(n) ==
  (IF n > 0 THEN {"PARENB"} ELSE {}) \union (IF n = 2 THEN {"PARODD"} ELSE {})

\* PARITYON and PARITY.
LegacyParity(n) ==
  (IF n > 0 THEN {"PARENB"} ELSE {}) \union (IF n = 1 THEN {"PARODD"} ELSE {})

LegacySize(n) ==
  CASE n = 8 -> CSIZE [] n = 7 -> {"size1"} [] n = 6 -> {"size0"} [] n = 5 -> {}

\* All of c_cflag is replaced; the modem lines are ignored and the receiver is
\* on whatever the options say.
dio_tcsetattr(data) ==
  [rate  |-> data.Baud_Rate,
   cflag |-> LegacySize(data.Data_Bits)
               \union (IF data.Stop_Bits = 2 THEN {"CSTOPB"} ELSE {})
               \union LegacyParity(data.Parity)
               \union {"CLOCAL", "CREAD"}
               \union (IF data.Flow_Control THEN {"CRTSCTS"} ELSE {})]

-----------------------------------------------------------------------------
(* Streams on Windows. *)

Win32Rates ==
  {75, 110, 134, 150, 300, 600, 1200, 1800, 2400, 4800, 7200, 9600, 14400, 19200, 38400,
   57600, 115200, 56000, 128000, 256000}

Win32Accepts(data) ==
  /\ data.data_rate \in Win32Rates /\ data.data_bits \in 4 .. 8
  /\ data.stop_bits \in 1 .. 3 /\ data.parity \in 0 .. 2

Win32StopBits(n) ==
  CASE n = 1 -> "ONESTOPBIT" [] n = 2 -> "TWOSTOPBITS" [] n = 3 -> "ONE5STOPBITS"

Win32Parity(n) ==
  CASE n = 0 -> "NOPARITY" [] n = 1 -> "ODDPARITY" [] n = 2 -> "EVENPARITY"

\* The DCB is cleared and filled; nothing of the old one is kept.
DcbOf(data) ==
  [BaudRate     |-> data.data_rate,
   ByteSize     |-> data.data_bits,
   StopBits     |-> Win32StopBits(data.stop_bits),
   Parity       |-> Win32Parity(data.parity),
   fOutxCtsFlow |-> data.flow_control]

-----------------------------------------------------------------------------
(* The line: how a driver reads the bits.  With local it does not mind the   *)
(* modem's lines, and without receives nothing comes in.                     *)

\* What PARENB with PARODD for odd or without it means if CMSPAR is set or not.
Sense(odd, stick) ==
  IF odd THEN IF stick THEN "mark" ELSE "odd"
         ELSE IF stick THEN "space" ELSE "even"

LineOf(t) ==
  [rate      |-> t.rate,
   bits      |-> 5 + (IF "size0" \in t.cflag THEN 1 ELSE 0) + (IF "size1" \in t.cflag THEN 2 ELSE 0),
   stop      |-> IF "CSTOPB" \in t.cflag THEN 2 ELSE 1,
   parity    |-> IF "PARENB" \in t.cflag THEN Sense("PARODD" \in t.cflag, "CMSPAR" \in t.cflag)
                 ELSE "none",
   handshake |-> "CRTSCTS" \in t.cflag,
   local     |-> "CLOCAL" \in t.cflag,
   receives  |-> "CREAD" \in t.cflag]

\* The cleared DCB minds no line of the modem but CTS (fOutxDsrFlow and
\* fDsrSensitivity are FALSE), and has no bit for the receiver.

LineOfDcb(d) ==
  [rate      |-> d.BaudRate,
   bits      |-> d.ByteSize,
   stop      |-> IF d.StopBits = "ONESTOPBIT" THEN 1 ELSE 2,
   parity    |-> CASE d.Parity = "NOPARITY" -> "none"
                   [] d.Parity = "ODDPARITY" -> "odd"
                   [] OTHER -> "even",
   handshake |-> d.fOutxCtsFlow,
   local     |-> TRUE,
   receives  |-> TRUE]
=============================================================================
