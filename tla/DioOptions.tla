----------------------------- MODULE DioOptions -----------------------------
(***************************************************************************)
(* The options that a script gives in an array or a stream context: a      *)
(* function on the names it gives, which are the same here for all (the    *)
(* code has "data_rate" in streams, "baud" in dio_tcsetattr).  A script's  *)
(* numbers are zend_longs; what the code keeps in an int loses their upper *)
(* half, and what it only tests for zero does not.                         *)
(***************************************************************************)
EXTENDS Integers

CONSTANT IntHalf  \* 2^31: an int is one of -IntHalf .. IntHalf - 1

ASSUME IntAssumption == IntHalf \in Nat /\ IntHalf > 460800  \* the highest rate

\* What an int keeps of a number.
AsInt(n) == ((n + IntHalf) % (2 * IntHalf)) - IntHalf

Given(o, name, default) == IF name \in DOMAIN o THEN o[name] ELSE default

\* A stream without options.
dio_init_stream_data ==
  [is_blocking |-> 1, timeout_secs |-> 0, timeout_usecs |-> 0,
   rate |-> 9600, bits |-> 8, stop |-> 1, parity |-> 0, flow_control |-> 1, is_canonical |-> 1]

StreamOption(o, name) == Given(o, name, dio_init_stream_data[name])

dio_assoc_array_get_basic_options(o) ==
  [is_blocking |-> StreamOption(o, "is_blocking") # 0,
   has_timeout |-> StreamOption(o, "timeout_secs") # 0 \/ StreamOption(o, "timeout_usecs") # 0]

dio_assoc_array_get_serial_options(o) ==
  [data_rate    |-> StreamOption(o, "rate"),
   data_bits    |-> AsInt(StreamOption(o, "bits")),
   stop_bits    |-> AsInt(StreamOption(o, "stop")),
   parity       |-> AsInt(StreamOption(o, "parity")),
   flow_control |-> StreamOption(o, "flow_control") # 0,
   canonical    |-> StreamOption(o, "is_canonical") # 0]

\* A context is read like an array.
dio_stream_context_get_basic_options(o)  == dio_assoc_array_get_basic_options(o)

dio_stream_context_get_serial_options(o) == dio_assoc_array_get_serial_options(o)

\* Under Windows data_rate, a long, is no wider than an int.
Win32Options(o) == [dio_assoc_array_get_serial_options(o) EXCEPT !.data_rate = AsInt(@)]

\* dio_tcsetattr has its own defaults, not canonical is one of them, and keeps
\* everything in ints before it looks at it.
LegacyOptions(o) ==
  [Baud_Rate    |-> AsInt(Given(o, "rate", 9600)),
   Data_Bits    |-> AsInt(Given(o, "bits", 8)),
   Stop_Bits    |-> AsInt(Given(o, "stop", 1)),
   Parity       |-> AsInt(Given(o, "parity", 0)),
   Flow_Control |-> AsInt(Given(o, "flow_control", 1)) # 0,
   Is_Canonical |-> AsInt(Given(o, "is_canonical", 0)) # 0]
=============================================================================
