------------------------------ MODULE DioPureMC ------------------------------
(* The inputs that are tried.  Serial options have, each, every number that    *)
(* the tables tell apart, one that is refused, where there is one, and one     *)
(* that an int does not hold; the rates one that only streams on POSIX, and    *)
(* one that only those on Windows accept.  A port is found with no bit set,    *)
(* with all, with all but CMSPAR, and with one bit of each kind alone.         *)
EXTENDS DioPure

BasicDef == [is_blocking : {0, 1}, timeout_secs : {0, 1}, timeout_usecs : {0, 1}]

Wrapped(n) == n + 2 * IntHalf

SerialDef == [rate : {0, 7200, 115200, Wrapped(115200)}, bits : 4 .. 8 \union {Wrapped(8)},
              stop : 1 .. 3 \union {Wrapped(2)}, parity : 0 .. 3 \union {1 - 2 * IntHalf},
              flow_control : {0, 1, Wrapped(0)}, is_canonical : {0, Wrapped(0)}]

FoundDef == {[rate |-> 9600, cflag |-> c] :
               c \in {{}, Bits, Bits \ {"CMSPAR"}}
                       \union {{b} : b \in {"size0", "PARODD", "CMSPAR", "CREAD", "HUPCL"}}}
=============================================================================
