--------------------------- MODULE DioSerialPorts ---------------------------
(***************************************************************************)
(* The settings (termios) of a serial port that dio_serial streams of      *)
(* several PHP processes open, on POSIX.  A stream saves the settings it   *)
(* finds, reads them a second time, changes what its options say and sets  *)
(* the result; its close sets what it saved.  The port keeps its settings  *)
(* when nobody has it open, and belongs to nobody: other processes open,   *)
(* close, set and die between any two of these calls.  What a stream wrote *)
(* waits in the port's output queue until it is sent, or discarded by the  *)
(* flush of a stream that may write.                                       *)
(***************************************************************************)
EXTENDS Integers, Sequences

CONSTANTS
  Stream,     \* streams that may be open on the port at a time
  Process,    \* the PHP processes
  Owner,      \* the process each stream belongs to
  Writer,     \* the streams that are opened for writing
  Line,       \* rates, data and stop bits, parity and flow control
  Wait,       \* VMIN and VTIME: when a raw read() returns
  OneByte,    \* the member of Wait that cfmakeraw() chooses: VMIN 1, VTIME 0
  Unset       \* what an oldtio holds that tcgetattr() has not filled

Mode     == {"canonical", "raw"}
Settings == [mode : Mode, line : Line, wait : Wait]
Options  == [mode : Mode, line : Line]  \* is_canonical and the line's options

ASSUME SerialAssumption ==
  /\ Owner \in [Stream -> Process]
  /\ Writer \subseteq Stream
  /\ OneByte \in Wait
  /\ Unset \notin Settings

VARIABLES
  settings,  \* the port's termios
  stage,     \* how far each stream's life is
  oldtio,    \* the settings each stream found
  tio,       \* the local copy that dio_serial_init changes and sets
  wrote,     \* the streams PHP will flush at their close, as they wrote
  unsent,    \* the streams with bytes of theirs in the port's output queue
  base,      \* history: the settings of the port when no stream uses it
  nest,      \* history: the open streams, the last one opened last
  tangled    \* history: the nesting was broken since the port was unused

streams == <<stage, oldtio, tio>>
output  == <<wrote, unsent>>
vars    == <<settings, stage, oldtio, tio, output, base, nest, tangled>>

\* A stream that failed php_stream_alloc() is "lost": its descriptor is open,
\* its data structure, with what it saved, is freed.
Stage   == {"unused", "opened", "saved", "read", "open", "lost"}
Opening == {"opened", "saved", "read"}

Init ==
  /\ settings \in Settings
  /\ stage = [s \in Stream |-> "unused"]
  /\ oldtio = [s \in Stream |-> Unset]
  /\ tio = [s \in Stream |-> Unset]
  /\ wrote = {} /\ unsent = {}
  /\ base = settings
  /\ nest = <<>>
  /\ tangled = FALSE

\* A process makes one call at a time.
Busy(p) == \E s \in Stream : Owner[s] = p /\ stage[s] \in Opening

Unused == \A s \in Stream : stage[s] = "unused"

\* The settings change while another stream is between its two tcgetattr()s,
\* or between the second one and tcsetattr(): it will set or restore old ones.
Races(s) == \E t \in Stream \ {s} : stage[t] \in {"saved", "read"}

\* Settings that no stream's option names are kept; those of a canonical
\* stream keep the port's VMIN and VTIME, cfmakeraw() sets them.
Configure(t, o) ==
  [mode |-> o.mode,
   line |-> o.line,
   wait |-> IF o.mode = "raw" THEN OneByte ELSE t.wait]

Tangle(broken) ==
  /\ tangled' = (tangled \/ broken)
  /\ nest' = IF tangled' THEN <<>> ELSE nest

-----------------------------------------------------------------------------
(* Opening: dio_serial_open_stream() and, once the descriptor is open,       *)
(* dio_serial_init().  An option it refuses is a stuttering step.            *)

OpenDescriptor(s) ==
  /\ stage[s] = "unused"
  /\ ~Busy(Owner[s])
  /\ stage' = [stage EXCEPT ![s] = "opened"]
  /\ IF Unused
     THEN base' = settings /\ nest' = <<>> /\ tangled' = FALSE
     ELSE UNCHANGED <<base, nest, tangled>>
  /\ UNCHANGED <<settings, oldtio, tio, output>>

SaveSettings(s) ==
  /\ stage[s] = "opened"
  /\ oldtio' = [oldtio EXCEPT ![s] = settings]
  /\ stage' = [stage EXCEPT ![s] = "saved"]
  /\ UNCHANGED <<settings, tio, output, base, nest, tangled>>

\* Mutant of ReadSettings: the second tcgetattr() fills oldtio too, the first
\* is not made.
ReadSettingsOnce(s) ==
  /\ stage[s] = "opened"
  /\ tio' = [tio EXCEPT ![s] = settings]
  /\ stage' = [stage EXCEPT ![s] = "read"]
  /\ UNCHANGED <<settings, oldtio, output, base, nest, tangled>>

ReadSettings(s) ==
  /\ stage[s] = "saved"
  /\ tio' = [tio EXCEPT ![s] = settings]
  /\ stage' = [stage EXCEPT ![s] = "read"]
  /\ UNCHANGED <<settings, oldtio, output, base, nest, tangled>>

\* Any of the three calls fails and the descriptor is closed again; a signal
\* that interrupts tcsetattr() is such a failure here.
InitFails(s) ==
  /\ stage[s] \in Opening
  /\ stage' = [stage EXCEPT ![s] = "unused"]
  /\ oldtio' = [oldtio EXCEPT ![s] = Unset]
  /\ tio' = [tio EXCEPT ![s] = Unset]
  /\ UNCHANGED <<settings, output, base, nest, tangled>>

\* Mutant of SetSettings: the settings are saved when they are already changed.
SetSettingsFirst(s, o) ==
  /\ stage[s] = "read"
  /\ settings' = Configure(tio[s], o)
  /\ tio' = [tio EXCEPT ![s] = Unset]
  /\ oldtio' = [oldtio EXCEPT ![s] = settings']
  /\ stage' = [stage EXCEPT ![s] = "open"]
  /\ tangled' = (tangled \/ Races(s))
  /\ nest' = IF tangled' THEN <<>> ELSE Append(nest, s)
  /\ UNCHANGED <<base, output>>

\* tcsetattr() sets what the stream's options o say; then php_stream_alloc()
\* succeeds, or the wrapper frees the data structure and leaves the descriptor
\* and the settings as they are.
SetSettings(s, o) ==
  /\ stage[s] = "read"
  /\ settings' = Configure(tio[s], o)
  /\ tio' = [tio EXCEPT ![s] = Unset]
  /\ \/ /\ stage' = [stage EXCEPT ![s] = "open"]
        /\ tangled' = (tangled \/ Races(s))
        /\ nest' = IF tangled' THEN <<>> ELSE Append(nest, s)
        /\ UNCHANGED oldtio
     \/ /\ stage' = [stage EXCEPT ![s] = "lost"]
        /\ oldtio' = [oldtio EXCEPT ![s] = Unset]
        /\ Tangle(TRUE)
  /\ UNCHANGED <<base, output>>

-----------------------------------------------------------------------------
(* Closing, and what else changes the settings.                              *)

Innermost(s) == nest # <<>> /\ s = nest[Len(nest)]

\* Mutant of Purged: the first test is for O_RDONLY, which is 0 and always true.
PurgedInput(s) == {}

\* tcflush(), which nothing makes fail on an open port, discards what the
\* descriptor is open for: the output of everyone if it may write.  (Nothing
\* here depends on the input.)
Purged(s) == IF s \in Writer THEN unsent ELSE {}

\* What the flush discards that PHP makes at the close of a stream that wrote.
Flushed(s) == IF s \in wrote THEN Purged(s) ELSE {}

\* Mutant of dio_serial_stream_close: the settings are not restored.
CloseDescriptorOnly(s) ==
  /\ stage[s] = "open"
  /\ ~Busy(Owner[s])
  /\ UNCHANGED settings
  /\ tangled' = (tangled \/ Races(s) \/ ~Innermost(s))
  /\ nest' = IF tangled' THEN <<>> ELSE SubSeq(nest, 1, Len(nest) - 1)
  /\ stage' = [stage EXCEPT ![s] = "unused"]
  /\ oldtio' = [oldtio EXCEPT ![s] = Unset]
  /\ unsent' = unsent \ Flushed(s)
  /\ wrote' = wrote \ {s}
  /\ UNCHANGED <<tio, base>>

\* PHP flushes the stream if it wrote.  dio_serial_uninit() is repeated while
\* signals interrupt it and reports success when it failed for another reason;
\* the descriptor is then closed.
dio_serial_stream_close(s) ==
  /\ stage[s] = "open"
  /\ ~Busy(Owner[s])
  /\ \/ /\ settings' = oldtio[s]
        /\ tangled' = (tangled \/ Races(s) \/ ~Innermost(s))
     \/ /\ UNCHANGED settings
        /\ tangled' = TRUE
  /\ nest' = IF tangled' THEN <<>> ELSE SubSeq(nest, 1, Len(nest) - 1)
  /\ stage' = [stage EXCEPT ![s] = "unused"]
  /\ oldtio' = [oldtio EXCEPT ![s] = Unset]
  /\ unsent' = unsent \ Flushed(s)
  /\ wrote' = wrote \ {s}
  /\ UNCHANGED <<tio, base>>

\* The settings become c, which the next users find and the present ones have.
ChangeSettings(c) ==
  /\ settings' = c
  /\ Tangle(\E t \in Stream : stage[t] \in {"saved", "read"})
  /\ base' = IF nest = <<>> THEN c ELSE base
  /\ UNCHANGED <<streams, output>>

\* A legacy resource on the port: every field the options name is replaced,
\* and VMIN and VTIME are set for both modes.
dio_tcsetattr(p, o) ==
  /\ ~Busy(p)
  /\ ChangeSettings([mode |-> o.mode, line |-> o.line, wait |-> OneByte])

\* Another program, such as stty.
Stty(c) == ChangeSettings(c)

\* write() puts bytes into the port's queue, or fails; PHP remembers both.
dio_common_write(s) ==
  /\ stage[s] = "open" /\ s \in Writer
  /\ ~Busy(Owner[s])
  /\ wrote' = wrote \union {s}
  /\ unsent' \in {unsent, unsent \union {s}}
  /\ UNCHANGED <<settings, streams, base, nest, tangled>>

\* A script calls fflush(), and PHP forgets that the stream wrote.
dio_serial_purge(s) ==
  /\ stage[s] = "open"
  /\ ~Busy(Owner[s])
  /\ wrote' = wrote \ {s}
  /\ unsent' = unsent \ Purged(s)
  /\ UNCHANGED <<settings, streams, base, nest, tangled>>

\* The port has sent what s wrote.
Transmit(s) ==
  /\ s \in unsent
  /\ unsent' = unsent \ {s}
  /\ UNCHANGED <<settings, streams, wrote, base, nest, tangled>>

\* The kernel closes the descriptors of a process that is killed; nobody owns
\* its output any more.
Die(p) ==
  LET his == {s \in Stream : Owner[s] = p}
      reset(f, v) == [s \in Stream |-> IF s \in his THEN v ELSE f[s]]
  IN  /\ stage' = reset(stage, "unused")
      /\ oldtio' = reset(oldtio, Unset)
      /\ tio' = reset(tio, Unset)
      /\ wrote' = wrote \ his /\ unsent' = unsent \ his
      /\ Tangle(\E s \in his : stage[s] = "open")
      /\ UNCHANGED <<settings, base>>

Next ==
  \/ \E s \in Stream :
       \/ OpenDescriptor(s) \/ SaveSettings(s) \/ ReadSettings(s) \/ InitFails(s)
       \/ \E o \in Options : SetSettings(s, o)
       \/ dio_serial_stream_close(s)
       \/ dio_common_write(s) \/ dio_serial_purge(s) \/ Transmit(s)
  \/ \E p \in Process : Die(p) \/ \E o \in Options : dio_tcsetattr(p, o)
  \/ \E c \in Settings : Stty(c)

Spec == Init /\ [][Next]_vars

-----------------------------------------------------------------------------
(* Properties. *)

\* A stream that may come to restore settings has saved some: oldtio is never
\* used unfilled, on whatever path dio_serial_init ended.
TypeOK ==
  /\ settings \in Settings /\ base \in Settings
  /\ stage \in [Stream -> Stage]
  /\ oldtio \in [Stream -> Settings \union {Unset}]
  /\ tio \in [Stream -> Settings \union {Unset}]
  /\ \A s \in Stream : stage[s] \in {"saved", "read", "open"} => oldtio[s] # Unset
  /\ \A s \in Stream : stage[s] = "read" => tio[s] # Unset
  /\ wrote \subseteq Writer /\ unsent \subseteq Writer
  /\ nest \in Seq(Stream)
  /\ tangled \in BOOLEAN

\* The port has the settings of its users back when the last stream is closed
\* (dio_stream_wrappers.c: "Restores the serial settings to their value before
\* the stream was open"): however many streams of however many processes were
\* open, if each closed before those it came after and nobody else set the
\* port while one was opening.
GivenBack == Unused /\ ~tangled => settings = base

\* The settings as a stack: what each open stream found, and those in effect.
Found ==
  IF tangled THEN <<>>
  ELSE [i \in 1 .. Len(nest) + 1 |->
          IF i <= Len(nest) THEN oldtio[nest[i]] ELSE settings]

Stack == INSTANCE SettingsStack WITH stack <- Found

\* Nested streams implement the stack of settings: the close of each brings
\* back what the stream below it had set, also if the options, dio_tcsetattr
\* or another program changed the settings in between.
IsStack == Stack!Spec

\* The close of a stream restores the settings at once (TCSANOW), without waiting
\* for the output: no byte that the stream wrote is sent with these settings.
SentAsWritten ==
  [][\A s \in Stream :
       stage[s] = "open" /\ stage'[s] = "unused" /\ settings' # settings => s \notin unsent']_vars
=============================================================================
