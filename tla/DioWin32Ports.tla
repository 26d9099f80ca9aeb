---------------------------- MODULE DioWin32Ports ----------------------------
(***************************************************************************)
(* Serial streams on one port under Windows.  CreateFile() is called       *)
(* without sharing, so one handle at a time is open on the port, in any    *)
(* process, until it is closed or its process ends.  The driver keeps the  *)
(* settings (DCB) and the timeouts (COMMTIMEOUTS) of the port from one     *)
(* opening to the next.  A stream saves both and sets both; its close sets *)
(* the DCB back, and keeps the handle if it cannot.                        *)
(***************************************************************************)
EXTENDS Integers, Sequences

CONSTANTS
  Stream,     \* streams that may be opened on the port
  Process,    \* the PHP processes
  Owner,      \* the process each stream belongs to
  Line,       \* rates, data and stop bits, parity and flow control
  Rest,       \* what else a DCB holds
  Plain,      \* the member of Rest that dio_serial_init() sets
  Timeouts,   \* the COMMTIMEOUTS that options, and other programs, ask for
  Unset       \* what an olddcb or oldcto holds that was not filled

DCB == [line : Line, rest : Rest]

ASSUME PortAssumption ==
  /\ Owner \in [Stream -> Process]
  /\ Plain \in Rest
  /\ Unset \notin DCB /\ Unset \notin Timeouts

VARIABLES
  holder,          \* kernel: the streams whose handle is open on the port
  dcb, cto,        \* driver: settings and timeouts
  stage,           \* how far each stream's life is
  olddcb, oldcto,  \* stream data: what each stream found
  basedcb,         \* history: the settings when nobody held the port,
  basecto,         \* the timeouts then,
  spoilt           \* and whether since then one died, or was lost, that had set it

saved   == <<olddcb, oldcto>>
history == <<basedcb, basecto, spoilt>>
vars    == <<holder, dcb, cto, stage, saved, history>>

\* A "lost" stream is one PHP has no stream for any more, though it has not
\* closed its handle: restoring failed, or php_stream_alloc() did.
Stage   == {"unused", "created", "timed", "read", "open", "lost"}
Opening == {"created", "timed", "read"}

Init ==
  /\ holder = {}
  /\ dcb \in DCB /\ cto \in Timeouts
  /\ stage = [s \in Stream |-> "unused"]
  /\ olddcb = [s \in Stream |-> Unset]
  /\ oldcto = [s \in Stream |-> Unset]
  /\ basedcb = dcb /\ basecto = cto /\ spoilt = FALSE

\* A process makes one call at a time.
Busy(p) == \E s \in Stream : Owner[s] = p /\ stage[s] \in Opening

\* dio_serial_init() clears the whole DCB before it sets what the options say.
Configure(o) == [line |-> o, rest |-> Plain]

-----------------------------------------------------------------------------
(* Opening: dio_serial_open_stream(), dio_raw_open_stream() and              *)
(* dio_serial_init().                                                        *)

\* CreateFile() fails while any handle is open on the port.
CreateFile(s) ==
  /\ stage[s] = "unused" /\ ~Busy(Owner[s])
  /\ holder = {}
  /\ holder' = {s}
  /\ stage' = [stage EXCEPT ![s] = "created"]
  /\ basedcb' = dcb /\ basecto' = cto /\ spoilt' = FALSE
  /\ UNCHANGED <<dcb, cto, saved>>

\* GetCommTimeouts(), and SetCommTimeouts() with what the options t say.
SetTimeouts(s, t) ==
  /\ stage[s] = "created"
  /\ oldcto' = [oldcto EXCEPT ![s] = cto]
  /\ cto' = t
  /\ stage' = [stage EXCEPT ![s] = "timed"]
  /\ UNCHANGED <<holder, dcb, olddcb, history>>

\* Mutant of GetCommState: the stream keeps no settings of the port.
GetNothing(s) ==
  /\ stage[s] = "timed"
  /\ stage' = [stage EXCEPT ![s] = "read"]
  /\ UNCHANGED <<holder, dcb, cto, saved, history>>

GetCommState(s) ==
  /\ stage[s] = "timed"
  /\ olddcb' = [olddcb EXCEPT ![s] = dcb]
  /\ stage' = [stage EXCEPT ![s] = "read"]
  /\ UNCHANGED <<holder, dcb, cto, oldcto, history>>

\* Mutant of SetCommState: the settings are saved when they are already changed.
SetThenSave(s, o) ==
  /\ stage[s] = "read"
  /\ dcb' = Configure(o)
  /\ olddcb' = [olddcb EXCEPT ![s] = dcb']
  /\ stage' = [stage EXCEPT ![s] = "open"]
  /\ UNCHANGED <<holder, cto, oldcto, history>>

\* SetCommState() sets what the options o say; then php_stream_alloc() succeeds,
\* or the data structure is freed and the handle with its settings left.
SetCommState(s, o) ==
  /\ stage[s] = "read"
  /\ dcb' = Configure(o)
  /\ \/ /\ stage' = [stage EXCEPT ![s] = "open"]
        /\ UNCHANGED <<saved, spoilt>>
     \/ /\ stage' = [stage EXCEPT ![s] = "lost"]
        /\ olddcb' = [olddcb EXCEPT ![s] = Unset]
        /\ oldcto' = [oldcto EXCEPT ![s] = Unset]
        /\ spoilt' = TRUE
  /\ UNCHANGED <<holder, cto, basedcb, basecto>>

\* Mutant of OpenFails: the handle is not closed.
OpenFailsOnly(s) ==
  /\ stage[s] \in Opening
  /\ stage' = [stage EXCEPT ![s] = "unused"]
  /\ olddcb' = [olddcb EXCEPT ![s] = Unset]
  /\ oldcto' = [oldcto EXCEPT ![s] = Unset]
  /\ UNCHANGED <<holder, dcb, cto, history>>

\* One of the four calls fails, or dio_serial_init() refuses an option, which it
\* looks at when the timeouts are already set; the handle is closed.
OpenFails(s) ==
  /\ stage[s] \in Opening
  /\ holder' = holder \ {s}
  /\ stage' = [stage EXCEPT ![s] = "unused"]
  /\ olddcb' = [olddcb EXCEPT ![s] = Unset]
  /\ oldcto' = [oldcto EXCEPT ![s] = Unset]
  /\ UNCHANGED <<dcb, cto, history>>

-----------------------------------------------------------------------------

\* dio_common_set_option() sets the timeouts t; DioCanonBuffer says which.
dio_common_set_option(s, t) ==
  /\ stage[s] = "open" /\ ~Busy(Owner[s])
  /\ cto' = t
  /\ UNCHANGED <<holder, dcb, stage, saved, history>>

\* Mutant of dio_serial_stream_close: the settings are not set back.
CloseHandleOnly(s) ==
  /\ stage[s] = "open" /\ ~Busy(Owner[s])
  /\ holder' = holder \ {s}
  /\ stage' = [stage EXCEPT ![s] = "unused"]
  /\ olddcb' = [olddcb EXCEPT ![s] = Unset]
  /\ oldcto' = [oldcto EXCEPT ![s] = Unset]
  /\ UNCHANGED <<dcb, cto, history>>

\* dio_serial_uninit() sets the saved settings and the handle is closed, or it
\* fails and the close ends there.
dio_serial_stream_close(s) ==
  /\ stage[s] = "open" /\ ~Busy(Owner[s])
  /\ \/ /\ dcb' = olddcb[s]
        /\ holder' = holder \ {s}
        /\ stage' = [stage EXCEPT ![s] = "unused"]
        /\ olddcb' = [olddcb EXCEPT ![s] = Unset]
        /\ oldcto' = [oldcto EXCEPT ![s] = Unset]
        /\ UNCHANGED spoilt
     \/ /\ stage' = [stage EXCEPT ![s] = "lost"]
        /\ spoilt' = TRUE
        /\ UNCHANGED <<dcb, holder, saved>>
  /\ UNCHANGED <<cto, basedcb, basecto>>

\* Another program sets up the port, which it can while nobody holds it.
OtherProgram(d, t) ==
  /\ holder = {}
  /\ dcb' = d /\ cto' = t
  /\ basedcb' = d /\ basecto' = t
  /\ UNCHANGED <<holder, stage, saved, spoilt>>

\* Windows closes the handles of a process that ends.
Die(p) ==
  LET his == {s \in Stream : Owner[s] = p}
      reset(f, v) == [s \in Stream |-> IF s \in his THEN v ELSE f[s]]
  IN  /\ holder' = holder \ his
      /\ stage' = reset(stage, "unused")
      /\ olddcb' = reset(olddcb, Unset)
      /\ oldcto' = reset(oldcto, Unset)
      /\ spoilt' = (spoilt \/ \E s \in his : stage[s] = "open")
      /\ UNCHANGED <<dcb, cto, basedcb, basecto>>

Next ==
  \/ \E s \in Stream :
       \/ CreateFile(s) \/ GetCommState(s) \/ OpenFails(s)
       \/ \E o \in Line : SetCommState(s, o)
       \/ \E t \in Timeouts : SetTimeouts(s, t) \/ dio_common_set_option(s, t)
       \/ dio_serial_stream_close(s)
  \/ \E d \in DCB, t \in Timeouts : OtherProgram(d, t)
  \/ \E p \in Process : Die(p)

Spec == Init /\ [][Next]_vars

-----------------------------------------------------------------------------
(* Properties. *)

\* A stream that may come to set saved settings has filled olddcb.
TypeOK ==
  /\ holder \subseteq Stream
  /\ dcb \in DCB /\ basedcb \in DCB
  /\ cto \in Timeouts /\ basecto \in Timeouts
  /\ stage \in [Stream -> Stage]
  /\ olddcb \in [Stream -> DCB \union {Unset}]
  /\ oldcto \in [Stream -> Timeouts \union {Unset}]
  /\ \A s \in Stream : stage[s] \in {"read", "open"} => olddcb[s] # Unset
  /\ spoilt \in BOOLEAN

\* "Restores the serial settings back to their original state" (dio_win32.c:657):
\* a port that nobody holds has the settings it was found with, whatever failed
\* while streams were opened, unless one that had set it died or was lost.
GivenBack == holder = {} /\ ~spoilt => dcb = basedcb

\* No failure on the way to an open stream keeps the port from other openers:
\* who holds it is the one stream that a process opens or has, or has lost.
HeldForSomebody ==
  /\ \A s \in Stream : s \in holder <=> stage[s] # "unused"
  /\ \A s, t \in holder : s = t

\* The settings that an open stream found, and those in effect.
Found ==
  IF spoilt THEN <<>>
  ELSE IF \E s \in Stream : stage[s] = "open"
  THEN <<olddcb[CHOOSE s \in Stream : stage[s] = "open"], dcb>>
  ELSE <<dcb>>

Stack == INSTANCE SettingsStack WITH Settings <- DCB, stack <- Found

\* Like streams on POSIX, those on Windows implement the stack of settings,
\* here of one stream at a time.
IsStack == Stack!Spec

\* "Restores the serial settings to their value before the stream was open"
\* (dio_stream_wrappers.c:248): a close that succeeds brings back the timeouts
\* as well, which the stream saved and the driver keeps for the next opening.
TimeoutsGivenBack ==
  [][\A s \in Stream : dio_serial_stream_close(s) /\ s \notin holder' => cto' = oldcto[s]]_vars

=============================================================================
