------------------------ MODULE DioSerialPortsProofs ------------------------
(***************************************************************************)
(* Proofs about DioSerialPorts, for any processes, streams and settings.   *)
(* GivenBack is not inductive: what a close restores depends on where the  *)
(* stream is in the nest.  IInv adds that the nest holds open streams, no  *)
(* one twice (Nested), that the outermost one found the settings of the    *)
(* unused port, and that a stream on its way to tcsetattr() still holds    *)
(* the settings in effect (Chained).                                       *)
(***************************************************************************)
EXTENDS DioSerialPorts, SequenceTheorems, TLAPS

Nested ==
  /\ tangled => nest = <<>>
  /\ \A i \in 1 .. Len(nest) : stage[nest[i]] = "open"
  /\ \A i, j \in 1 .. Len(nest) : nest[i] = nest[j] => i = j

Chained ==
  ~tangled =>
    /\ nest = <<>> => settings = base
    /\ nest # <<>> => oldtio[nest[1]] = base
    /\ \A s \in Stream : stage[s] \in {"saved", "read"} => oldtio[s] = settings

IInv == TypeOK /\ Nested /\ Chained

\* What is still to be sent was written through a stream that is open, may
\* write, and that PHP knows to have written.
OutputOK == \A s \in unsent : s \in Writer /\ s \in wrote /\ stage[s] = "open"

USE DEF Stage, Opening, output

-----------------------------------------------------------------------------
(* Facts about the nest and the stack of settings. *)

LEMMA NestLength ==
  ASSUME TypeOK
  PROVE  /\ Len(nest) \in Nat
         /\ nest = <<>> <=> Len(nest) = 0
         /\ \A i \in 1 .. Len(nest) : nest[i] \in Stream
BY EmptySeq, LenProperties, ElementOfSeq DEF TypeOK

\* The stack that saved settings f, a nest n and the settings c in effect make.
LEMMA FoundIsStack ==
  ASSUME NEW n \in Seq(Stream), NEW f, NEW c \in Settings,
         \A i \in 1 .. Len(n) : f[n[i]] \in Settings,
         NEW k, k = [i \in 1 .. Len(n) + 1 |-> IF i <= Len(n) THEN f[n[i]] ELSE c]
  PROVE  /\ k \in Seq(Settings)
         /\ Len(k) = Len(n) + 1
         /\ k # <<>>
         /\ \A i \in 1 .. Len(n) : k[i] = f[n[i]]
         /\ k[Len(n) + 1] = c
<1>1. Len(n) \in Nat
  BY LenProperties
<1>2. k \in [1 .. Len(n) + 1 -> Settings]
  BY <1>1
<1>3. k \in Seq(Settings)
  BY <1>1, <1>2, SeqDef
<1>4. Len(k) = Len(n) + 1
  BY <1>1, <1>2, <1>3, LenProperties
<1>5. k # <<>>
  BY <1>1, <1>4, EmptySeq
<1>. QED  BY <1>1, <1>3, <1>4, <1>5

LEMMA FoundNow ==
  ASSUME IInv, ~tangled
  PROVE  /\ Found \in Seq(Settings)
         /\ Len(Found) = Len(nest) + 1
         /\ Found # <<>>
         /\ \A i \in 1 .. Len(nest) : Found[i] = oldtio[nest[i]]
         /\ Found[Len(nest) + 1] = settings
<1>1. \A i \in 1 .. Len(nest) : oldtio[nest[i]] \in Settings
  BY NestLength DEF IInv, TypeOK, Nested
<1>2. nest \in Seq(Stream) /\ settings \in Settings
  BY DEF IInv, TypeOK
<1>. QED  BY <1>1, <1>2, FoundIsStack DEF Found

LEMMA FoundNext ==
  ASSUME IInv', ~tangled'
  PROVE  /\ Found' \in Seq(Settings)
         /\ Len(Found') = Len(nest') + 1
         /\ Found' # <<>>
         /\ \A i \in 1 .. Len(nest') : Found'[i] = oldtio'[nest'[i]]
         /\ Found'[Len(nest') + 1] = settings'
<1>1. nest' \in Seq(Stream) /\ settings' \in Settings
  BY DEF IInv, TypeOK
<1>2. \A i \in 1 .. Len(nest') : oldtio'[nest'[i]] \in Settings
  BY <1>1, LenProperties, ElementOfSeq DEF IInv, TypeOK, Nested
<1>. QED  BY <1>1, <1>2, FoundIsStack DEF Found

LEMMA FoundTangled == tangled => Found = <<>>
  BY DEF Found

\* A step after which the nesting is broken is a step of the stack.
LEMMA TangledStep ==
  ASSUME IInv, tangled'
  PROVE  [Stack!Next]_Found
<1>1. Found' = <<>>
  BY DEF Found
<1>2. CASE tangled
  BY <1>1, <1>2, FoundTangled
<1>3. CASE ~tangled
  BY <1>1, <1>3, FoundNow DEF Stack!Next, Stack!Abandon, Stack!Kept
<1>. QED  BY <1>2, <1>3

\* The invariant holds when the nesting is broken and the types are kept.
LEMMA TangledIInv ==
  ASSUME TypeOK', tangled', nest' = <<>>
  PROVE  IInv'
BY EmptySeq DEF IInv, Nested, Chained

LEMMA SettingsType ==
  ASSUME SerialAssumption
  PROVE  /\ Unset \notin Settings
         /\ \A t \in Settings, o \in Options : Configure(t, o) \in Settings
         /\ \A o \in Options :
              [mode |-> o.mode, line |-> o.line, wait |-> OneByte] \in Settings
BY DEF SerialAssumption, Settings, Options, Mode, Configure

-----------------------------------------------------------------------------
(* Opening. *)

\* A step of one stream that leaves settings, nest and the saved settings of
\* the nested streams alone.
LEMMA AsideStep ==
  ASSUME IInv, TypeOK', UNCHANGED <<settings, base, nest, tangled>>,
         NEW s \in Stream, stage[s] # "open",
         \A t \in Stream \ {s} : stage'[t] = stage[t] /\ oldtio'[t] = oldtio[t],
         stage'[s] \in {"saved", "read"} => oldtio'[s] = settings \/ tangled
  PROVE  IInv' /\ [Stack!Next]_Found
<1>1. \A i \in 1 .. Len(nest) : nest[i] \in Stream \ {s}
  BY NestLength DEF IInv, Nested
<1>2. Nested'
  BY <1>1 DEF IInv, Nested
<1>3. Chained'
  <2>1. nest # <<>> => oldtio'[nest[1]] = oldtio[nest[1]]
    BY <1>1, NestLength DEF IInv
  <2>. QED  BY <2>1 DEF IInv, Chained
<1>4. CASE tangled
  BY <1>2, <1>3, <1>4, TangledStep DEF IInv
<1>5. CASE ~tangled
  <2>1. IInv'
    BY <1>2, <1>3 DEF IInv
  <2>2. Found' = Found
    BY <1>1, <1>5, <2>1, NestLength, FoundNow, FoundNext, SeqEqual DEF IInv
  <2>. QED  BY <2>1, <2>2
<1>. QED  BY <1>4, <1>5

LEMMA OpenDescriptorStep ==
  ASSUME SerialAssumption, IInv, NEW s \in Stream, OpenDescriptor(s)
  PROVE  IInv' /\ [Stack!Next]_Found
<1>1. TypeOK'
  BY EmptySeq DEF IInv, TypeOK, OpenDescriptor
<1>2. CASE ~Unused
  BY <1>1, <1>2, AsideStep DEF OpenDescriptor, IInv, TypeOK
<1>3. CASE Unused
  <2>1. nest = <<>>
    BY <1>3, NestLength DEF Unused, IInv, Nested
  <2>2. /\ nest' = <<>> /\ ~tangled' /\ base' = settings /\ settings' = settings
        /\ \A t \in Stream : stage'[t] \in {"unused", "opened"}
    BY <1>3 DEF OpenDescriptor, Unused, IInv, TypeOK
  <2>3. IInv'
    BY <1>1, <2>2, EmptySeq DEF IInv, Nested, Chained
  <2>4. /\ settings \in Settings
        /\ <<settings>> \in Seq(Settings) /\ Len(<<settings>>) = 1 /\ <<settings>>[1] = settings
        /\ Len(<<>>) = 0
    BY DEF IInv, TypeOK
  <2>5. Found' = <<settings>>
    BY <2>2, <2>3, <2>4, FoundNext, SeqEqual
  <2>6. CASE tangled
    BY <2>3, <2>4, <2>5, <2>6, FoundTangled DEF Stack!Next, Stack!Restart, Stack!Kept
  <2>7. CASE ~tangled
    BY <2>1, <2>3, <2>4, <2>5, <2>7, FoundNow, SeqEqual
  <2>. QED  BY <2>3, <2>6, <2>7
<1>. QED  BY <1>2, <1>3

LEMMA SaveSettingsStep ==
  ASSUME SerialAssumption, IInv, NEW s \in Stream, SaveSettings(s)
  PROVE  IInv' /\ [Stack!Next]_Found
<1>1. TypeOK'
  BY SettingsType DEF IInv, TypeOK, SaveSettings
<1>. QED  BY <1>1, AsideStep DEF SaveSettings, IInv, TypeOK

LEMMA ReadSettingsStep ==
  ASSUME SerialAssumption, IInv, NEW s \in Stream, ReadSettings(s)
  PROVE  IInv' /\ [Stack!Next]_Found
<1>1. TypeOK'
  BY SettingsType DEF IInv, TypeOK, ReadSettings
<1>2. oldtio[s] = settings \/ tangled
  BY DEF ReadSettings, IInv, Chained
<1>. QED  BY <1>1, <1>2, AsideStep DEF ReadSettings, IInv, TypeOK

LEMMA InitFailsStep ==
  ASSUME SerialAssumption, IInv, NEW s \in Stream, InitFails(s)
  PROVE  IInv' /\ [Stack!Next]_Found
<1>1. TypeOK'
  BY DEF IInv, TypeOK, InitFails
<1>. QED  BY <1>1, AsideStep DEF InitFails, IInv, TypeOK

\* tcsetattr() in dio_serial_init: the settings of the new stream go on top.
LEMMA SetSettingsStep ==
  ASSUME SerialAssumption, IInv, NEW s \in Stream, NEW o \in Options, SetSettings(s, o)
  PROVE  IInv' /\ [Stack!Next]_Found
<1>1. /\ stage[s] = "read" /\ tio[s] \in Settings
      /\ settings' = Configure(tio[s], o) /\ settings' \in Settings
      /\ base' = base /\ UNCHANGED <<wrote, unsent>>
      /\ \A t \in Stream \ {s} : stage'[t] = stage[t] /\ oldtio'[t] = oldtio[t]
  BY SettingsType DEF SetSettings, IInv, TypeOK
<1>2. CASE tangled'
  <2>1. nest' = <<>>
    BY <1>2 DEF SetSettings, Tangle
  <2>2. TypeOK'
    BY <1>1, <1>2, <2>1, EmptySeq DEF SetSettings, Tangle, IInv, TypeOK
  <2>. QED  BY <1>2, <2>1, <2>2, TangledStep, TangledIInv
<1>3. CASE ~tangled'
  <2>1. /\ ~tangled /\ ~Races(s)
        /\ nest' = Append(nest, s)
        /\ stage' = [stage EXCEPT ![s] = "open"]
        /\ oldtio' = oldtio
    BY <1>3 DEF SetSettings, Tangle, IInv, TypeOK
  <2>2. /\ nest \in Seq(Stream) /\ nest' \in Seq(Stream)
        /\ Len(nest') = Len(nest) + 1 /\ nest' # <<>>
        /\ \A i \in 1 .. Len(nest) : nest'[i] = nest[i]
        /\ nest'[Len(nest) + 1] = s
    BY <2>1, AppendProperties DEF IInv, TypeOK
  <2>3. TypeOK'
    BY <1>1, <2>1, <2>2, SettingsType, <1>3 DEF SetSettings, IInv, TypeOK
  <2>4. \A i \in 1 .. Len(nest) : nest[i] \in Stream \ {s}
    BY <1>1, NestLength DEF IInv, Nested
  <2>5. Nested'
    BY <1>3, <2>1, <2>2, <2>4, NestLength DEF IInv, Nested, TypeOK
  <2>6. oldtio[s] = settings
    BY <1>1, <2>1 DEF IInv, Chained
  <2>7. Chained'
    <3>1. oldtio'[nest'[1]] = base'
      <4>1. CASE nest = <<>>
        BY <4>1, <1>1, <2>1, <2>2, <2>6, NestLength DEF IInv, Chained
      <4>2. CASE nest # <<>>
        BY <4>2, <1>1, <2>1, <2>2, NestLength DEF IInv, Chained
      <4>. QED  BY <4>1, <4>2
    <3>2. \A t \in Stream : stage'[t] \notin {"saved", "read"}
      BY <2>1 DEF Races, IInv, TypeOK
    <3>. QED  BY <2>2, <3>1, <3>2 DEF Chained
  <2>8. IInv'
    BY <2>3, <2>5, <2>7 DEF IInv
  <2>9. Found' = Append(Found, settings')
    <3>1. /\ Append(Found, settings') \in Seq(Settings)
          /\ Len(Append(Found, settings')) = Len(nest) + 2
          /\ \A i \in 1 .. Len(nest) + 1 : Append(Found, settings')[i] = Found[i]
          /\ Append(Found, settings')[Len(nest) + 2] = settings'
      BY <1>1, <2>1, FoundNow, NestLength, AppendProperties DEF IInv
    <3>2. \A i \in 1 .. Len(nest) + 2 : Found'[i] = Append(Found, settings')[i]
      BY <1>3, <2>1, <2>2, <2>6, <2>8, <3>1, FoundNow, FoundNext, NestLength DEF IInv
    <3>. QED  BY <1>3, <2>2, <2>8, <3>1, <3>2, FoundNext, SeqEqual, NestLength DEF IInv
  <2>. QED  BY <1>1, <2>1, <2>8, <2>9, FoundNow DEF Stack!Next, Stack!Open, Stack!Kept
<1>. QED  BY <1>2, <1>3 DEF IInv, TypeOK

-----------------------------------------------------------------------------
(* Closing, and what else changes the settings. *)

\* The close of the innermost stream takes its settings off the stack.
LEMMA CloseStep ==
  ASSUME SerialAssumption, IInv, NEW s \in Stream, dio_serial_stream_close(s)
  PROVE  IInv' /\ [Stack!Next]_Found
<1>1. /\ stage[s] = "open" /\ stage' = [stage EXCEPT ![s] = "unused"]
      /\ oldtio[s] \in Settings /\ settings' \in {settings, oldtio[s]}
      /\ oldtio' = [oldtio EXCEPT ![s] = Unset]
      /\ base' = base /\ tio' = tio
      /\ wrote' \subseteq wrote /\ unsent' \subseteq unsent
  BY DEF dio_serial_stream_close, IInv, TypeOK
<1>2. CASE tangled'
  <2>1. nest' = <<>>
    BY <1>2 DEF dio_serial_stream_close
  <2>2. TypeOK'
    BY <1>1, <1>2, <2>1, EmptySeq DEF IInv, TypeOK
  <2>. QED  BY <1>2, <2>1, <2>2, TangledStep, TangledIInv
<1>3. CASE ~tangled'
  <2>1. /\ ~tangled /\ ~Races(s) /\ Innermost(s)
        /\ settings' = oldtio[s]
        /\ nest' = SubSeq(nest, 1, Len(nest) - 1)
    BY <1>3 DEF dio_serial_stream_close, IInv, TypeOK
  <2>2. /\ nest # <<>> /\ Len(nest) \in Nat \ {0}
        /\ nest[Len(nest)] = s
    BY <2>1, NestLength DEF Innermost, IInv
  <2>3. /\ nest' \in Seq(Stream)
        /\ Len(nest') = Len(nest) - 1
        /\ \A i \in 1 .. Len(nest) - 1 : nest'[i] = nest[i]
    <3>1. \A i \in 1 .. Len(nest) - 1 : nest[i] \in Stream
      BY <2>2, NestLength DEF IInv
    <3> DEFINE l == Len(nest) - 1
    <3>2. 1 \in Int /\ l \in Int /\ l >= 0
      BY <2>2
    <3>3. \A i \in 1 .. l : nest[i] \in Stream
      BY <3>1
    <3>. HIDE DEF l
    <3>4. /\ SubSeq(nest, 1, l) \in Seq(Stream)
          /\ Len(SubSeq(nest, 1, l)) = l
          /\ \A i \in 1 .. l : SubSeq(nest, 1, l)[i] = nest[i]
      BY <3>2, <3>3, SubSeqProperties
    <3>. QED  BY <2>1, <3>4 DEF l
  <2>4. TypeOK'
    <3>1. settings' \in Settings /\ tangled' \in BOOLEAN
      BY <1>1, <1>3, <2>1 DEF dio_serial_stream_close, IInv, TypeOK
    <3>2. /\ stage' \in [Stream -> Stage]
          /\ oldtio' \in [Stream -> Settings \union {Unset}]
          /\ \A t \in Stream : stage'[t] \in {"saved", "read", "open"} => oldtio'[t] # Unset
          /\ \A t \in Stream : stage'[t] = "read" => tio'[t] # Unset
      BY <1>1 DEF IInv, TypeOK
    <3>. QED  BY <1>1, <2>3, <3>1, <3>2 DEF IInv, TypeOK
  <2>5. \A i \in 1 .. Len(nest) - 1 : nest[i] \in Stream \ {s}
    BY <2>2, NestLength DEF IInv, Nested
  <2>6. Nested'
    BY <1>1, <1>3, <2>2, <2>3, <2>5 DEF IInv, Nested, TypeOK
  <2>7. Chained'
    <3>1. nest' = <<>> => settings' = base'
      <4>1. ASSUME nest' = <<>>
            PROVE  nest[1] = s
        <5>1. Len(nest') = 0
          BY <4>1, EmptySeq
        <5>2. Len(nest) = 1
          BY <5>1, <2>2, <2>3
        <5>. QED  BY <5>2, <2>2
      <4>. QED  BY <1>1, <2>1, <2>2, <4>1 DEF IInv, Chained
    <3>2. nest' # <<>> => oldtio'[nest'[1]] = base'
      <4>1. ASSUME nest' # <<>>
            PROVE  nest'[1] = nest[1] /\ nest[1] \in Stream \ {s}
        BY <4>1, <2>2, <2>3, <2>5, EmptySeq
      <4>. QED  BY <1>1, <2>1, <2>2, <4>1 DEF IInv, Chained, TypeOK
    <3>3. \A t \in Stream : stage'[t] \notin {"saved", "read"}
      BY <1>1, <2>1 DEF Races, IInv, TypeOK
    <3>. QED  BY <3>1, <3>2, <3>3 DEF Chained
  <2>8. IInv'
    BY <2>4, <2>6, <2>7 DEF IInv
  <2>9. Found' = SubSeq(Found, 1, Len(Found) - 1)
    <3>1. /\ Found \in Seq(Settings) /\ Len(Found) = Len(nest) + 1
          /\ \A i \in 1 .. Len(nest) : Found[i] = oldtio[nest[i]]
      BY <2>1, FoundNow
    <3>2. \A i \in 1 .. Len(nest) : Found[i] \in Settings
      BY <2>2, <3>1, ElementOfSeq
    <3>3. 1 \in Int /\ Len(Found) - 1 \in Int /\ Len(Found) - 1 = Len(nest)
      BY <2>2, <3>1
    <3>4. /\ SubSeq(Found, 1, Len(Found) - 1) \in Seq(Settings)
          /\ Len(SubSeq(Found, 1, Len(Found) - 1)) = Len(nest)
          /\ \A i \in 1 .. Len(nest) : SubSeq(Found, 1, Len(Found) - 1)[i] = Found[i]
      BY <2>2, <3>2, <3>3, SubSeqProperties
    <3>5. \A i \in 1 .. Len(nest) : Found'[i] = Found[i]
      <4>1. Found'[Len(nest)] = Found[Len(nest)]
        BY <1>3, <2>1, <2>2, <2>3, <2>8, <3>1, FoundNext
      <4>2. \A i \in 1 .. Len(nest) - 1 : Found'[i] = Found[i]
        <5>1. \A i \in 1 .. Len(nest) - 1 : oldtio'[nest[i]] = oldtio[nest[i]]
          BY <1>1, <2>5 DEF IInv, TypeOK
        <5>2. \A i \in 1 .. Len(nest') : Found'[i] = oldtio'[nest'[i]]
          BY <1>3, <2>8, FoundNext
        <5>. QED  BY <2>2, <2>3, <3>1, <5>1, <5>2
      <4>. QED  BY <2>2, <4>1, <4>2
    <3>. QED  BY <1>3, <2>2, <2>3, <2>8, <3>4, <3>5, FoundNext, SeqEqual
  <2>10. Len(Found) > 1
    BY <2>1, <2>2, FoundNow
  <2>. QED  BY <2>8, <2>9, <2>10 DEF Stack!Next, Stack!Close
<1>. QED  BY <1>2, <1>3 DEF IInv, TypeOK

\* The settings are changed, and no stream is about to set or restore old ones.
LEMMA ChangeStep ==
  ASSUME SerialAssumption, IInv, NEW c \in Settings, ChangeSettings(c)
  PROVE  IInv' /\ [Stack!Next]_Found
<1>1. settings' = c /\ UNCHANGED <<streams, wrote, unsent>> /\ base' \in {c, base}
  BY DEF ChangeSettings
<1>2. CASE tangled'
  <2>1. nest' = <<>>
    BY <1>2 DEF ChangeSettings, Tangle
  <2>2. TypeOK'
    BY <1>1, <1>2, <2>1, EmptySeq DEF streams, IInv, TypeOK
  <2>. QED  BY <1>2, <2>1, <2>2, TangledStep, TangledIInv
<1>3. CASE ~tangled'
  <2>1. /\ ~tangled /\ nest' = nest
        /\ \A t \in Stream : stage[t] \notin {"saved", "read"}
        /\ base' = IF nest = <<>> THEN c ELSE base
    BY <1>3 DEF ChangeSettings, Tangle, IInv, TypeOK
  <2>2. TypeOK'
    <3>1. settings' \in Settings /\ base' \in Settings /\ tangled' \in BOOLEAN
      BY <1>1, <1>3 DEF ChangeSettings, Tangle, IInv, TypeOK
    <3>. QED  BY <1>1, <2>1, <3>1 DEF streams, IInv, TypeOK
  <2>3. Nested' /\ Chained'
    BY <1>1, <1>3, <2>1 DEF streams, IInv, Nested, Chained
  <2>4. IInv'
    BY <2>2, <2>3 DEF IInv
  <2>5. Found' = [Found EXCEPT ![Len(Found)] = c]
    <3>1. /\ Found \in Seq(Settings) /\ Len(Found) = Len(nest) + 1 /\ Len(nest) \in Nat
          /\ \A i \in 1 .. Len(nest) : Found'[i] = Found[i]
          /\ Found' \in Seq(Settings) /\ Len(Found') = Len(Found)
          /\ Found'[Len(Found)] = c
      BY <1>1, <1>3, <2>1, <2>4, FoundNow, FoundNext, NestLength DEF streams, IInv
    <3>2. /\ [Found EXCEPT ![Len(Found)] = c] \in Seq(Settings)
          /\ Len([Found EXCEPT ![Len(Found)] = c]) = Len(Found)
          /\ \A i \in 1 .. Len(Found) :
               [Found EXCEPT ![Len(Found)] = c][i] = IF i = Len(Found) THEN c ELSE Found[i]
      BY <3>1, ExceptSeq
    <3>. QED  BY <3>1, <3>2, SeqEqual
  <2>. QED  BY <2>1, <2>4, <2>5, FoundNow DEF Stack!Next, Stack!Change, Stack!Kept
<1>. QED  BY <1>2, <1>3 DEF IInv, TypeOK

\* A killed process leaves the settings of its open streams behind; one that
\* had none, or was still opening them, changes nothing for the others.
LEMMA DieStep ==
  ASSUME SerialAssumption, IInv, NEW p \in Process, Die(p)
  PROVE  IInv' /\ [Stack!Next]_Found
<1>1. /\ \A s \in Stream : \/ stage'[s] = "unused"
                           \/ /\ stage'[s] = stage[s] /\ oldtio'[s] = oldtio[s]
                              /\ tio'[s] = tio[s] /\ Owner[s] # p
      /\ \A s \in Stream : Owner[s] # p => stage'[s] = stage[s] /\ oldtio'[s] = oldtio[s]
      /\ UNCHANGED <<settings, base>>
      /\ wrote' \subseteq wrote /\ unsent' \subseteq unsent
  BY DEF Die
<1>2. /\ stage' \in [Stream -> Stage]
      /\ oldtio' \in [Stream -> Settings \union {Unset}]
      /\ tio' \in [Stream -> Settings \union {Unset}]
      /\ tangled' \in BOOLEAN /\ nest' \in {<<>>, nest} /\ nest' \in Seq(Stream)
  BY EmptySeq DEF Die, Tangle, IInv, TypeOK
<1>3. TypeOK'
  BY <1>1, <1>2 DEF IInv, TypeOK
<1>4. CASE tangled'
  <2>1. nest' = <<>>
    BY <1>4 DEF Die, Tangle
  <2>. QED  BY <1>3, <1>4, <2>1, TangledStep, TangledIInv
<1>5. CASE ~tangled'
  <2>1. ~tangled /\ nest' = nest /\ \A s \in Stream : Owner[s] = p => stage[s] # "open"
    BY <1>5 DEF Die, Tangle, IInv, TypeOK
  <2>2. \A i \in 1 .. Len(nest) : stage'[nest[i]] = "open" /\ oldtio'[nest[i]] = oldtio[nest[i]]
    BY <1>1, <2>1, NestLength DEF IInv, Nested
  <2>3. Nested'
    BY <1>5, <2>1, <2>2 DEF IInv, Nested
  <2>4. Chained'
    BY <1>1, <2>1, <2>2, NestLength DEF IInv, Chained
  <2>5. IInv'
    BY <1>3, <2>3, <2>4 DEF IInv
  <2>6. Found' = Found
    BY <1>1, <1>5, <2>1, <2>2, <2>5, FoundNow, FoundNext, SeqEqual, NestLength DEF IInv
  <2>. QED  BY <2>5, <2>6
<1>. QED  BY <1>2, <1>4, <1>5

\* A write, a flush and the sending of a byte touch the output queue only.
LEMMA OutputStep ==
  ASSUME IInv, wrote' \subseteq Writer, unsent' \subseteq Writer,
         UNCHANGED <<settings, streams, base, nest, tangled>>
  PROVE  IInv' /\ [Stack!Next]_Found
<1>1. TypeOK'
  BY DEF streams, IInv, TypeOK
<1>2. Nested' /\ Chained'
  BY DEF streams, IInv, Nested, Chained
<1>3. Found' = Found
  BY DEF streams, Found
<1>. QED  BY <1>1, <1>2, <1>3 DEF IInv

-----------------------------------------------------------------------------
(* The invariant, the abstract specification and what follows. *)

LEMMA InitStep == SerialAssumption /\ Init => IInv /\ Stack!Init
<1> SUFFICES ASSUME SerialAssumption, Init
             PROVE  IInv /\ Stack!Init
  OBVIOUS
<1>1. IInv
  <2>1. TypeOK
    BY EmptySeq DEF Init, TypeOK
  <2>2. Nested
    BY EmptySeq DEF Init, Nested
  <2>3. Chained
    BY DEF Init, Chained
  <2>. QED  BY <2>1, <2>2, <2>3 DEF IInv
<1>2. settings \in Settings /\ nest = <<>> /\ ~tangled
  BY DEF Init
<1>3. /\ <<settings>> \in Seq(Settings) /\ Len(<<settings>>) = 1
      /\ <<settings>>[1] = settings /\ Len(<<>>) = 0
  BY <1>2
<1>4. Found = <<settings>>
  BY <1>1, <1>2, <1>3, FoundNow, SeqEqual
<1>. QED  BY <1>1, <1>2, <1>4 DEF Stack!Init

LEMMA Step == SerialAssumption /\ IInv /\ [Next]_vars => IInv' /\ [Stack!Next]_Found
<1> SUFFICES ASSUME SerialAssumption, IInv, [Next]_vars
             PROVE  IInv' /\ [Stack!Next]_Found
  OBVIOUS
<1>1. ASSUME NEW p \in Process, NEW o \in Options, dio_tcsetattr(p, o)
      PROVE  IInv' /\ [Stack!Next]_Found
  BY <1>1, ChangeStep, SettingsType DEF dio_tcsetattr
<1>2. ASSUME NEW c \in Settings, Stty(c)
      PROVE  IInv' /\ [Stack!Next]_Found
  BY <1>2, ChangeStep DEF Stty
<1>3. CASE UNCHANGED vars
  BY <1>3 DEF vars, IInv, TypeOK, Nested, Chained, Found
<1>4. ASSUME NEW s \in Stream,
             dio_common_write(s) \/ dio_serial_purge(s) \/ Transmit(s)
      PROVE  IInv' /\ [Stack!Next]_Found
  <2>1. wrote' \subseteq Writer /\ unsent' \subseteq Writer
    BY <1>4 DEF dio_common_write, dio_serial_purge, Transmit, IInv, TypeOK
  <2>. QED
    BY <1>4, <2>1, OutputStep DEF dio_common_write, dio_serial_purge, Transmit
<1>. QED
  BY <1>1, <1>2, <1>3, <1>4, OpenDescriptorStep, SaveSettingsStep, ReadSettingsStep,
     SetSettingsStep, InitFailsStep, CloseStep, DieStep DEF Next

LEMMA SpecIInv == Spec => []IInv
  BY SerialAssumption, InitStep, Step, PTL DEF Spec

\* No stream ever restores settings it has not saved.
THEOREM SavedBeforeRestored == Spec => []TypeOK
<1>1. IInv => TypeOK
  BY DEF IInv
<1>. QED  BY <1>1, SpecIInv, PTL

\* The port has the settings of its users back when nested streams are closed,
\* however many there were and whatever they and dio_tcsetattr set meanwhile.
THEOREM PortIsGivenBack == Spec => []GivenBack
<1>1. IInv => GivenBack
  <2> SUFFICES ASSUME IInv, Unused, ~tangled
               PROVE  settings = base
    BY DEF GivenBack
  <2>1. nest = <<>>
    BY NestLength DEF Unused, IInv, Nested
  <2>. QED  BY <2>1 DEF IInv, Chained
<1>. QED  BY <1>1, SpecIInv, PTL

\* The streams of a port implement the stack of settings.
THEOREM ImplementsStack == Spec => IsStack
<1>. QED  BY SerialAssumption, InitStep, Step, PTL DEF Spec, IsStack, Stack!Spec

-----------------------------------------------------------------------------
(* The output queue. *)

LEMMA OutputOKStep == TypeOK /\ OutputOK /\ [Next]_vars => OutputOK'
<1> SUFFICES ASSUME TypeOK, OutputOK, [Next]_vars
             PROVE  OutputOK'
  OBVIOUS
<1>0. unsent \subseteq Stream
  BY SerialAssumption DEF TypeOK
<1>1. ASSUME UNCHANGED output,
             \A s \in Stream : stage[s] = "open" => stage'[s] = "open"
      PROVE  OutputOK'
  BY <1>0, <1>1 DEF OutputOK, TypeOK
<1>2. ASSUME NEW s \in Stream,
             OpenDescriptor(s) \/ SaveSettings(s) \/ ReadSettings(s) \/ InitFails(s)
      PROVE  OutputOK'
  BY <1>1, <1>2 DEF OpenDescriptor, SaveSettings, ReadSettings, InitFails, TypeOK
<1>3. ASSUME NEW s \in Stream, NEW o \in Options, SetSettings(s, o)
      PROVE  OutputOK'
  BY <1>1, <1>3 DEF SetSettings, TypeOK
<1>4. ASSUME NEW s \in Stream, dio_serial_stream_close(s)
      PROVE  OutputOK'
  BY <1>4 DEF dio_serial_stream_close, Flushed, Purged, OutputOK, TypeOK
<1>5. ASSUME NEW s \in Stream, dio_common_write(s)
      PROVE  OutputOK'
  BY <1>5 DEF dio_common_write, streams, OutputOK, TypeOK
<1>6. ASSUME NEW s \in Stream, dio_serial_purge(s)
      PROVE  OutputOK'
  BY <1>6 DEF dio_serial_purge, Purged, streams, OutputOK, TypeOK
<1>7. ASSUME NEW s \in Stream, Transmit(s)
      PROVE  OutputOK'
  BY <1>7 DEF Transmit, streams, OutputOK, TypeOK
<1>8. ASSUME NEW p \in Process, Die(p)
      PROVE  OutputOK'
  BY <1>0, <1>8 DEF Die, OutputOK, TypeOK
<1>9. ASSUME NEW c, ChangeSettings(c)
      PROVE  OutputOK'
  BY <1>9, <1>1 DEF ChangeSettings, streams
<1>10. CASE UNCHANGED vars
  BY <1>1, <1>10 DEF vars, streams
<1>. QED
  BY <1>2, <1>3, <1>4, <1>5, <1>6, <1>7, <1>8, <1>9, <1>10
     DEF Next, dio_tcsetattr, Stty

LEMMA CloseDiscards ==
  ASSUME TypeOK, OutputOK, [Next]_vars,
         NEW s \in Stream, stage[s] = "open", stage'[s] = "unused", settings' # settings
  PROVE  s \notin unsent'
<1>1. dio_serial_stream_close(s)
  <2>1. CASE UNCHANGED vars
    BY <2>1 DEF vars
  <2>2. CASE Next
    BY <2>2 DEF Next, OpenDescriptor, SaveSettings, ReadSettings, InitFails, SetSettings,
       dio_serial_stream_close, dio_common_write, dio_serial_purge, Transmit, Die,
       dio_tcsetattr, Stty, ChangeSettings, streams, TypeOK
  <2>. QED  BY <2>1, <2>2
<1>. QED  BY <1>1 DEF dio_serial_stream_close, Flushed, Purged, OutputOK, TypeOK

\* No byte that a stream wrote is sent with the settings that its close restores.
THEOREM NothingSentAfterClose == Spec => SentAsWritten
<1>1. Init => OutputOK
  BY DEF Init, OutputOK
<1>2. TypeOK /\ OutputOK /\ [Next]_vars =>
        [\A s \in Stream :
           stage[s] = "open" /\ stage'[s] = "unused" /\ settings' # settings
             => s \notin unsent']_vars
  BY CloseDiscards
<1>. QED  BY <1>1, <1>2, OutputOKStep, SavedBeforeRestored, PTL DEF Spec, SentAsWritten
=============================================================================
