------------------------- MODULE DioWin32PortsProofs -------------------------
(***************************************************************************)
(* Proofs about DioWin32Ports, for any processes, streams and settings.    *)
(* GivenBack is about a port that nobody holds; IInv adds who holds it     *)
(* (HeldForSomebody), and where the settings in effect and the saved ones  *)
(* come from (Chained).                                                    *)
(***************************************************************************)
EXTENDS DioWin32Ports, SequenceTheorems, TLAPS

Chained ==
  ~spoilt =>
    /\ \A s \in Stream : stage[s] # "lost"
    /\ (\A s \in Stream : stage[s] # "open") => dcb = basedcb
    /\ \A s \in Stream : stage[s] \in {"read", "open"} => olddcb[s] = basedcb

IInv == TypeOK /\ HeldForSomebody /\ Chained

USE DEF Stage, Opening

-----------------------------------------------------------------------------
(* Facts about the settings of the port as a stack.                          *)

LEMMA OnlyOne ==
  ASSUME NEW st, NEW s \in Stream, st[s] = "open",
         \A t \in Stream : st[t] = "open" => t = s
  PROVE  (CHOOSE t \in Stream : st[t] = "open") = s
  OBVIOUS

LEMMA FoundOpen ==
  ASSUME HeldForSomebody, ~spoilt, NEW s \in Stream, stage[s] = "open"
  PROVE  Found = <<olddcb[s], dcb>>
  <1>1. \A t \in Stream : stage[t] = "open" => t = s
    BY DEF HeldForSomebody
  <1>2. (CHOOSE t \in Stream : stage[t] = "open") = s
    BY <1>1, OnlyOne
  <1> QED BY <1>2 DEF Found

LEMMA FoundOpenNext ==
  ASSUME HeldForSomebody', ~spoilt', NEW s \in Stream, stage'[s] = "open"
  PROVE  Found' = <<olddcb'[s], dcb'>>
  <1>1. \A t \in Stream : stage'[t] = "open" => t = s
    BY DEF HeldForSomebody
  <1>2. (CHOOSE t \in Stream : stage'[t] = "open") = s
    BY <1>1, OnlyOne
  <1> QED BY <1>2 DEF Found

LEMMA FoundFree ==
  ASSUME ~spoilt, \A s \in Stream : stage[s] # "open"
  PROVE  Found = <<dcb>>
  BY DEF Found

LEMMA FoundFreeNext ==
  ASSUME ~spoilt', \A s \in Stream : stage'[s] # "open"
  PROVE  Found' = <<dcb'>>
  BY DEF Found

\* A step after which the promise is void is one of the stack.
LEMMA SpoiltStep ==
  ASSUME spoilt'
  PROVE  [Stack!Next]_Found
  <1>1. Found' = <<>>
    BY DEF Found
  <1> QED BY <1>1 DEF Stack!Next, Stack!Abandon, Stack!Kept

\* A step of the stream that opens the port, with which no stream comes to be
\* open or changes the settings.
LEMMA AsideStep ==
  ASSUME IInv, TypeOK', HeldForSomebody', Chained', NEW s \in Stream,
         stage[s] # "open", stage'[s] # "open",
         \A t \in Stream \ {s} : stage'[t] = stage[t] /\ olddcb'[t] = olddcb[t],
         dcb' = dcb, spoilt' = spoilt
  PROVE  IInv' /\ [Stack!Next]_Found
  <1>1. IInv'
    BY DEF IInv
  <1>2. CASE spoilt
    BY <1>1, <1>2, SpoiltStep
  <1>3. CASE ~spoilt /\ \A t \in Stream : stage[t] # "open"
    <2>1. \A t \in Stream : stage'[t] # "open"
      BY <1>3
    <2> QED BY <1>1, <1>3, <2>1, FoundFree, FoundFreeNext
  <1>4. ASSUME ~spoilt, NEW t \in Stream, stage[t] = "open"
        PROVE  IInv' /\ [Stack!Next]_Found
    <2>1. t \in Stream \ {s} /\ stage'[t] = "open"
      BY <1>4
    <2> QED BY <1>1, <1>4, <2>1, FoundOpen, FoundOpenNext DEF IInv
  <1> QED BY <1>2, <1>3, <1>4

LEMMA DCBType ==
  ASSUME PortAssumption
  PROVE  /\ Unset \notin DCB /\ Unset \notin Timeouts
         /\ \A o \in Line : Configure(o) \in DCB
  BY DEF PortAssumption, DCB, Configure

-----------------------------------------------------------------------------
(* One lemma for each action.                                                *)

LEMMA CreateFileStep ==
  ASSUME PortAssumption, IInv, NEW s \in Stream, CreateFile(s)
  PROVE  IInv' /\ [Stack!Next]_Found
  <1>1. \A t \in Stream : stage[t] = "unused"
    BY DEF CreateFile, IInv, HeldForSomebody
  <1>2. /\ stage' = [stage EXCEPT ![s] = "created"] /\ holder' = {s}
        /\ ~spoilt' /\ basedcb' = dcb /\ dcb' = dcb
    BY DEF CreateFile
  <1>3. TypeOK'
    BY DEF CreateFile, saved, IInv, TypeOK
  <1>4. HeldForSomebody'
    BY <1>1, <1>2 DEF IInv, TypeOK, HeldForSomebody
  <1>5. \A t \in Stream : stage'[t] \in {"unused", "created"}
    BY <1>1, <1>2 DEF IInv, TypeOK
  <1>6. IInv'
    BY <1>2, <1>3, <1>4, <1>5 DEF IInv, Chained
  <1>7. Found' = <<dcb>>
    BY <1>2, <1>5, FoundFreeNext
  <1>8. CASE spoilt
    <2>1. Found = <<>> /\ dcb \in DCB
      BY <1>8 DEF Found, IInv, TypeOK
    <2> QED BY <1>6, <1>7, <2>1 DEF Stack!Next, Stack!Restart, Stack!Kept
  <1>9. CASE ~spoilt
    BY <1>1, <1>6, <1>7, <1>9, FoundFree
  <1> QED BY <1>8, <1>9

LEMMA SetTimeoutsStep ==
  ASSUME PortAssumption, IInv, NEW s \in Stream, NEW t \in Timeouts, SetTimeouts(s, t)
  PROVE  IInv' /\ [Stack!Next]_Found
  <1>1. TypeOK'
    BY DEF SetTimeouts, history, IInv, TypeOK
  <1>2. HeldForSomebody' /\ Chained'
    BY DEF SetTimeouts, history, IInv, TypeOK, HeldForSomebody, Chained
  <1> QED BY <1>1, <1>2, AsideStep DEF SetTimeouts, history, IInv, TypeOK

LEMMA GetCommStateStep ==
  ASSUME PortAssumption, IInv, NEW s \in Stream, GetCommState(s)
  PROVE  IInv' /\ [Stack!Next]_Found
  <1>1. TypeOK'
    BY DCBType DEF GetCommState, history, IInv, TypeOK
  <1>2. HeldForSomebody'
    BY DEF GetCommState, IInv, TypeOK, HeldForSomebody
  <1>3. \A t \in Stream : stage[t] # "open"
    BY DEF GetCommState, IInv, TypeOK, HeldForSomebody
  <1>4. Chained'
    BY <1>3 DEF GetCommState, history, IInv, TypeOK, Chained
  <1> QED BY <1>1, <1>2, <1>4, AsideStep DEF GetCommState, history, IInv, TypeOK

\* SetCommState() puts the settings of the new stream on top.
LEMMA SetCommStateStep ==
  ASSUME PortAssumption, IInv, NEW s \in Stream, NEW o \in Line, SetCommState(s, o)
  PROVE  IInv' /\ [Stack!Next]_Found
  <1>1. /\ stage[s] = "read" /\ dcb' = Configure(o) /\ dcb' \in DCB
        /\ UNCHANGED <<holder, cto, basedcb, basecto>>
    BY DCBType DEF SetCommState
  <1>2. \A t \in Stream \ {s} : stage[t] = "unused"
    BY <1>1 DEF IInv, HeldForSomebody
  <1>3. CASE stage' = [stage EXCEPT ![s] = "open"] /\ UNCHANGED <<saved, spoilt>>
    <2>1. TypeOK' /\ HeldForSomebody'
      BY <1>1, <1>3 DEF saved, IInv, TypeOK, HeldForSomebody
    <2>2. stage'[s] = "open"
      BY <1>3 DEF IInv, TypeOK
    <2>3. Chained'
      BY <1>1, <1>2, <1>3, <2>2 DEF saved, IInv, TypeOK, Chained
    <2>4. CASE spoilt
      BY <1>3, <2>1, <2>3, <2>4, SpoiltStep DEF IInv
    <2>5. CASE ~spoilt
      <3>1. \A t \in Stream : stage[t] # "open"
        BY <1>1, <1>2
      <3>2. Found = <<dcb>>
        BY <2>5, <3>1, FoundFree
      <3>3. olddcb'[s] = dcb
        BY <1>1, <1>3, <2>5, <3>1 DEF saved, IInv, Chained
      <3>4. Found' = <<dcb, dcb'>>
        BY <1>3, <2>1, <2>2, <2>5, <3>3, FoundOpenNext
      <3>5. Found' = Append(Found, dcb') /\ Found # <<>>
        BY <3>2, <3>4
      <3> QED BY <1>1, <2>1, <2>3, <3>5 DEF IInv, Stack!Next, Stack!Open, Stack!Kept
    <2> QED BY <2>4, <2>5
  <1>4. CASE /\ stage' = [stage EXCEPT ![s] = "lost"]
             /\ olddcb' = [olddcb EXCEPT ![s] = Unset]
             /\ oldcto' = [oldcto EXCEPT ![s] = Unset]
             /\ spoilt' = TRUE
    <2>1. TypeOK' /\ HeldForSomebody' /\ Chained'
      BY <1>1, <1>4 DEF IInv, TypeOK, HeldForSomebody, Chained
    <2> QED BY <1>4, <2>1, SpoiltStep DEF IInv
  <1> QED BY <1>3, <1>4 DEF SetCommState

LEMMA OpenFailsStep ==
  ASSUME PortAssumption, IInv, NEW s \in Stream, OpenFails(s)
  PROVE  IInv' /\ [Stack!Next]_Found
  <1>1. TypeOK'
    BY DEF OpenFails, history, IInv, TypeOK
  <1>2. HeldForSomebody' /\ Chained'
    BY DEF OpenFails, history, IInv, TypeOK, HeldForSomebody, Chained
  <1> QED BY <1>1, <1>2, AsideStep DEF OpenFails, history, IInv, TypeOK

LEMMA SetOptionStep ==
  ASSUME PortAssumption, IInv, NEW s \in Stream, NEW t \in Timeouts, dio_common_set_option(s, t)
  PROVE  IInv' /\ [Stack!Next]_Found
  <1>1. IInv'
    BY DEF dio_common_set_option, saved, history, IInv, TypeOK, HeldForSomebody, Chained
  <1>2. Found' = Found
    BY DEF dio_common_set_option, saved, history, Found
  <1> QED BY <1>1, <1>2

\* A close takes the settings of its stream off the stack.
LEMMA CloseStep ==
  ASSUME PortAssumption, IInv, NEW s \in Stream, dio_serial_stream_close(s)
  PROVE  IInv' /\ [Stack!Next]_Found
  <1>1. /\ stage[s] = "open" /\ olddcb[s] \in DCB
        /\ UNCHANGED <<cto, basedcb, basecto>>
    BY DEF dio_serial_stream_close, IInv, TypeOK
  <1>2. \A t \in Stream \ {s} : stage[t] = "unused"
    BY <1>1 DEF IInv, HeldForSomebody
  <1>3. CASE /\ dcb' = olddcb[s] /\ holder' = holder \ {s}
             /\ stage' = [stage EXCEPT ![s] = "unused"]
             /\ olddcb' = [olddcb EXCEPT ![s] = Unset]
             /\ oldcto' = [oldcto EXCEPT ![s] = Unset]
             /\ UNCHANGED spoilt
    <2>1. TypeOK' /\ HeldForSomebody'
      BY <1>1, <1>3 DEF IInv, TypeOK, HeldForSomebody
    <2>2. \A t \in Stream : stage'[t] = "unused"
      BY <1>2, <1>3 DEF IInv, TypeOK
    <2>3. Chained'
      BY <1>1, <1>3, <2>2 DEF IInv, Chained
    <2>4. CASE spoilt
      BY <1>3, <2>1, <2>3, <2>4, SpoiltStep DEF IInv
    <2>5. CASE ~spoilt
      <3>1. Found = <<olddcb[s], dcb>> /\ Found' = <<olddcb[s]>>
        BY <1>1, <1>3, <2>2, <2>5, FoundOpen, FoundFreeNext DEF IInv
      <3> DEFINE pair == <<olddcb[s], dcb>>
      <3>2. pair \in Seq(DCB) /\ Len(pair) = 2 /\ pair[1] = olddcb[s]
        BY <1>1 DEF IInv, TypeOK
      <3> HIDE DEF pair
      <3>3. \A i \in 1 .. 1 : pair[i] \in DCB
        BY <1>1, <3>2
      <3>4. /\ SubSeq(pair, 1, 1) \in Seq(DCB) /\ Len(SubSeq(pair, 1, 1)) = 1
            /\ \A i \in 1 .. 1 : SubSeq(pair, 1, 1)[i] = pair[i]
        BY <3>3, SubSeqProperties
      <3>5. <<olddcb[s]>> \in Seq(DCB) /\ Len(<<olddcb[s]>>) = 1 /\ <<olddcb[s]>>[1] = olddcb[s]
        BY <1>1
      <3>6. SubSeq(pair, 1, 1) = <<olddcb[s]>>
        <4>1. \A i \in 1 .. Len(SubSeq(pair, 1, 1)) : SubSeq(pair, 1, 1)[i] = <<olddcb[s]>>[i]
          BY <3>2, <3>4, <3>5
        <4> QED BY <3>4, <3>5, <4>1, SeqEqual
      <3>7. Len(Found) = 2 /\ Found' = SubSeq(Found, 1, Len(Found) - 1)
        BY <3>1, <3>2, <3>6 DEF pair
      <3> QED BY <2>1, <2>3, <3>7 DEF IInv, Stack!Next, Stack!Close
    <2> QED BY <2>4, <2>5
  <1>4. CASE /\ stage' = [stage EXCEPT ![s] = "lost"] /\ spoilt' = TRUE
             /\ UNCHANGED <<dcb, holder, saved>>
    <2>1. TypeOK' /\ HeldForSomebody' /\ Chained'
      BY <1>1, <1>4 DEF saved, IInv, TypeOK, HeldForSomebody, Chained
    <2> QED BY <1>4, <2>1, SpoiltStep DEF IInv
  <1> QED BY <1>3, <1>4 DEF dio_serial_stream_close

LEMMA OtherProgramStep ==
  ASSUME PortAssumption, IInv, NEW d \in DCB, NEW t \in Timeouts, OtherProgram(d, t)
  PROVE  IInv' /\ [Stack!Next]_Found
  <1>1. IInv'
    BY DEF OtherProgram, saved, IInv, TypeOK, HeldForSomebody, Chained
  <1>2. CASE spoilt
    BY <1>1, <1>2, SpoiltStep DEF OtherProgram
  <1>3. CASE ~spoilt
    <2>1. \A s \in Stream : stage[s] # "open" /\ stage'[s] # "open"
      BY DEF OtherProgram, IInv, HeldForSomebody
    <2>2. Found = <<dcb>> /\ Found' = <<d>>
      BY <1>3, <2>1, FoundFree, FoundFreeNext DEF OtherProgram
    <2>3. Found' = [Found EXCEPT ![Len(Found)] = d] /\ Found # <<>>
      BY <2>2
    <2> QED BY <1>1, <2>3 DEF Stack!Next, Stack!Change, Stack!Kept
  <1> QED BY <1>2, <1>3

LEMMA DieStep ==
  ASSUME PortAssumption, IInv, NEW p \in Process, Die(p)
  PROVE  IInv' /\ [Stack!Next]_Found
  <1>1. /\ \A s \in Stream :
             IF Owner[s] = p
             THEN stage'[s] = "unused" /\ olddcb'[s] = Unset
             ELSE stage'[s] = stage[s] /\ olddcb'[s] = olddcb[s]
        /\ holder' = holder \ {s \in Stream : Owner[s] = p}
        /\ spoilt' = (spoilt \/ \E s \in Stream : Owner[s] = p /\ stage[s] = "open")
        /\ UNCHANGED <<dcb, cto, basedcb, basecto>>
    BY DEF Die
  <1>2. TypeOK'
    BY <1>1 DEF Die, IInv, TypeOK
  <1>3. HeldForSomebody'
    BY <1>1 DEF IInv, TypeOK, HeldForSomebody
  <1>4. Chained'
    BY <1>1 DEF IInv, TypeOK, Chained
  <1>5. IInv'
    BY <1>2, <1>3, <1>4 DEF IInv
  <1>6. CASE spoilt'
    BY <1>5, <1>6, SpoiltStep
  <1>7. CASE ~spoilt'
    <2>1. ~spoilt /\ \A s \in Stream : Owner[s] = p => stage[s] # "open"
      BY <1>1, <1>7
    <2>2. CASE \A s \in Stream : stage[s] # "open"
      <3>1. \A s \in Stream : stage'[s] # "open"
        BY <1>1, <2>2
      <3> QED BY <1>1, <1>5, <1>7, <2>1, <2>2, <3>1, FoundFree, FoundFreeNext
    <2>3. ASSUME NEW s \in Stream, stage[s] = "open"
          PROVE  Found' = Found
      BY <1>1, <1>3, <1>7, <2>1, <2>3, FoundOpen, FoundOpenNext DEF IInv
    <2> QED BY <1>5, <2>2, <2>3
  <1> QED BY <1>6, <1>7

-----------------------------------------------------------------------------
(* The invariant, the abstract specification and what follows. *)

LEMMA InitStep == PortAssumption /\ Init => IInv /\ Stack!Init
  <1> SUFFICES ASSUME PortAssumption, Init PROVE IInv /\ Stack!Init
    OBVIOUS
  <1>1. IInv
    BY DEF Init, IInv, TypeOK, HeldForSomebody, Chained
  <1>2. Found = <<dcb>> /\ dcb \in DCB
    BY FoundFree DEF Init
  <1> QED BY <1>1, <1>2 DEF Stack!Init

LEMMA Step == PortAssumption /\ IInv /\ [Next]_vars => IInv' /\ [Stack!Next]_Found
  <1> SUFFICES ASSUME PortAssumption, IInv, [Next]_vars PROVE IInv' /\ [Stack!Next]_Found
    OBVIOUS
  <1>1. CASE UNCHANGED vars
    <2>1. IInv'
      BY <1>1 DEF vars, saved, history, IInv, TypeOK, HeldForSomebody, Chained
    <2>2. Found' = Found
      BY <1>1 DEF vars, saved, history, Found
    <2> QED BY <2>1, <2>2
  <1> QED
    BY <1>1, CreateFileStep, SetTimeoutsStep, GetCommStateStep, SetCommStateStep, OpenFailsStep,
       SetOptionStep, CloseStep, OtherProgramStep, DieStep DEF Next

LEMMA Invariance == Spec => []IInv
  BY PortAssumption, InitStep, Step, PTL DEF Spec

\* Streams on Windows implement the stack of settings.
THEOREM ImplementsStack == Spec => IsStack
  BY PortAssumption, InitStep, Step, Invariance, PTL DEF Spec, IsStack, Stack!Spec

\* A port that nobody holds has the settings it was found with, whatever failed.
THEOREM PortIsGivenBack == Spec => []GivenBack
  <1>1. IInv => GivenBack
    BY DEF IInv, HeldForSomebody, Chained, GivenBack
  <1> QED BY <1>1, Invariance, PTL

\* The port is held by the one stream that is being opened, open or lost.
THEOREM HandleHasAStream == Spec => []HeldForSomebody
  <1>1. IInv => HeldForSomebody
    BY DEF IInv
  <1> QED BY <1>1, Invariance, PTL

\* No stream sets back settings that it did not save.
THEOREM SavedBeforeRestored == Spec => []TypeOK
  <1>1. IInv => TypeOK
    BY DEF IInv
  <1> QED BY <1>1, Invariance, PTL

=============================================================================
