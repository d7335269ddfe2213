-------------------------- MODULE MutProcessProofs --------------------------
(***************************************************************************)
(* Proofs about the tracer loop: for every set of functions, every text    *)
(* and every word size, MUT never damages the text of the target, never    *)
(* misses a call, and meets the preconditions mut_process.c asserts.       *)
(***************************************************************************)
EXTENDS MutProcess, TLAPS

\* The theorems are about targets that get no SIGTRAP but from breakpoints:
\* with one from elsewhere mut_process_wait moves the target (see
\* WaitPcIsInstruction).
NoStray == "trap" \notin Outside

-----------------------------------------------------------------------------
(* words of text *)

\* Instructions lie in the text, with the word that starts at them.
LEMMA CodeType ==
  /\ W \in Nat /\ TextAddr \subseteq Int
  /\ \A c \in Code : c \in TextAddr /\ c \in Int /\ Word(c) \subseteq TextAddr
  <1>1. \A f \in Found : AddrOf[f] \in TextAddr
    BY ManageAssumption
  <1>2. Entries \subseteq TextAddr
    BY <1>1 DEF Entries
  <1>3. Code \subseteq TextAddr
    BY <1>2, TextAssumption DEF Code
  <1> QED BY <1>3, TextAssumption

\* The breakpoint word is a word.
LEMMA BpType == Bp \in [0..(W - 1) -> Byte]
  BY TextAssumption DEF Bp, Byte

\* Reading a word that lies in the text gives a word.
LEMMA PeekType ==
  ASSUME NEW t \in [TextAddr -> Byte], NEW a \in Code
  PROVE  Peek(t, a) \in [0..(W - 1) -> Byte]
  <1>1. Word(a) \subseteq TextAddr /\ a \in Int /\ W \in Nat
    BY CodeType
  <1>2. \A i \in 0..(W - 1) : a + i \in Word(a)
    BY <1>1 DEF Word
  <1> QED BY <1>1, <1>2 DEF Peek

\* Writing a word leaves text text.
LEMMA PokeType ==
  ASSUME NEW t \in [TextAddr -> Byte], NEW a \in Code, NEW w \in [0..(W - 1) -> Byte]
  PROVE  Poke(t, a, w) \in [TextAddr -> Byte]
  <1>1. a \in Int /\ W \in Nat /\ TextAddr \subseteq Int
    BY CodeType
  <1>2. \A x \in TextAddr : x \in Word(a) => x - a \in 0..(W - 1)
    BY <1>1 DEF Word
  <1> QED BY <1>2 DEF Poke

\* A breakpoint set where there is none replaces a loaded word and adds its
\* address to those that hold one.
LEMMA PlantLemma ==
  ASSUME NEW t \in [TextAddr -> Byte], NEW S \in SUBSET Code, NEW a \in Code,
         a \notin S, TextWith(t, S)
  PROVE  /\ TextWith(Poke(t, a, Bp), S \cup {a})
         /\ Peek(t, a) = Peek(Orig, a)
  <1>1. /\ a \in Int /\ W \in Nat /\ TextAddr \subseteq Int /\ Word(a) \subseteq TextAddr
        /\ \A c \in S : c \in Int
    BY CodeType
  <1>2. \A c \in S, x \in TextAddr : ~(x \in Word(a) /\ x \in Word(c))
    BY <1>1, SpacingAssumption DEF Word
  <1>3. TextWith(Poke(t, a, Bp), S \cup {a})
    BY <1>1, <1>2 DEF TextWith, Poke
  <1>4. \A i \in 0..(W - 1) : a + i \in TextAddr /\ t[a + i] = Orig[a + i]
    <2>1. \A i \in 0..(W - 1) : a + i \in Word(a)
      BY <1>1 DEF Word
    <2> QED BY <2>1, <1>1, <1>2 DEF TextWith
  <1> QED BY <1>3, <1>4 DEF Peek

\* Putting back the loaded word takes the breakpoint away and no other.
LEMMA RemoveLemma ==
  ASSUME NEW t \in [TextAddr -> Byte], NEW S \in SUBSET Code, NEW a \in S,
         TextWith(t, S)
  PROVE  TextWith(Poke(t, a, Peek(Orig, a)), S \ {a})
  <1>1. /\ a \in Int /\ W \in Nat /\ TextAddr \subseteq Int
        /\ \A c \in S : c \in Int
    BY CodeType
  <1>2. \A c \in S \ {a}, x \in TextAddr : ~(x \in Word(a) /\ x \in Word(c))
    BY <1>1, SpacingAssumption DEF Word
  <1>3. \A x \in TextAddr : x \in Word(a) => Peek(Orig, a)[x - a] = Orig[x]
    <2>1. \A x \in TextAddr : x \in Word(a) => x - a \in 0..(W - 1) /\ a + (x - a) = x
      BY <1>1 DEF Word
    <2> QED BY <2>1 DEF Peek
  <1> QED BY <1>1, <1>2, <1>3 DEF TextWith, Poke

-----------------------------------------------------------------------------
(* the inductive invariant *)

\* Initially the text is as loaded and no action is managed.
LEMMA InitIInv == Init => IInv
  <1> SUFFICES ASSUME Init PROVE IInv
    OBVIOUS
  <1>1. TypeOK
    <2>1. NoWord \in [0..(W - 1) -> Byte]
      BY DEF NoWord, Byte
    <2>2. Manage[1] \in Fn
      BY ManageAssumption
    <2>3. Start \in Code /\ Start \in Int
      BY CodeType DEF Code
    <2>4. Orig \in [TextAddr -> Byte] /\ 0 \in 0..MaxEvents
      BY TextAssumption, BoundsAssumption
    <2>5. fatal \in BOOLEAN
      BY Zenon DEF Init
    <2>6. root \in Seq(Found) /\ stack \in Seq(Sites) /\ mpc \in MutPc /\ k \in Nat \ {0}
      BY DEF Init, MutPc
    <2>7. instr \in [Fn -> [0..(W - 1) -> Byte]]
      BY <2>1 DEF Init
    <2> QED BY <2>1, <2>2, <2>3, <2>4, <2>5, <2>6, <2>7 DEF Init, TypeOK
  <1>2. Planted = {}
    BY DEF Init, Planted, InAction
  <1>3. TextMatchesPhase
    BY <1>2 DEF Init, TextMatchesPhase, TextWith
  <1> QED
    BY <1>1, <1>2, <1>3, TextAssumption
    DEF Init, IInv, SavedIsOriginal, DistinctActions, StatusAsserts, WaitPcIsInstruction,
        TargetMoves, TargetOnTrack, OnTrack, Code, InAction, Closing, Ended

\* A step that leaves the text and the list of actions alone, and plants and
\* removes no breakpoint, keeps what is known of the text.
LEMMA TextFrame ==
  ASSUME IInv, UNCHANGED <<text, root, instr, retAddr, retInstr>>,
         Closing' \/ (~Closing /\ Planted' = Planted),
         InAction' => InAction
  PROVE  TextMatchesPhase' /\ SavedIsOriginal' /\ DistinctActions'
  BY DEF IInv, TextMatchesPhase, TextWith, SavedIsOriginal, DistinctActions

\* A request that fails only makes MUT give up.
LEMMA RequestFailsIInv ==
  ASSUME IInv, RequestFails, mpc \notin {"wait", "act_wait"}
  PROVE  IInv'
  <1>1. TypeOK'
    BY DEF RequestFails, GiveUp, tgtVars, IInv, TypeOK, MutPc
  <1>2. Closing' /\ ~InAction' /\ UNCHANGED <<text, root, instr, retAddr, retInstr>>
    BY DEF RequestFails, GiveUp, Closing, InAction
  <1>3. TextMatchesPhase' /\ SavedIsOriginal' /\ DistinctActions'
    BY <1>2, TextFrame
  <1>4. StatusAsserts' /\ WaitPcIsInstruction' /\ TargetMoves' /\ TargetOnTrack'
    BY DEF RequestFails, GiveUp, tgtVars, IInv, TypeOK, StatusAsserts,
        WaitPcIsInstruction,
           TargetMoves, TargetOnTrack, InAction, Closing, Ended
  <1> QED BY <1>1, <1>3, <1>4 DEF IInv

\* The end of mut_manage_actions leaves every entered action planted.
LEMMA ManageDoneIInv == ASSUME IInv, ManageDone PROVE IInv'
  <1>1. TypeOK'
    BY CodeType, TextAssumption, ManageAssumption, BoundsAssumption DEF ManageDone,
        IInv, TypeOK, MutPc, TargetOnTrack, OnTrack, Code, tgtVars
  <1>2. /\ UNCHANGED <<text, root, instr, retAddr, retInstr>>
        /\ Closing' \/ (~Closing /\ Planted' = Planted)
        /\ InAction' => InAction
    BY DEF ManageDone, IInv, TypeOK, TargetMoves, Planted, PlantedAction, Closing,
        Ended, InAction, tgtVars
  <1>3. TextMatchesPhase' /\ SavedIsOriginal' /\ DistinctActions'
    BY <1>2, TextFrame
  <1>4. StatusAsserts' /\ WaitPcIsInstruction'
    BY DEF ManageDone, IInv, TypeOK, StatusAsserts, WaitPcIsInstruction, TargetMoves,
        InAction, tgtVars
  <1>5. TargetMoves' /\ TargetOnTrack'
    BY TextAssumption DEF ManageDone, IInv, TypeOK, WaitPcIsInstruction, TargetMoves,
        TargetOnTrack, OnTrack, InAction, Closing, Ended, Code, Entries, tgtVars
  <1> QED BY <1>1, <1>3, <1>4, <1>5 DEF IInv

\* mut_process_resume sets the target going where ppc says.
LEMMA mut_process_resumeIInv == ASSUME IInv, mut_process_resume PROVE IInv'
  <1>1. CASE RequestFails
    BY <1>1, RequestFailsIInv DEF mut_process_resume
  <1>2. CASE ~RequestFails
    <2>1. TypeOK'
      BY <1>2, CodeType, ManageAssumption, BoundsAssumption DEF mut_process_resume,
          IInv, TypeOK, MutPc, GiveUp, tgtVars, TargetOnTrack, OnTrack, Code
    <2>2. /\ UNCHANGED <<text, root, instr, retAddr, retInstr>>
          /\ Closing' \/ (~Closing /\ Planted' = Planted)
          /\ InAction' => InAction
      BY <1>2 DEF mut_process_resume, IInv, TypeOK, Planted, PlantedAction, Closing,
          Ended, InAction, GiveUp, tgtVars
    <2>3. TextMatchesPhase' /\ SavedIsOriginal' /\ DistinctActions'
      BY <2>2, TextFrame
    <2>4. StatusAsserts' /\ WaitPcIsInstruction'
      BY <1>2 DEF mut_process_resume, IInv, TypeOK, StatusAsserts, WaitPcIsInstruction,
          InAction, GiveUp, tgtVars
    <2>5. TargetMoves' /\ TargetOnTrack'
      BY <1>2 DEF mut_process_resume, IInv, TypeOK, TargetMoves, TargetOnTrack, OnTrack,
          InAction, Closing, Ended, GiveUp, Requestable, tgtVars
    <2> QED BY <2>1, <2>3, <2>4, <2>5 DEF IInv
  <1> QED BY <1>1, <1>2

\* mut_process_wait reports a breakpoint: its address is the target's.
LEMMA WaitTrapIInv == ASSUME IInv, WaitTrap PROVE IInv'
  <1>1. TypeOK'
    <2>1. ppc' \in Int
      BY DEF WaitTrap, mut_pc_adjust, IInv, TypeOK
    <2> QED BY <2>1 DEF WaitTrap, IInv, TypeOK, MutPc
  <1>2. /\ UNCHANGED <<text, root, instr, retAddr, retInstr>>
        /\ Closing' \/ (~Closing /\ Planted' = Planted)
        /\ InAction' => InAction
    BY DEF WaitTrap, IInv, TypeOK, TargetMoves, Planted, PlantedAction, Closing, Ended,
        InAction, tgtVars, mut_pc_adjust
  <1>3. TextMatchesPhase' /\ SavedIsOriginal' /\ DistinctActions'
    BY <1>2, TextFrame
  <1>4. StatusAsserts' /\ WaitPcIsInstruction'
    BY DEF WaitTrap, IInv, TypeOK, StatusAsserts, WaitPcIsInstruction, TargetMoves,
        InAction, tgtVars, mut_pc_adjust
  <1>5. TargetMoves' /\ TargetOnTrack'
    BY TextAssumption DEF WaitTrap, IInv, TypeOK, WaitPcIsInstruction, TargetMoves,
        TargetOnTrack, OnTrack, InAction, Closing, Ended, Code, Entries, tgtVars,
            mut_pc_adjust
  <1> QED BY <1>1, <1>3, <1>4, <1>5 DEF IInv

\* mut_process_wait stops for another signal without touching the text.
LEMMA WaitSignalIInv == ASSUME IInv, WaitSignal PROVE IInv'
  <1>1. TypeOK'
    BY CodeType, TextAssumption, ManageAssumption, BoundsAssumption DEF WaitSignal,
        IInv, TypeOK, MutPc, TargetOnTrack, OnTrack, Code, tgtVars
  <1>2. /\ UNCHANGED <<text, root, instr, retAddr, retInstr>>
        /\ Closing' \/ (~Closing /\ Planted' = Planted)
        /\ InAction' => InAction
    BY DEF WaitSignal, IInv, TypeOK, TargetMoves, Planted, PlantedAction, Closing,
        Ended, InAction, tgtVars
  <1>3. TextMatchesPhase' /\ SavedIsOriginal' /\ DistinctActions'
    BY <1>2, TextFrame
  <1>4. StatusAsserts' /\ WaitPcIsInstruction'
    BY DEF WaitSignal, IInv, TypeOK, StatusAsserts, WaitPcIsInstruction, TargetMoves,
        InAction, tgtVars
  <1>5. TargetMoves' /\ TargetOnTrack'
    BY TextAssumption DEF WaitSignal, IInv, TypeOK, WaitPcIsInstruction, TargetMoves,
        TargetOnTrack, OnTrack, InAction, Closing, Ended, Code, Entries, tgtVars
  <1> QED BY <1>1, <1>3, <1>4, <1>5 DEF IInv

\* Handing the signal on lets the target go on where it was.
LEMMA ForwardSignalIInv == ASSUME IInv, ForwardSignal PROVE IInv'
  <1>1. CASE RequestFails
    BY <1>1, RequestFailsIInv DEF ForwardSignal
  <1>2. CASE ~RequestFails
    <2>1. TypeOK'
      BY <1>2, CodeType, ManageAssumption, BoundsAssumption DEF ForwardSignal, IInv,
          TypeOK, MutPc, GiveUp, tgtVars, TargetOnTrack, OnTrack, Code
    <2>2. /\ UNCHANGED <<text, root, instr, retAddr, retInstr>>
          /\ Closing' \/ (~Closing /\ Planted' = Planted)
          /\ InAction' => InAction
      BY <1>2 DEF ForwardSignal, IInv, TypeOK, Planted, PlantedAction, Closing, Ended,
          InAction, GiveUp, tgtVars
    <2>3. TextMatchesPhase' /\ SavedIsOriginal' /\ DistinctActions'
      BY <2>2, TextFrame
    <2>4. StatusAsserts' /\ WaitPcIsInstruction'
      BY <1>2 DEF ForwardSignal, IInv, TypeOK, StatusAsserts, WaitPcIsInstruction,
          InAction, GiveUp, tgtVars
    <2>5. TargetMoves' /\ TargetOnTrack'
      BY <1>2 DEF ForwardSignal, IInv, TypeOK, TargetMoves, TargetOnTrack, OnTrack,
          InAction, Closing, Ended, GiveUp, Requestable, tgtVars
    <2> QED BY <2>1, <2>3, <2>4, <2>5 DEF IInv
  <1> QED BY <1>1, <1>2

\* mut_process_wait reports the exit, and the run closes.
LEMMA WaitExitIInv == ASSUME IInv, WaitExit PROVE IInv'
  <1>1. TypeOK'
    BY CodeType, TextAssumption, ManageAssumption, BoundsAssumption DEF WaitExit, IInv,
        TypeOK, MutPc, TargetOnTrack, OnTrack, Code, tgtVars
  <1>2. /\ UNCHANGED <<text, root, instr, retAddr, retInstr>>
        /\ Closing' \/ (~Closing /\ Planted' = Planted)
        /\ InAction' => InAction
    BY DEF WaitExit, IInv, TypeOK, TargetMoves, Planted, PlantedAction, Closing, Ended,
        InAction, tgtVars
  <1>3. TextMatchesPhase' /\ SavedIsOriginal' /\ DistinctActions'
    BY <1>2, TextFrame
  <1>4. StatusAsserts' /\ WaitPcIsInstruction'
    BY DEF WaitExit, IInv, TypeOK, StatusAsserts, WaitPcIsInstruction, TargetMoves,
        InAction, tgtVars
  <1>5. TargetMoves' /\ TargetOnTrack'
    BY TextAssumption DEF WaitExit, IInv, TypeOK, WaitPcIsInstruction, TargetMoves,
        TargetOnTrack, OnTrack, InAction, Closing, Ended, Code, Entries, tgtVars
  <1> QED BY <1>1, <1>3, <1>4, <1>5 DEF IInv

\* A waitpid that fails makes MUT give up.
LEMMA WaitFailsIInv == ASSUME IInv, WaitFails PROVE IInv'
  <1>1. TypeOK'
    BY CodeType, TextAssumption, ManageAssumption, BoundsAssumption DEF WaitFails, IInv,
        TypeOK, MutPc, TargetOnTrack, OnTrack, Code, tgtVars, GiveUp
  <1>2. /\ UNCHANGED <<text, root, instr, retAddr, retInstr>>
        /\ Closing' \/ (~Closing /\ Planted' = Planted)
        /\ InAction' => InAction
    BY DEF WaitFails, IInv, TypeOK, TargetMoves, Planted, PlantedAction, Closing, Ended,
        InAction, tgtVars, GiveUp
  <1>3. TextMatchesPhase' /\ SavedIsOriginal' /\ DistinctActions'
    BY <1>2, TextFrame
  <1>4. StatusAsserts' /\ WaitPcIsInstruction'
    BY DEF WaitFails, IInv, TypeOK, StatusAsserts, WaitPcIsInstruction, TargetMoves,
        InAction, tgtVars, GiveUp
  <1>5. TargetMoves' /\ TargetOnTrack'
    BY TextAssumption DEF WaitFails, IInv, TypeOK, WaitPcIsInstruction, TargetMoves,
        TargetOnTrack, OnTrack, InAction, Closing, Ended, Code, Entries, tgtVars, GiveUp
  <1> QED BY <1>1, <1>3, <1>4, <1>5 DEF IInv

\* mut_actions_lookup picks the action at the address, or none.
LEMMA LookupIInv == ASSUME IInv, Lookup PROVE IInv'
  <1>1. TypeOK'
    <2>1. \A i \in 1..Len(root) : root[i] \in Fn
      BY ManageAssumption DEF IInv, TypeOK
    <2> QED BY <2>1 DEF Lookup, IInv, TypeOK, MutPc, tgtVars
  <1>2. /\ UNCHANGED <<text, root, instr, retAddr, retInstr>>
        /\ Closing' \/ (~Closing /\ Planted' = Planted)
        /\ InAction' => InAction
    BY DEF Lookup, IInv, TypeOK, TargetMoves, Planted, PlantedAction, Closing, Ended,
        InAction, tgtVars
  <1>3. TextMatchesPhase' /\ SavedIsOriginal' /\ DistinctActions'
    BY <1>2, TextFrame
  <1>4. StatusAsserts' /\ WaitPcIsInstruction'
    BY DEF Lookup, IInv, TypeOK, StatusAsserts, WaitPcIsInstruction, TargetMoves,
        InAction, tgtVars
  <1>5. TargetMoves' /\ TargetOnTrack'
    BY TextAssumption DEF Lookup, IInv, TypeOK, WaitPcIsInstruction, TargetMoves,
        TargetOnTrack, OnTrack, InAction, Closing, Ended, Code, Entries, tgtVars
  <1> QED BY <1>1, <1>3, <1>4, <1>5 DEF IInv

\* A handler that returns 0 makes mut_run give up.
LEMMA HandlerFailsIInv == ASSUME IInv, HandlerFails PROVE IInv'
  <1>1. CASE RequestFails
    BY <1>1, RequestFailsIInv DEF HandlerFails
  <1>2. CASE ~RequestFails
    <2>1. TypeOK'
      BY <1>2, CodeType, ManageAssumption, BoundsAssumption DEF HandlerFails, IInv,
          TypeOK, MutPc, GiveUp, tgtVars, TargetOnTrack, OnTrack, Code
    <2>2. /\ UNCHANGED <<text, root, instr, retAddr, retInstr>>
          /\ Closing' \/ (~Closing /\ Planted' = Planted)
          /\ InAction' => InAction
      BY <1>2 DEF HandlerFails, IInv, TypeOK, Planted, PlantedAction, Closing, Ended,
          InAction, GiveUp, tgtVars
    <2>3. TextMatchesPhase' /\ SavedIsOriginal' /\ DistinctActions'
      BY <2>2, TextFrame
    <2>4. StatusAsserts' /\ WaitPcIsInstruction'
      BY <1>2 DEF HandlerFails, IInv, TypeOK, StatusAsserts, WaitPcIsInstruction,
          InAction, GiveUp, tgtVars
    <2>5. TargetMoves' /\ TargetOnTrack'
      BY <1>2 DEF HandlerFails, IInv, TypeOK, TargetMoves, TargetOnTrack, OnTrack,
          InAction, Closing, Ended, GiveUp, Requestable, tgtVars
    <2> QED BY <2>1, <2>3, <2>4, <2>5 DEF IInv
  <1> QED BY <1>1, <1>2

\* mut_process_skip_to continues at the return address.
LEMMA HandlerSkipsIInv == ASSUME IInv, HandlerSkips PROVE IInv'
  <1>1. TypeOK'
    BY CodeType, TextAssumption, ManageAssumption, BoundsAssumption DEF HandlerSkips,
        IInv, TypeOK, MutPc, TargetOnTrack, OnTrack, Code, tgtVars, Requestable
  <1>2. /\ UNCHANGED <<text, root, instr, retAddr, retInstr>>
        /\ Closing' \/ (~Closing /\ Planted' = Planted)
        /\ InAction' => InAction
    BY DEF HandlerSkips, IInv, TypeOK, TargetMoves, Planted, PlantedAction, Closing,
        Ended, InAction, tgtVars, Requestable
  <1>3. TextMatchesPhase' /\ SavedIsOriginal' /\ DistinctActions'
    BY <1>2, TextFrame
  <1>4. StatusAsserts' /\ WaitPcIsInstruction'
    BY DEF HandlerSkips, IInv, TypeOK, StatusAsserts, WaitPcIsInstruction, TargetMoves,
        InAction, tgtVars, Requestable
  <1>5. TargetMoves' /\ TargetOnTrack'
    BY TextAssumption DEF HandlerSkips, IInv, TypeOK, WaitPcIsInstruction, TargetMoves,
        TargetOnTrack, OnTrack, InAction, Closing, Ended, Code, Entries, tgtVars,
            Requestable
  <1> QED BY <1>1, <1>3, <1>4, <1>5 DEF IInv

\* A handler that is done goes on to install the breakpoints again.
LEMMA HandlerDoneIInv == ASSUME IInv, HandlerDone PROVE IInv'
  <1>1. TypeOK'
    BY CodeType, TextAssumption, ManageAssumption, BoundsAssumption DEF HandlerDone,
        IInv, TypeOK, MutPc, TargetOnTrack, OnTrack, Code, tgtVars
  <1>2. /\ UNCHANGED <<text, root, instr, retAddr, retInstr>>
        /\ Closing' \/ (~Closing /\ Planted' = Planted)
        /\ InAction' => InAction
    BY DEF HandlerDone, IInv, TypeOK, TargetMoves, Planted, PlantedAction, Closing,
        Ended, InAction, tgtVars
  <1>3. TextMatchesPhase' /\ SavedIsOriginal' /\ DistinctActions'
    BY <1>2, TextFrame
  <1>4. StatusAsserts' /\ WaitPcIsInstruction'
    BY DEF HandlerDone, IInv, TypeOK, StatusAsserts, WaitPcIsInstruction, TargetMoves,
        InAction, tgtVars
  <1>5. TargetMoves' /\ TargetOnTrack'
    BY TextAssumption DEF HandlerDone, IInv, TypeOK, WaitPcIsInstruction, TargetMoves,
        TargetOnTrack, OnTrack, InAction, Closing, Ended, Code, Entries, tgtVars
  <1> QED BY <1>1, <1>3, <1>4, <1>5 DEF IInv

\* mut_process_close ends the run, whatever it finds.
LEMMA mut_process_closeIInv == ASSUME IInv, mut_process_close PROVE IInv'
  <1>1. TypeOK'
    BY CodeType, TextAssumption, ManageAssumption, BoundsAssumption
        DEF mut_process_close, IInv, TypeOK, MutPc, TargetOnTrack, OnTrack, Code,
            tgtVars, Requestable
  <1>2. /\ UNCHANGED <<text, root, instr, retAddr, retInstr>>
        /\ Closing' \/ (~Closing /\ Planted' = Planted)
        /\ InAction' => InAction
    BY DEF mut_process_close, IInv, TypeOK, TargetMoves, Planted, PlantedAction,
        Closing, Ended, InAction, tgtVars, Requestable
  <1>3. TextMatchesPhase' /\ SavedIsOriginal' /\ DistinctActions'
    BY <1>2, TextFrame
  <1>4. StatusAsserts' /\ WaitPcIsInstruction'
    BY DEF mut_process_close, IInv, TypeOK, StatusAsserts, WaitPcIsInstruction,
        TargetMoves, InAction, tgtVars, Requestable
  <1>5. TargetMoves' /\ TargetOnTrack'
    BY TextAssumption DEF mut_process_close, IInv, TypeOK, WaitPcIsInstruction,
        TargetMoves, TargetOnTrack, OnTrack, InAction, Closing, Ended, Code, Entries,
            tgtVars, Requestable
  <1> QED BY <1>1, <1>3, <1>4, <1>5 DEF IInv

\* A breakpoint stops the target one byte past its address.
LEMMA TargetTrapsIInv == ASSUME IInv, TargetTraps PROVE IInv'
  <1>1. TypeOK'
    BY DEF TargetTraps, IInv, TypeOK, mutVars
  <1>2. /\ UNCHANGED <<text, root, instr, retAddr, retInstr>>
        /\ Closing' \/ (~Closing /\ Planted' = Planted)
        /\ InAction' => InAction
    BY DEF TargetTraps, IInv, TypeOK, TargetMoves, Planted, PlantedAction, Closing,
        Ended, InAction, mutVars, Executes
  <1>3. TextMatchesPhase' /\ SavedIsOriginal' /\ DistinctActions'
    BY <1>2, TextFrame
  <1>4. StatusAsserts' /\ WaitPcIsInstruction'
    BY DEF TargetTraps, IInv, TypeOK, StatusAsserts, WaitPcIsInstruction, TargetMoves,
        InAction, mutVars, Executes
  <1>5. TargetMoves' /\ TargetOnTrack'
    BY TextAssumption DEF TargetTraps, IInv, TypeOK, WaitPcIsInstruction, TargetMoves,
        TargetOnTrack, OnTrack, InAction, Closing, Ended, Code, Entries, mutVars, Executes
  <1> QED BY <1>1, <1>3, <1>4, <1>5 DEF IInv

\* A call pushes a return address, so an entry is never without one.
LEMMA TargetCallsIInv == ASSUME IInv, TargetCalls PROVE IInv'
  <1>1. TypeOK'
    <2>1. Entries \subseteq Int
      BY CodeType DEF Code
    <2> QED BY <2>1 DEF TargetCalls, IInv, TypeOK, mutVars
  <1>2. /\ UNCHANGED <<text, root, instr, retAddr, retInstr>>
        /\ Closing' \/ (~Closing /\ Planted' = Planted)
        /\ InAction' => InAction
    BY DEF TargetCalls, IInv, TypeOK, TargetMoves, Planted, PlantedAction, Closing,
        Ended, InAction, mutVars, Executes
  <1>3. TextMatchesPhase' /\ SavedIsOriginal' /\ DistinctActions'
    BY <1>2, TextFrame
  <1>4. StatusAsserts' /\ WaitPcIsInstruction'
    BY DEF TargetCalls, IInv, TypeOK, StatusAsserts, WaitPcIsInstruction, TargetMoves,
        InAction, mutVars, Executes
  <1>5. TargetMoves' /\ TargetOnTrack'
    BY TextAssumption DEF TargetCalls, IInv, TypeOK, WaitPcIsInstruction, TargetMoves,
        TargetOnTrack, OnTrack, InAction, Closing, Ended, Code, Entries, mutVars, Executes
  <1> QED BY <1>1, <1>3, <1>4, <1>5 DEF IInv

\* A return goes to a call site.
LEMMA TargetReturnsIInv == ASSUME IInv, TargetReturns PROVE IInv'
  <1>1. TypeOK'
    BY CodeType, TextAssumption, ManageAssumption, BoundsAssumption DEF TargetReturns,
        IInv, TypeOK, MutPc, TargetOnTrack, OnTrack, Code, mutVars, Executes
  <1>2. /\ UNCHANGED <<text, root, instr, retAddr, retInstr>>
        /\ Closing' \/ (~Closing /\ Planted' = Planted)
        /\ InAction' => InAction
    BY DEF TargetReturns, IInv, TypeOK, TargetMoves, Planted, PlantedAction, Closing,
        Ended, InAction, mutVars, Executes
  <1>3. TextMatchesPhase' /\ SavedIsOriginal' /\ DistinctActions'
    BY <1>2, TextFrame
  <1>4. StatusAsserts' /\ WaitPcIsInstruction'
    BY DEF TargetReturns, IInv, TypeOK, StatusAsserts, WaitPcIsInstruction, TargetMoves,
        InAction, mutVars, Executes
  <1>5. TargetMoves' /\ TargetOnTrack'
    BY TextAssumption DEF TargetReturns, IInv, TypeOK, WaitPcIsInstruction, TargetMoves,
        TargetOnTrack, OnTrack, InAction, Closing, Ended, Code, Entries, mutVars, Executes
  <1> QED BY <1>1, <1>3, <1>4, <1>5 DEF IInv

\* Other steps of the target stay on instructions.
LEMMA TargetGoesIInv == ASSUME IInv, TargetGoes PROVE IInv'
  <1>1. TypeOK'
    BY CodeType, TextAssumption, ManageAssumption, BoundsAssumption DEF TargetGoes,
        IInv, TypeOK, MutPc, TargetOnTrack, OnTrack, Code, mutVars, Executes
  <1>2. /\ UNCHANGED <<text, root, instr, retAddr, retInstr>>
        /\ Closing' \/ (~Closing /\ Planted' = Planted)
        /\ InAction' => InAction
    BY DEF TargetGoes, IInv, TypeOK, TargetMoves, Planted, PlantedAction, Closing,
        Ended, InAction, mutVars, Executes
  <1>3. TextMatchesPhase' /\ SavedIsOriginal' /\ DistinctActions'
    BY <1>2, TextFrame
  <1>4. StatusAsserts' /\ WaitPcIsInstruction'
    BY DEF TargetGoes, IInv, TypeOK, StatusAsserts, WaitPcIsInstruction, TargetMoves,
        InAction, mutVars, Executes
  <1>5. TargetMoves' /\ TargetOnTrack'
    BY TextAssumption DEF TargetGoes, IInv, TypeOK, WaitPcIsInstruction, TargetMoves,
        TargetOnTrack, OnTrack, InAction, Closing, Ended, Code, Entries, mutVars, Executes
  <1> QED BY <1>1, <1>3, <1>4, <1>5 DEF IInv

\* The exit of the target touches nothing of MUT's.
LEMMA TargetExitsIInv == ASSUME IInv, TargetExits PROVE IInv'
  <1>1. TypeOK'
    BY CodeType, TextAssumption, ManageAssumption, BoundsAssumption DEF TargetExits,
        IInv, TypeOK, MutPc, TargetOnTrack, OnTrack, Code, mutVars, Executes
  <1>2. /\ UNCHANGED <<text, root, instr, retAddr, retInstr>>
        /\ Closing' \/ (~Closing /\ Planted' = Planted)
        /\ InAction' => InAction
    BY DEF TargetExits, IInv, TypeOK, TargetMoves, Planted, PlantedAction, Closing,
        Ended, InAction, mutVars, Executes
  <1>3. TextMatchesPhase' /\ SavedIsOriginal' /\ DistinctActions'
    BY <1>2, TextFrame
  <1>4. StatusAsserts' /\ WaitPcIsInstruction'
    BY DEF TargetExits, IInv, TypeOK, StatusAsserts, WaitPcIsInstruction, TargetMoves,
        InAction, mutVars, Executes
  <1>5. TargetMoves' /\ TargetOnTrack'
    BY TextAssumption DEF TargetExits, IInv, TypeOK, WaitPcIsInstruction, TargetMoves,
        TargetOnTrack, OnTrack, InAction, Closing, Ended, Code, Entries, mutVars, Executes
  <1> QED BY <1>1, <1>3, <1>4, <1>5 DEF IInv

\* Executing half a breakpoint ends the target; the invariant excludes it.
LEMMA TargetDerailsIInv == ASSUME IInv, TargetDerails PROVE IInv'
  <1>1. TypeOK'
    BY CodeType, TextAssumption, ManageAssumption, BoundsAssumption DEF TargetDerails,
        IInv, TypeOK, MutPc, TargetOnTrack, OnTrack, Code, mutVars, Executes
  <1>2. /\ UNCHANGED <<text, root, instr, retAddr, retInstr>>
        /\ Closing' \/ (~Closing /\ Planted' = Planted)
        /\ InAction' => InAction
    BY DEF TargetDerails, IInv, TypeOK, TargetMoves, Planted, PlantedAction, Closing,
        Ended, InAction, mutVars, Executes
  <1>3. TextMatchesPhase' /\ SavedIsOriginal' /\ DistinctActions'
    BY <1>2, TextFrame
  <1>4. StatusAsserts' /\ WaitPcIsInstruction'
    BY DEF TargetDerails, IInv, TypeOK, StatusAsserts, WaitPcIsInstruction, TargetMoves,
        InAction, mutVars, Executes
  <1>5. TargetMoves' /\ TargetOnTrack'
    BY TextAssumption DEF TargetDerails, IInv, TypeOK, WaitPcIsInstruction, TargetMoves,
        TargetOnTrack, OnTrack, InAction, Closing, Ended, Code, Entries, mutVars, Executes
  <1> QED BY <1>1, <1>3, <1>4, <1>5 DEF IInv

\* SIGKILL touches nothing of MUT's.
LEMMA KilledIInv == ASSUME IInv, Killed PROVE IInv'
  <1>1. TypeOK'
    <2>1. events' \in 0..MaxEvents
      BY BoundsAssumption DEF Killed, IInv, TypeOK
    <2> QED BY <2>1 DEF Killed, IInv, TypeOK, mutVars
  <1>2. /\ UNCHANGED <<text, root, instr, retAddr, retInstr>>
        /\ Closing' \/ (~Closing /\ Planted' = Planted)
        /\ InAction' => InAction
    BY DEF Killed, IInv, TypeOK, TargetMoves, Planted, PlantedAction, Closing, Ended,
        InAction, mutVars, Executes
  <1>3. TextMatchesPhase' /\ SavedIsOriginal' /\ DistinctActions'
    BY <1>2, TextFrame
  <1>4. StatusAsserts' /\ WaitPcIsInstruction'
    BY DEF Killed, IInv, TypeOK, StatusAsserts, WaitPcIsInstruction, TargetMoves,
        InAction, mutVars, Executes
  <1>5. TargetMoves' /\ TargetOnTrack'
    BY TextAssumption DEF Killed, IInv, TypeOK, WaitPcIsInstruction, TargetMoves,
        TargetOnTrack, OnTrack, InAction, Closing, Ended, Code, Entries, mutVars, Executes
  <1> QED BY <1>1, <1>3, <1>4, <1>5 DEF IInv

\* The addresses with a breakpoint are instructions.
LEMMA PlantedType == ASSUME IInv PROVE Planted \in SUBSET Code
  <1>1. \A j \in 1..Len(root) : AddrOf[root[j]] \in Code
    BY DEF IInv, TypeOK, Code, Entries
  <1> QED BY <1>1 DEF IInv, TypeOK, Planted

\* mut_manage_action plants one more breakpoint, over a word that holds none.
LEMMA ManageActionIInv == ASSUME IInv, ManageAction PROVE IInv'
  <1> DEFINE f == Manage[k]
  <1>1. mpc = "manage" /\ k \in Nat \ {0} /\ k <= Len(Manage)
    BY DEF ManageAction, IInv, TypeOK
  <1>2. CASE ~NewAction(f) /\ k' = k + 1
             /\ UNCHANGED <<mpc, root, instr, cur, retAddr, retInstr, status, ppc, fatal,
                            text, tgtVars, events>>
    <2>1. TypeOK'
      BY <1>1, <1>2 DEF IInv, TypeOK, tgtVars
    <2>2. Planted' = Planted /\ ~Closing /\ ~InAction'
      BY <1>1, <1>2 DEF Planted, PlantedAction, InAction, Closing, Ended
    <2>3. TextMatchesPhase' /\ SavedIsOriginal' /\ DistinctActions'
      BY <1>2, <2>2, TextFrame
    <2>4. StatusAsserts' /\ WaitPcIsInstruction' /\ TargetMoves' /\ TargetOnTrack'
      BY <1>1, <1>2 DEF IInv, StatusAsserts, WaitPcIsInstruction, TargetMoves,
          TargetOnTrack,
                        OnTrack, InAction, Closing, Ended, tgtVars
    <2> QED BY <2>1, <2>3, <2>4 DEF IInv
  <1>3. CASE NewAction(f) /\ Requestable
             /\ root' = <<f>> \o root
             /\ instr' = [instr EXCEPT ![f] = Peek(text, AddrOf[f])]
             /\ mut_process_breakpoint(AddrOf[f])
             /\ k' = k + 1
             /\ UNCHANGED <<mpc, cur, retAddr, retInstr, status, ppc, fatal, tgtVars,
                events>>
    <2> DEFINE a == AddrOf[f]
    <2>1. f \in Found /\ f \in Fn /\ a \in Code /\ ~SameAddr(f)
      BY <1>3, ManageAssumption DEF NewAction, Code, Entries
    <2>2. /\ root' \in Seq(Found) /\ Len(root') = Len(root) + 1 /\ Len(root) \in Nat
          /\ root'[1] = f
          /\ \A j \in 2..Len(root') : root'[j] = root[j - 1] /\ j - 1 \in 1..Len(root)
      BY <1>3, <2>1 DEF IInv, TypeOK
    <2>3. a \notin Planted /\ Planted' = Planted \cup {a}
      <3>1. Planted = {AddrOf[root[j]] : j \in 1..Len(root)}
        BY <1>1 DEF Planted, PlantedAction, InAction
      <3>2. Planted' = {AddrOf[root'[j]] : j \in 1..Len(root')}
        BY <1>1, <1>3 DEF Planted, PlantedAction, InAction
      <3>3. \A j \in 1..Len(root) : j + 1 \in 2..Len(root') /\ root'[j + 1] = root[j]
        BY <2>2
      <3> QED BY <2>1, <2>2, <3>1, <3>2, <3>3, SMTT(30) DEF SameAddr
    <2>4. text \in [TextAddr -> Byte] /\ TextWith(text, Planted)
      BY <1>1 DEF IInv, TypeOK, TextMatchesPhase, Closing, Ended
    <2>5. TextWith(text', Planted') /\ Peek(text, a) = Peek(Orig, a)
      BY <1>3, <2>1, <2>3, <2>4, PlantLemma, PlantedType DEF mut_process_breakpoint
    <2>6. TypeOK'
      <3>1. text' \in [TextAddr -> Byte]
        BY <1>3, <2>1, <2>4, PokeType, BpType DEF mut_process_breakpoint
      <3>2. Peek(text, a) \in [0..(W - 1) -> Byte]
        BY <2>1, <2>4, PeekType
      <3>3. instr' \in [Fn -> [0..(W - 1) -> Byte]]
        BY <1>3, <3>2 DEF IInv, TypeOK
      <3> QED BY <1>1, <1>3, <2>2, <3>1, <3>3 DEF IInv, TypeOK, tgtVars
    <2>7. TextMatchesPhase'
      BY <2>5 DEF TextMatchesPhase
    <2>8. DistinctActions'
      <3>1. \A j \in 1..Len(root) : AddrOf[root[j]] # a
        BY <2>1 DEF SameAddr
      <3>2. \A j \in 2..Len(root') : AddrOf[root'[j]] # AddrOf[root'[1]]
        BY <2>2, <3>1
      <3>3. \A i, j \in 2..Len(root') : i # j => AddrOf[root'[i]] # AddrOf[root'[j]]
        BY <2>2, SMTT(30) DEF IInv, DistinctActions
      <3> QED BY <2>2, <3>2, <3>3 DEF DistinctActions
    <2>9. SavedIsOriginal'
      <3>1. \A j \in 1..Len(root) : instr[root[j]] = Peek(Orig, AddrOf[root[j]])
        BY <1>1 DEF IInv, SavedIsOriginal, Planted, PlantedAction, Closing, Ended
      <3>2. \A j \in 1..Len(root) : root[j] # f /\ root[j] \in Fn
        BY <2>1, ManageAssumption DEF SameAddr, IInv, TypeOK
      <3>3. \A j \in 1..Len(root') : instr'[root'[j]] = Peek(Orig, AddrOf[root'[j]])
        BY <1>3, <2>1, <2>2, <2>5, <3>1, <3>2 DEF IInv, TypeOK
      <3> QED BY <1>1, <1>3, <3>3 DEF SavedIsOriginal, InAction
    <2>10. StatusAsserts' /\ WaitPcIsInstruction' /\ TargetMoves' /\ TargetOnTrack'
      BY <1>1, <1>3 DEF IInv, StatusAsserts, WaitPcIsInstruction, TargetMoves,
          TargetOnTrack,
                        OnTrack, InAction, Closing, Ended, tgtVars
    <2> QED BY <2>6, <2>7, <2>8, <2>9, <2>10 DEF IInv
  <1>4. CASE RequestFails
    BY <1>1, <1>4, RequestFailsIInv
  <1> QED BY <1>2, <1>3, <1>4 DEF ManageAction

\* mut_remove_action_breakpoints puts back the words in the order of the list.
LEMMA mut_remove_action_breakpointsIInv == ASSUME IInv,
    mut_remove_action_breakpoints PROVE IInv'
  <1>1. mpc = "remove" /\ k \in Nat \ {0} /\ Len(root) \in Nat
    BY DEF mut_remove_action_breakpoints, IInv, TypeOK
  <1>2. CASE RequestFails
    BY <1>1, <1>2, RequestFailsIInv
  <1>3. CASE k > Len(root) /\ mpc' = "handler"
             /\ UNCHANGED <<k, root, instr, cur, retAddr, retInstr, status, ppc, fatal,
                            text, tgtVars, events>>
    <2>1. TypeOK'
      BY <1>3 DEF IInv, TypeOK, MutPc, tgtVars
    <2>2. Planted' = Planted /\ ~Closing /\ ~InAction'
      BY <1>1, <1>3 DEF Planted, PlantedAction, InAction, Closing, Ended
    <2>3. TextMatchesPhase' /\ SavedIsOriginal' /\ DistinctActions'
      BY <1>3, <2>2, TextFrame
    <2>4. StatusAsserts' /\ WaitPcIsInstruction' /\ TargetMoves' /\ TargetOnTrack'
      BY <1>1, <1>3 DEF IInv, StatusAsserts, WaitPcIsInstruction, TargetMoves,
          TargetOnTrack,
                        OnTrack, InAction, Closing, Ended, tgtVars
    <2> QED BY <2>1, <2>3, <2>4 DEF IInv
  <1>4. CASE k <= Len(root) /\ Requestable
             /\ mut_process_restore(AddrOf[root[k]], instr[root[k]])
             /\ k' = k + 1
             /\ UNCHANGED <<mpc, root, instr, cur, retAddr, retInstr, status, ppc, fatal,
                            tgtVars, events>>
    <2> DEFINE a == AddrOf[root[k]]
    <2>1. root[k] \in Found /\ root[k] \in Fn /\ a \in Code /\ k \in 1..Len(root)
      BY <1>1, <1>4, ManageAssumption DEF IInv, TypeOK, Code, Entries
    <2>2. a \in Planted /\ Planted' = Planted \ {a}
      <3>1. Planted = {AddrOf[root[j]] : j \in {i \in 1..Len(root) : k <= i}}
        BY <1>1 DEF Planted, PlantedAction, InAction
      <3>2. Planted' = {AddrOf[root[j]] : j \in {i \in 1..Len(root) : k + 1 <= i}}
        BY <1>1, <1>4 DEF Planted, PlantedAction, InAction
      <3> QED BY <1>1, <2>1, <3>1, <3>2 DEF IInv, DistinctActions
    <2>3. text \in [TextAddr -> Byte] /\ TextWith(text, Planted)
      BY <1>1 DEF IInv, TypeOK, TextMatchesPhase, Closing, Ended
    <2>4. TextWith(text', Planted')
      <3>1. instr[root[k]] = Peek(Orig, a)
        BY <1>1, <2>1, <2>2 DEF IInv, SavedIsOriginal, Closing, Ended
      <3> QED BY <1>4, <2>2, <2>3, <3>1, RemoveLemma, PlantedType DEF mut_process_restore
    <2>5. TypeOK'
      <3>1. instr[root[k]] \in [0..(W - 1) -> Byte]
        BY <2>1 DEF IInv, TypeOK
      <3>2. text' \in [TextAddr -> Byte]
        BY <1>4, <2>1, <2>3, <3>1, PokeType DEF mut_process_restore
      <3> QED BY <1>1, <1>4, <3>2 DEF IInv, TypeOK, tgtVars
    <2>6. TextMatchesPhase' /\ DistinctActions'
      BY <1>4, <2>4 DEF TextMatchesPhase, IInv, DistinctActions
    <2>7. SavedIsOriginal'
      BY <1>1, <1>4, <2>2 DEF IInv, SavedIsOriginal, InAction, Closing, Ended
    <2>8. StatusAsserts' /\ WaitPcIsInstruction' /\ TargetMoves' /\ TargetOnTrack'
      BY <1>1, <1>4 DEF IInv, StatusAsserts, WaitPcIsInstruction, TargetMoves,
          TargetOnTrack,
                        OnTrack, InAction, Closing, Ended, tgtVars
    <2> QED BY <2>5, <2>6, <2>7, <2>8 DEF IInv
  <1> QED BY <1>2, <1>3, <1>4 DEF mut_remove_action_breakpoints

\* mut_install_action_breakpoints saves each word anew and plants its breakpoint.
LEMMA mut_install_action_breakpointsIInv == ASSUME IInv,
    mut_install_action_breakpoints PROVE IInv'
  <1>1. mpc = "install" /\ k \in Nat \ {0} /\ Len(root) \in Nat
    BY DEF mut_install_action_breakpoints, IInv, TypeOK
  <1>2. CASE RequestFails
    BY <1>1, <1>2, RequestFailsIInv
  <1>3. CASE k > Len(root) /\ mpc' = "resume"
             /\ UNCHANGED <<k, root, instr, cur, retAddr, retInstr, status, ppc, fatal,
                            text, tgtVars, events>>
    <2>1. TypeOK'
      BY <1>3 DEF IInv, TypeOK, MutPc, tgtVars
    <2>2. Planted' = Planted /\ ~Closing /\ ~InAction'
      BY <1>1, <1>3 DEF Planted, PlantedAction, InAction, Closing, Ended
    <2>3. TextMatchesPhase' /\ SavedIsOriginal' /\ DistinctActions'
      BY <1>3, <2>2, TextFrame
    <2>4. StatusAsserts' /\ WaitPcIsInstruction' /\ TargetMoves' /\ TargetOnTrack'
      BY <1>1, <1>3 DEF IInv, StatusAsserts, WaitPcIsInstruction, TargetMoves,
          TargetOnTrack,
                        OnTrack, InAction, Closing, Ended, tgtVars
    <2> QED BY <2>1, <2>3, <2>4 DEF IInv
  <1>4. CASE k <= Len(root) /\ Requestable
             /\ instr' = [instr EXCEPT ![root[k]] = Peek(text, AddrOf[root[k]])]
             /\ mut_process_breakpoint(AddrOf[root[k]])
             /\ k' = k + 1
             /\ UNCHANGED <<mpc, root, cur, retAddr, retInstr, status, ppc, fatal,
                            tgtVars, events>>
    <2> DEFINE a == AddrOf[root[k]]
    <2>1. root[k] \in Found /\ root[k] \in Fn /\ a \in Code /\ k \in 1..Len(root)
      BY <1>1, <1>4, ManageAssumption DEF IInv, TypeOK, Code, Entries
    <2>2. a \notin Planted /\ Planted' = Planted \cup {a}
      <3>1. Planted = {AddrOf[root[j]] : j \in {i \in 1..Len(root) : i < k}}
        BY <1>1 DEF Planted, PlantedAction, InAction
      <3>2. Planted' = {AddrOf[root[j]] : j \in {i \in 1..Len(root) : i < k + 1}}
        BY <1>1, <1>4 DEF Planted, PlantedAction, InAction
      <3> QED BY <1>1, <2>1, <3>1, <3>2 DEF IInv, DistinctActions
    <2>3. text \in [TextAddr -> Byte] /\ TextWith(text, Planted)
      BY <1>1 DEF IInv, TypeOK, TextMatchesPhase, Closing, Ended
    <2>4. TextWith(text', Planted') /\ Peek(text, a) = Peek(Orig, a)
      BY <1>4, <2>1, <2>2, <2>3, PlantLemma, PlantedType DEF mut_process_breakpoint
    <2>5. TypeOK'
      <3>1. text' \in [TextAddr -> Byte]
        BY <1>4, <2>1, <2>3, PokeType, BpType DEF mut_process_breakpoint
      <3>2. Peek(text, a) \in [0..(W - 1) -> Byte]
        BY <2>1, <2>3, PeekType
      <3>3. instr' \in [Fn -> [0..(W - 1) -> Byte]]
        BY <1>4, <3>2 DEF IInv, TypeOK
      <3> QED BY <1>1, <1>4, <3>1, <3>3 DEF IInv, TypeOK, tgtVars
    <2>6. TextMatchesPhase' /\ DistinctActions'
      BY <1>4, <2>4 DEF TextMatchesPhase, IInv, DistinctActions
    <2>7. SavedIsOriginal'
      <3>1. \A j \in 1..Len(root) : root[j] \in Fn /\ (root[j] = root[k] => j = k)
        BY <2>1, ManageAssumption DEF IInv, TypeOK, DistinctActions
      <3>2. \A j \in 1..Len(root) :
              AddrOf[root[j]] \in Planted => instr[root[j]] = Peek(Orig, AddrOf[root[j]])
        BY <1>1 DEF IInv, SavedIsOriginal, Closing, Ended
      <3>3. \A j \in 1..Len(root) :
              AddrOf[root[j]] \in Planted' => instr'[root[j]] = Peek(Orig,
                AddrOf[root[j]])
        <4> SUFFICES ASSUME NEW j \in 1..Len(root), AddrOf[root[j]] \in Planted'
                     PROVE  instr'[root[j]] = Peek(Orig, AddrOf[root[j]])
          OBVIOUS
        <4>1. CASE root[j] = root[k]
          BY <4>1, <1>4, <2>1, <2>4 DEF IInv, TypeOK
        <4>2. CASE root[j] # root[k]
          <5>1. AddrOf[root[j]] \in Planted
            BY <4>2, <2>1, <2>2 DEF IInv, DistinctActions
          <5>2. instr'[root[j]] = instr[root[j]]
            BY <4>2, <1>4, <3>1 DEF IInv, TypeOK
          <5> QED BY <5>1, <5>2, <3>2
        <4> QED BY <4>1, <4>2
      <3> QED BY <1>1, <1>4, <3>3 DEF SavedIsOriginal, InAction
    <2>8. StatusAsserts' /\ WaitPcIsInstruction' /\ TargetMoves' /\ TargetOnTrack'
      BY <1>1, <1>4 DEF IInv, StatusAsserts, WaitPcIsInstruction, TargetMoves,
          TargetOnTrack,
                        OnTrack, InAction, Closing, Ended, tgtVars
    <2> QED BY <2>5, <2>6, <2>7, <2>8 DEF IInv
  <1> QED BY <1>2, <1>3, <1>4 DEF mut_install_action_breakpoints

\* mut_do_action plants the breakpoint at the return address, where none is.
LEMMA HandlerActsIInv == ASSUME IInv, HandlerActs PROVE IInv'
  <1> DEFINE a == Head(stack)
  <1>1. mpc = "handler" /\ mpc' = "act_resume"
    BY DEF HandlerActs
  <1>2. a \in Sites /\ a \in Code
    BY <1>1 DEF IInv, TypeOK, TargetOnTrack, OnTrack, Code
  <1>3. Planted = {} /\ Planted' = {a}
    BY <1>1 DEF HandlerActs, Planted, PlantedAction, InAction
  <1>4. text \in [TextAddr -> Byte] /\ TextWith(text, Planted)
    BY <1>1 DEF IInv, TypeOK, TextMatchesPhase, Closing, Ended
  <1>5. TextWith(text', Planted') /\ Peek(text, a) = Peek(Orig, a)
    BY <1>2, <1>3, <1>4, PlantLemma, PlantedType DEF HandlerActs, mut_process_breakpoint
  <1>6. TypeOK'
    <2>1. text' \in [TextAddr -> Byte]
      BY <1>2, <1>4, PokeType, BpType DEF HandlerActs, mut_process_breakpoint
    <2>2. retInstr' \in [0..(W - 1) -> Byte]
      BY <1>2, <1>4, PeekType DEF HandlerActs
    <2> QED BY <1>2, <2>1, <2>2 DEF HandlerActs, IInv, TypeOK, MutPc, tgtVars
  <1>7. TextMatchesPhase' /\ DistinctActions'
    BY <1>5 DEF HandlerActs, TextMatchesPhase, IInv, DistinctActions
  <1>8. SavedIsOriginal'
    <2>1. \A j \in 1..Len(root) : AddrOf[root[j]] \in Entries
      BY DEF IInv, TypeOK, Entries
    <2>2. a \notin Entries
      BY <1>2, TextAssumption
    <2> QED BY <1>3, <1>5, <2>1, <2>2 DEF HandlerActs, SavedIsOriginal, InAction
  <1>9. StatusAsserts' /\ WaitPcIsInstruction' /\ TargetMoves' /\ TargetOnTrack'
    BY <1>1, <1>2 DEF HandlerActs, IInv, StatusAsserts, WaitPcIsInstruction, TargetMoves,
                      TargetOnTrack, OnTrack, InAction, Closing, Ended, tgtVars
  <1> QED BY <1>6, <1>7, <1>8, <1>9 DEF IInv

\* mut_do_action takes its breakpoint away again.
LEMMA ActionReturnsIInv == ASSUME IInv, ActionReturns PROVE IInv'
  <1>1. mpc = "act_check"
    BY DEF ActionReturns
  <1>2. CASE RequestFails
    BY <1>1, <1>2, RequestFailsIInv
  <1>3. CASE GiveUp(TRUE) /\ UNCHANGED <<k, root, instr, cur, retAddr, retInstr, status,
      ppc,
                                         text, tgtVars, events>>
    <2>1. TypeOK'
      BY <1>3 DEF GiveUp, IInv, TypeOK, MutPc, tgtVars
    <2>2. Closing' /\ ~InAction'
      BY <1>3 DEF GiveUp, Closing, InAction
    <2>3. TextMatchesPhase' /\ SavedIsOriginal' /\ DistinctActions'
      BY <1>3, <2>2, TextFrame
    <2>4. StatusAsserts' /\ WaitPcIsInstruction' /\ TargetMoves' /\ TargetOnTrack'
      BY <1>1, <1>3 DEF GiveUp, IInv, StatusAsserts, WaitPcIsInstruction, TargetMoves,
                        TargetOnTrack, InAction, Closing, Ended, tgtVars
    <2> QED BY <2>1, <2>3, <2>4 DEF IInv
  <1>4. CASE ppc = retAddr /\ Requestable
             /\ mut_process_restore(retAddr, retInstr)
             /\ mpc' = "act_done"
             /\ UNCHANGED <<k, root, instr, cur, retAddr, retInstr, status, ppc, fatal,
                            tgtVars, events>>
    <2>1. retAddr \in Code /\ retAddr \in Sites /\ retInstr = Peek(Orig, retAddr)
      BY <1>1 DEF IInv, TypeOK, TargetOnTrack, SavedIsOriginal, InAction
    <2>2. Planted = {retAddr} /\ Planted' = {}
      BY <1>1, <1>4 DEF Planted, PlantedAction, InAction
    <2>3. text \in [TextAddr -> Byte] /\ TextWith(text, Planted)
      BY <1>1 DEF IInv, TypeOK, TextMatchesPhase, Closing, Ended
    <2>4. TextWith(text', Planted')
      BY <1>4, <2>1, <2>2, <2>3, RemoveLemma, PlantedType DEF mut_process_restore
    <2>5. TypeOK'
      <3>1. text' \in [TextAddr -> Byte]
        BY <1>4, <2>1, <2>3, PokeType DEF mut_process_restore, IInv, TypeOK
      <3> QED BY <1>4, <3>1 DEF IInv, TypeOK, MutPc, tgtVars
    <2>6. TextMatchesPhase' /\ DistinctActions' /\ SavedIsOriginal'
      BY <1>4, <2>2, <2>4 DEF TextMatchesPhase, IInv, DistinctActions, SavedIsOriginal,
          InAction
    <2>7. StatusAsserts' /\ WaitPcIsInstruction' /\ TargetMoves' /\ TargetOnTrack'
      BY <1>1, <1>4, <2>1 DEF IInv, StatusAsserts, WaitPcIsInstruction, TargetMoves,
                        TargetOnTrack, OnTrack, InAction, Closing, Ended, tgtVars
    <2> QED BY <2>5, <2>6, <2>7 DEF IInv
  <1> QED BY <1>2, <1>3, <1>4 DEF ActionReturns

\* A signal stops the target between two instructions.
LEMMA SignalIInv == ASSUME IInv, Signal("sig") PROVE IInv'
  <1>1. TypeOK'
    <2>1. events' \in 0..MaxEvents
      BY BoundsAssumption DEF Signal, IInv, TypeOK
    <2> QED BY <2>1 DEF Signal, IInv, TypeOK, mutVars
  <1>2. /\ UNCHANGED <<text, root, instr, retAddr, retInstr>>
        /\ ~Closing /\ Planted' = Planted
        /\ InAction' => InAction
    BY DEF Signal, IInv, TypeOK, TargetMoves, Planted, PlantedAction, Closing, Ended,
        InAction, mutVars
  <1>3. TextMatchesPhase' /\ SavedIsOriginal' /\ DistinctActions'
    BY <1>2, TextFrame
  <1>4. StatusAsserts' /\ WaitPcIsInstruction' /\ TargetMoves' /\ TargetOnTrack'
    BY DEF Signal, IInv, TypeOK, StatusAsserts, WaitPcIsInstruction, TargetMoves,
        TargetOnTrack,
           OnTrack, InAction, Closing, Ended, mutVars
  <1> QED BY <1>1, <1>3, <1>4 DEF IInv

\* Every step of MUT and of the target keeps the invariant.
LEMMA NextIInv == ASSUME NoStray, IInv, [Next]_vars PROVE IInv'
  <1>1. CASE MutStep
    BY <1>1, ManageActionIInv, ManageDoneIInv, mut_process_resumeIInv, WaitTrapIInv,
       WaitSignalIInv, ForwardSignalIInv, WaitExitIInv, WaitFailsIInv, LookupIInv,
       mut_remove_action_breakpointsIInv, mut_install_action_breakpointsIInv,
       HandlerFailsIInv, HandlerSkipsIInv, HandlerActsIInv, ActionReturnsIInv,
       HandlerDoneIInv, mut_process_closeIInv
    DEF MutStep
  <1>2. CASE TargetStep
    <2>1. CASE \E kind \in {"sig", "trap"} : Signal(kind)
      <3>1. Signal("sig")
        BY <2>1 DEF NoStray, Signal
      <3> QED BY <3>1, SignalIInv
    <2> QED
      BY <1>2, <2>1, TargetTrapsIInv, TargetCallsIInv, TargetReturnsIInv, TargetGoesIInv,
         TargetExitsIInv, TargetDerailsIInv, KilledIInv
      DEF TargetStep
  <1>3. CASE UNCHANGED vars
    BY <1>3 DEF vars, IInv, TypeOK, TextMatchesPhase, SavedIsOriginal, DistinctActions,
       StatusAsserts, WaitPcIsInstruction, TargetMoves, TargetOnTrack, OnTrack, Planted,
       PlantedAction, InAction, Closing, Ended
  <1> QED BY <1>1, <1>2, <1>3 DEF Next, Finished

-----------------------------------------------------------------------------
(* the theorems *)

\* The invariant holds of the tracer loop whatever functions, text and word
\* size it meets, as long as only breakpoints raise SIGTRAP.
THEOREM TracerInvariant == ASSUME NoStray PROVE Spec => []IInv
  <1>1. Init => IInv
    BY InitIInv
  <1>2. IInv /\ [Next]_vars => IInv'
    BY NextIInv
  <1> QED BY <1>1, <1>2, PTL DEF Spec

\* mut_run and mut_do_action keep the variables in their types.
THEOREM TracerTypes == ASSUME NoStray PROVE Spec => []TypeOK
  <1>1. IInv => TypeOK
    BY DEF IInv
  <1> QED BY <1>1, TracerInvariant, PTL

\* mut_remove_action_breakpoints, mut_do_action and
\* mut_install_action_breakpoints leave the target's text as loaded, but for
\* the breakpoints that belong there.
THEOREM TextIsKept == ASSUME NoStray PROVE Spec => []TextMatchesPhase
  <1>1. IInv => TextMatchesPhase
    BY DEF IInv
  <1> QED BY <1>1, TracerInvariant, PTL

\* The preconditions on p->status asserted by mut_process.c are met.
THEOREM StatusAssertsHold == ASSUME NoStray PROVE Spec => []StatusAsserts
  <1>1. IInv => StatusAsserts
    BY DEF IInv
  <1> QED BY <1>1, TracerInvariant, PTL

\* mut_process_wait reports the instruction the target stopped on.
THEOREM WaitReportsInstruction == ASSUME NoStray PROVE Spec => []WaitPcIsInstruction
  <1>1. IInv => WaitPcIsInstruction
    BY DEF IInv
  <1> QED BY <1>1, TracerInvariant, PTL

\* Where the target is while it runs, the text is its own or a breakpoint.
LEMMA AtPlanted ==
  ASSUME IInv, target = "run"
  PROVE  /\ tpc \in Planted => text[tpc] = Int3
         /\ tpc \notin Planted => text[tpc] = Orig[tpc]
  <1>1. mpc \in {"wait", "act_wait"} /\ tpc \in Code
    BY DEF IInv, TargetMoves, TargetOnTrack, OnTrack
  <1>2. TextWith(text, Planted) /\ Planted \in SUBSET Code
    BY <1>1, PlantedType DEF IInv, TextMatchesPhase, Closing, Ended
  <1>3. W \in Nat \ {0} /\ tpc \in TextAddr /\ \A c \in Code : c \in Int
    BY <1>1, CodeType, TextAssumption
  <1>4. ASSUME tpc \in Planted PROVE text[tpc] = Int3
    <2>1. tpc \in Word(tpc) /\ tpc - tpc = 0 /\ 0 \in 0..(W - 1)
      BY <1>1, <1>3 DEF Word
    <2>2. text[tpc] = Bp[tpc - tpc]
      BY <1>2, <1>3, <1>4, <2>1 DEF TextWith
    <2> QED BY <2>1, <2>2 DEF Bp
  <1>5. ASSUME tpc \notin Planted PROVE text[tpc] = Orig[tpc]
    <2>1. \A c \in Planted : tpc \notin Word(c)
      BY <1>1, <1>2, <1>3, <1>5, SpacingAssumption DEF Word
    <2> QED BY <1>2, <1>3, <2>1 DEF TextWith
  <1> QED BY <1>4, <1>5

\* The target never executes a byte MUT has damaged.
THEOREM NoDamagedFetch == ASSUME NoStray PROVE Spec => []FetchesIntact
  <1>1. IInv => FetchesIntact
    BY AtPlanted DEF FetchesIntact
  <1> QED BY <1>1, TracerInvariant, PTL

\* No call of a managed function made outside an action escapes mut_run.
THEOREM NoCallEscapes == ASSUME NoStray PROVE Spec => NoMissedCall
  <1>1. IInv /\ [Next]_vars =>
          [(mpc = "wait" /\ target = "run" /\ tpc \in ManagedAddr /\ target' = "run")
             => tpc' = tpc]_vars
    <2> SUFFICES ASSUME IInv, Next, mpc = "wait", target = "run", tpc \in ManagedAddr,
                        target' = "run"
                 PROVE  tpc' = tpc
      OBVIOUS
    <2>1. tpc \in Planted
      BY DEF ManagedAddr, Planted, PlantedAction
    <2>2. ~Executes
      BY <2>1, AtPlanted DEF Executes
    <2>3. CASE MutStep
      BY <2>3 DEF MutStep, ManageAction, ManageDone, mut_process_resume, WaitTrap,
          WaitSignal,
         ForwardSignal, WaitExit, WaitFails, Lookup, mut_remove_action_breakpoints,
         mut_install_action_breakpoints, HandlerFails, HandlerSkips, HandlerActs,
         ActionReturns, HandlerDone, mut_process_close
    <2>4. CASE TargetStep
      BY <2>2, <2>4 DEF TargetStep, TargetTraps, TargetCalls, TargetReturns, TargetGoes,
         TargetExits, TargetDerails, Signal, Killed
    <2>5. CASE Finished
      BY <2>5 DEF Finished, vars
    <2> QED BY <2>3, <2>4, <2>5 DEF Next
  <1> QED BY <1>1, TracerInvariant, PTL DEF Spec, NoMissedCall
=============================================================================
