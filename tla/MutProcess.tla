----------------------------- MODULE MutProcess -----------------------------
(***************************************************************************)
(* The tracer loop of MUT against the traced process: mut_manage_actions,  *)
(* mut_run and mut_do_action of mut.c over proc/ptrace/mut_process.c,      *)
(* mut_trace.c and arch/x86.                                               *)
(*                                                                         *)
(* A breakpoint is a whole machine word written over the text of the       *)
(* target, so text is kept byte by byte.  What a handler does between its  *)
(* entry and its exit is left to module Mut; here a handler gives up, runs *)
(* the target's function with mut_do_action, or skips it.  A ptrace        *)
(* request succeeds exactly when the target is in a ptrace stop.           *)
(***************************************************************************)
EXTENDS Integers, Sequences

CONSTANTS
    Fn,             \* the functions MUT knows: malloc, calloc, ..., usage
    Manage,         \* their order in mut_manage_actions
    Found,          \* those whose address mut_exec_functions_addr found
    AddrOf,         \* entry address of a function that was found
    Consumers,      \* free and cfree
    ReallyFree,     \* mut_control_free (-f)
    TextAddr,       \* byte addresses of the target's text
    W,              \* bytes in a word, so in a breakpoint
    Orig,           \* the text as loaded
    Int3, Pad,      \* first and other bytes of mut_instr_bp
    Start,          \* where the target is first stopped
    Sites,          \* return addresses of calls
    Other,          \* other instructions of the target
    SigchldIgnored, \* waitpid fails once the child is dead
    Outside,        \* events from outside: "sig", "trap" (SIGTRAP), "kill"
    MaxDepth,       \* bound: nested calls of the target
    MaxEvents       \* bound: events from outside

Entries == {AddrOf[f] : f \in Found}
Code == Entries \cup Sites \cup Other \cup {Start}
Word(a) == a..(a + W - 1)
Bp == [i \in 0..(W - 1) |-> IF i = 0 THEN Int3 ELSE Pad]
Byte == {Orig[x] : x \in TextAddr} \cup {Int3, Pad}

ASSUME ManageAssumption ==
    /\ Manage \in Seq(Fn) /\ Manage # <<>>
    /\ Found \subseteq Fn
    /\ Consumers \subseteq Fn
    /\ AddrOf \in [Found -> TextAddr]
    /\ ReallyFree \in BOOLEAN
    /\ SigchldIgnored \in BOOLEAN

ASSUME TextAssumption ==
    /\ TextAddr \subseteq Int
    /\ W \in Nat \ {0}
    /\ Orig \in [TextAddr -> Byte]
    /\ Sites \subseteq TextAddr
    /\ Other \subseteq TextAddr
    /\ Start \in TextAddr
    /\ \A c \in Code : Word(c) \subseteq TextAddr
    /\ (Sites \cup Other \cup {Start}) \cap Entries = {}

\* Two entries that differ are at least a breakpoint apart, and so are two
\* of the instructions at which this model looks at the target.
ASSUME SpacingAssumption ==
    \A c, d \in Code : c = d \/ c + W <= d \/ d + W <= c

ASSUME BoundsAssumption ==
    /\ MaxDepth \in Nat
    /\ MaxEvents \in Nat
    /\ Outside \subseteq {"sig", "trap", "kill"}

VARIABLES
    mpc,      \* where MUT is
    k,        \* its loop index, in Manage or in root
    root,     \* m->actions.root, the list of managed actions
    instr,    \* a->instr, the word a breakpoint replaced
    cur,      \* the action being handled
    retAddr,  \* return_addr of mut_do_action
    retInstr, \* return_instr of mut_do_action
    status,   \* p->status
    ppc,      \* p->pc
    fatal,    \* log->fatal_error
    text,     \* text of the target
    target,   \* scheduling state of the target
    tpc,      \* the instruction the target is at
    eip,      \* its EIP register when it is stopped
    stack,    \* return addresses on its stack, innermost first
    events    \* external events so far

mutVars == <<mpc, k, root, instr, cur, retAddr, retInstr, status, ppc, fatal>>
tgtVars == <<target, tpc, eip, stack>>
vars == <<mpc, k, root, instr, cur, retAddr, retInstr, status, ppc, fatal,
          text, target, tpc, eip, stack, events>>

-----------------------------------------------------------------------------
(* ptrace requests on words of text *)

Peek(t, a) == [i \in 0..(W - 1) |-> t[a + i]]
Poke(t, a, w) == [x \in TextAddr |-> IF x \in Word(a) THEN w[x - a] ELSE t[x]]

\* A request on a process that is not stopped fails, and is logged as fatal.
Requestable == target = "stop"

\* Every path on which mut_run, or mut_open after the process was created,
\* returns 0 closes the process next.
GiveUp(isFatal) ==
    /\ mpc' = "process_close"
    /\ fatal' = (fatal \/ isFatal)

RequestFails ==
    /\ ~Requestable
    /\ GiveUp(TRUE)
    /\ UNCHANGED <<k, root, instr, cur, retAddr, retInstr, status, ppc, text, tgtVars, events>>

\* mut_process_breakpoint: read the word, then overwrite it.
mut_process_breakpoint(a) == text' = Poke(text, a, Bp)

\* mut_process_restore
mut_process_restore(a, w) == text' = Poke(text, a, w)

-----------------------------------------------------------------------------
(* mut_open: mut_manage_actions *)

SameAddr(f) == \E i \in 1..Len(root) : AddrOf[root[i]] = AddrOf[f]

\* Defect: a second action at the same address is entered too.
AliasEntered(f) == f \in Found

\* mut_actions_enter: enter an action whose address no other action has.
NewAction(f) == f \in Found /\ ~SameAddr(f)

ManageAction ==
    /\ mpc = "manage" /\ k <= Len(Manage)
    /\ LET f == Manage[k] IN
       \/ /\ ~NewAction(f)
          /\ k' = k + 1
          /\ UNCHANGED <<mpc, root, instr, cur, retAddr, retInstr, status, ppc, fatal,
                         text, tgtVars, events>>
       \/ /\ NewAction(f) /\ Requestable
          /\ root' = <<f>> \o root
          /\ instr' = [instr EXCEPT ![f] = Peek(text, AddrOf[f])]
          /\ mut_process_breakpoint(AddrOf[f])
          /\ k' = k + 1
          /\ UNCHANGED <<mpc, cur, retAddr, retInstr, status, ppc, fatal, tgtVars, events>>
       \/ /\ NewAction(f)
          /\ RequestFails

ManageDone ==
    /\ mpc = "manage" /\ k > Len(Manage)
    /\ mpc' = "resume"
    /\ UNCHANGED <<k, root, instr, cur, retAddr, retInstr, status, ppc, fatal,
                   text, tgtVars, events>>

-----------------------------------------------------------------------------
(* mut_process_resume and mut_process_wait, from mut_run ("resume", "wait", *)
(* "forward") and from mut_do_action ("act_resume", "act_wait",            *)
(* "act_forward").                                                         *)

InAction == mpc \in {"act_resume", "act_wait", "act_forward", "act_check"}

\* Defect: p->status is not updated.
ResumeKeepsStatus ==
    /\ mpc \in {"resume", "act_resume"} /\ Requestable
    /\ tpc' = ppc /\ eip' = ppc
    /\ target' = "run"
    /\ mpc' = IF InAction THEN "act_wait" ELSE "wait"
    /\ UNCHANGED <<k, root, instr, cur, retAddr, retInstr, status, ppc, fatal, text, stack, events>>

mut_process_resume ==
    /\ mpc \in {"resume", "act_resume"}
    /\ \/ /\ Requestable
          /\ tpc' = ppc /\ eip' = ppc
          /\ target' = "run"
          /\ status' = "running"
          /\ mpc' = IF InAction THEN "act_wait" ELSE "wait"
          /\ UNCHANGED <<k, root, instr, cur, retAddr, retInstr, ppc, fatal, text, stack, events>>
       \/ RequestFails

\* Defect: the adjustment of the architectures that need none.
NoAdjust(pc) == pc

\* waitpid reports a SIGTRAP: EIP is one past the breakpoint instruction.
mut_pc_adjust(pc) == pc - 1

WaitTrap ==
    /\ mpc \in {"wait", "act_wait"} /\ target = "trap"
    /\ status' = "stopped"
    /\ ppc' = mut_pc_adjust(eip)
    /\ target' = "stop"
    /\ mpc' = IF InAction THEN "act_check" ELSE "lookup"
    /\ UNCHANGED <<k, root, instr, cur, retAddr, retInstr, fatal, text, tpc, eip, stack, events>>

\* waitpid reports another signal; p->status stays "running".
WaitSignal ==
    /\ mpc \in {"wait", "act_wait"} /\ target = "sig"
    /\ target' = "stop"
    /\ mpc' = IF InAction THEN "act_forward" ELSE "forward"
    /\ UNCHANGED <<k, root, instr, cur, retAddr, retInstr, status, ppc, fatal,
                   text, tpc, eip, stack, events>>

\* Defect: the loop goes back to waitpid without continuing the target.
SignalSwallowed ==
    /\ mpc \in {"forward", "act_forward"}
    /\ mpc' = IF InAction THEN "act_wait" ELSE "wait"
    /\ UNCHANGED <<k, root, instr, cur, retAddr, retInstr, status, ppc, fatal,
                   text, tgtVars, events>>

\* mut_trace_continue with the signal, which the target may not survive.
ForwardSignal ==
    /\ mpc \in {"forward", "act_forward"}
    /\ \/ /\ Requestable
          /\ target' \in {"run", "dead"}
          /\ mpc' = IF InAction THEN "act_wait" ELSE "wait"
          /\ UNCHANGED <<k, root, instr, cur, retAddr, retInstr, status, ppc, fatal,
                         text, tpc, eip, stack, events>>
       \/ RequestFails

\* Defect: the exit is taken for an unknown event and waited over.
ExitWaitedOver ==
    /\ mpc \in {"wait", "act_wait"} /\ target = "dead" /\ ~SigchldIgnored
    /\ target' = "reaped"
    /\ UNCHANGED <<mutVars, text, tpc, eip, stack, events>>

\* The target exited or was killed: mut_run returns 1, mut_do_action 0.
WaitExit ==
    /\ mpc \in {"wait", "act_wait"} /\ target = "dead" /\ ~SigchldIgnored
    /\ target' = "reaped"
    /\ status' = "exited"
    /\ mpc' = "process_close"
    /\ UNCHANGED <<k, root, instr, cur, retAddr, retInstr, ppc, fatal,
                   text, tpc, eip, stack, events>>

\* Defect: a waitpid that fails is tried again for ever.
WaitRetried ==
    /\ mpc \in {"wait", "act_wait"} /\ target = "dead" /\ SigchldIgnored
    /\ UNCHANGED vars

\* With SIGCHLD ignored there is no child to wait for: waitpid fails.
WaitFails ==
    /\ mpc \in {"wait", "act_wait"} /\ target = "dead" /\ SigchldIgnored
    /\ GiveUp(TRUE)
    /\ UNCHANGED <<k, root, instr, cur, retAddr, retInstr, status, ppc, text, tgtVars, events>>

-----------------------------------------------------------------------------
(* the body of mut_run's loop *)

\* Defect: the loops over the actions start one too early.
LookupOffByOne ==
    /\ mpc = "lookup"
    /\ \E i \in 1..Len(root) : AddrOf[root[i]] = ppc
    /\ mpc' = "remove" /\ k' = 0
    /\ UNCHANGED <<root, instr, cur, retAddr, retInstr, status, ppc, fatal, text, tgtVars, events>>

\* mut_actions_lookup; a trap that is no action's is ignored.
Lookup ==
    /\ mpc = "lookup"
    /\ \/ \E i \in 1..Len(root) :
             /\ AddrOf[root[i]] = ppc
             /\ cur' = root[i]
             /\ mpc' = "remove" /\ k' = 1
             /\ UNCHANGED <<root, instr, retAddr, retInstr, status, ppc, fatal,
                            text, tgtVars, events>>
       \/ /\ \A i \in 1..Len(root) : AddrOf[root[i]] # ppc
          /\ mpc' = "resume"
          /\ UNCHANGED <<k, root, instr, cur, retAddr, retInstr, status, ppc, fatal,
                         text, tgtVars, events>>

mut_remove_action_breakpoints ==
    /\ mpc = "remove"
    /\ \/ /\ k <= Len(root) /\ Requestable
          /\ mut_process_restore(AddrOf[root[k]], instr[root[k]])
          /\ k' = k + 1
          /\ UNCHANGED <<mpc, root, instr, cur, retAddr, retInstr, status, ppc, fatal,
                         tgtVars, events>>
       \/ /\ k <= Len(root)
          /\ RequestFails
       \/ /\ k > Len(root)
          /\ mpc' = "handler"
          /\ UNCHANGED <<k, root, instr, cur, retAddr, retInstr, status, ppc, fatal,
                         text, tgtVars, events>>

mut_install_action_breakpoints ==
    /\ mpc = "install"
    /\ \/ /\ k <= Len(root) /\ Requestable
          /\ instr' = [instr EXCEPT ![root[k]] = Peek(text, AddrOf[root[k]])]
          /\ mut_process_breakpoint(AddrOf[root[k]])
          /\ k' = k + 1
          /\ UNCHANGED <<mpc, root, cur, retAddr, retInstr, status, ppc, fatal, tgtVars, events>>
       \/ /\ k <= Len(root)
          /\ RequestFails
       \/ /\ k > Len(root)
          /\ mpc' = "resume"
          /\ UNCHANGED <<k, root, instr, cur, retAddr, retInstr, status, ppc, fatal,
                         text, tgtVars, events>>

-----------------------------------------------------------------------------
(* a handler: it fails, skips the function, or runs it *)

HandlerFails ==
    /\ mpc \in {"handler", "act_done"}
    /\ \/ /\ \E isFatal \in BOOLEAN : GiveUp(isFatal)
          /\ UNCHANGED <<k, root, instr, cur, retAddr, retInstr, status, ppc,
                         text, tgtVars, events>>
       \/ RequestFails

\* mut_process_skip_to: continue at the return address, popping it.
HandlerSkips ==
    /\ mpc = "handler" /\ Requestable
    /\ cur \in Consumers /\ ~ReallyFree
    /\ ppc' = Head(stack)
    /\ stack' = Tail(stack)
    /\ mpc' = "install" /\ k' = 1
    /\ UNCHANGED <<root, instr, cur, retAddr, retInstr, status, fatal,
                   text, target, tpc, eip, events>>

\* mut_process_function_return_addr, then mut_do_action sets its breakpoint.
HandlerActs ==
    /\ mpc = "handler" /\ Requestable
    /\ retAddr' = Head(stack)
    /\ retInstr' = Peek(text, Head(stack))
    /\ mut_process_breakpoint(Head(stack))
    /\ mpc' = "act_resume"
    /\ UNCHANGED <<k, root, instr, cur, status, ppc, fatal, tgtVars, events>>

\* Defect: the instruction at the return address is not put back.
ReturnNotRestored ==
    /\ mpc = "act_check" /\ ppc = retAddr
    /\ mpc' = "act_done"
    /\ UNCHANGED <<k, root, instr, cur, retAddr, retInstr, status, ppc, fatal,
                   text, tgtVars, events>>

\* mut_do_action: the stop must be the breakpoint it set.
ActionReturns ==
    /\ mpc = "act_check"
    /\ \/ /\ ppc # retAddr
          /\ GiveUp(TRUE)
          /\ UNCHANGED <<k, root, instr, cur, retAddr, retInstr, status, ppc,
                         text, tgtVars, events>>
       \/ /\ ppc = retAddr /\ Requestable
          /\ mut_process_restore(retAddr, retInstr)
          /\ mpc' = "act_done"
          /\ UNCHANGED <<k, root, instr, cur, retAddr, retInstr, status, ppc, fatal,
                         tgtVars, events>>
       \/ /\ ppc = retAddr
          /\ RequestFails

\* Defect: the breakpoints of the actions are not installed again.
NotReinstalled ==
    /\ mpc = "act_done"
    /\ mpc' = "resume" /\ k' = 1
    /\ UNCHANGED <<root, instr, cur, retAddr, retInstr, status, ppc, fatal,
                   text, tgtVars, events>>

HandlerDone ==
    /\ mpc = "act_done"
    /\ mpc' = "install" /\ k' = 1
    /\ UNCHANGED <<root, instr, cur, retAddr, retInstr, status, ppc, fatal,
                   text, tgtVars, events>>

-----------------------------------------------------------------------------
(* mut_process_close, with the two assertions it can run into *)

mut_process_close ==
    /\ mpc = "process_close"
    /\ \/ /\ status = "running"
          /\ mpc' = "abort_running"
          /\ UNCHANGED target
       \/ /\ status = "exited"
          /\ mpc' = "done"
          /\ UNCHANGED target
       \/ /\ status = "stopped" /\ Requestable
          /\ target' = "dead"
          /\ mpc' = "done"
       \/ /\ status = "stopped" /\ ~Requestable
          /\ mpc' = IF fatal THEN "abort_log" ELSE "done"
          /\ UNCHANGED target
    /\ UNCHANGED <<k, root, instr, cur, retAddr, retInstr, status, ppc, fatal,
                   text, tpc, eip, stack, events>>

-----------------------------------------------------------------------------
(* the target, external to MUT *)

Executes == target = "run" /\ text[tpc] = Orig[tpc] /\ Orig[tpc] # Int3

TargetTraps ==
    /\ target = "run" /\ text[tpc] = Int3
    /\ target' = "trap"
    /\ eip' = tpc + 1
    /\ UNCHANGED <<mutVars, text, tpc, stack, events>>

TargetCalls ==
    /\ Executes /\ Len(stack) < MaxDepth
    /\ \E c \in Entries, r \in Sites :
          /\ tpc' = c
          /\ stack' = <<r>> \o stack
    /\ UNCHANGED <<mutVars, text, target, eip, events>>

TargetReturns ==
    /\ Executes /\ stack # <<>>
    /\ tpc' = Head(stack)
    /\ stack' = Tail(stack)
    /\ UNCHANGED <<mutVars, text, target, eip, events>>

TargetGoes ==
    /\ Executes
    /\ tpc' \in Other
    /\ UNCHANGED <<mutVars, text, target, eip, stack, events>>

TargetExits ==
    /\ Executes
    /\ target' = "dead"
    /\ UNCHANGED <<mutVars, text, tpc, eip, stack, events>>

\* The rest of a breakpoint, executed as code, is the end of the target.
TargetDerails ==
    /\ target = "run" /\ text[tpc] \notin {Orig[tpc], Int3}
    /\ target' = "dead"
    /\ UNCHANGED <<mutVars, text, tpc, eip, stack, events>>

\* A signal stops the target between two instructions.  SIGTRAP from
\* outside, or from execve, looks like a breakpoint to waitpid.
Signal(kind) ==
    /\ target = "run" /\ kind \in Outside /\ events < MaxEvents
    /\ target' = kind
    /\ eip' = tpc
    /\ events' = events + 1
    /\ UNCHANGED <<mutVars, text, tpc, stack>>

\* SIGKILL, which reaches a stopped process too.
Killed ==
    /\ target \in {"run", "stop", "trap", "sig"}
    /\ "kill" \in Outside /\ events < MaxEvents
    /\ target' = "dead"
    /\ events' = events + 1
    /\ UNCHANGED <<mutVars, text, tpc, eip, stack>>

-----------------------------------------------------------------------------
Ended == mpc \in {"done", "abort_running", "abort_log"}

\* A word nothing was saved in yet.
NoWord == [i \in 0..(W - 1) |-> Pad]

\* mut_process_open has left the target stopped before its first instruction.
Init ==
    /\ mpc = "manage" /\ k = 1 /\ root = <<>>
    /\ instr = [f \in Fn |-> NoWord]
    /\ cur = Manage[1]
    /\ retAddr = Start /\ retInstr = NoWord
    /\ status = "stopped" /\ ppc = Start /\ fatal = FALSE
    /\ text = Orig
    /\ target = "stop" /\ tpc = Start /\ eip = Start /\ stack = <<>>
    /\ events = 0

MutStep ==
    \/ ManageAction \/ ManageDone
    \/ mut_process_resume
    \/ WaitTrap \/ WaitSignal \/ ForwardSignal \/ WaitExit \/ WaitFails
    \/ Lookup
    \/ mut_remove_action_breakpoints \/ mut_install_action_breakpoints
    \/ HandlerFails \/ HandlerSkips \/ HandlerActs \/ ActionReturns \/ HandlerDone
    \/ mut_process_close

TargetStep ==
    \/ TargetTraps \/ TargetCalls \/ TargetReturns \/ TargetGoes \/ TargetExits \/ TargetDerails
    \/ \E kind \in {"sig", "trap"} : Signal(kind)
    \/ Killed

Finished == Ended /\ UNCHANGED vars

Next == MutStep \/ TargetStep \/ Finished

Spec == Init /\ [][Next]_vars

\* MUT is a sequential loop that blocks only in waitpid, so it takes its next
\* step whenever it has one.  The target owes nothing.
FairSpec == Spec /\ WF_vars(MutStep)

-----------------------------------------------------------------------------
(* What must hold *)

MutPc == {"manage", "resume", "wait", "forward", "lookup", "remove", "handler",
          "act_resume", "act_wait", "act_forward", "act_check", "act_done",
          "install", "process_close", "done", "abort_running", "abort_log"}

\* The values of the variables of the tracer loop and of the target.
TypeOK ==
    /\ mpc \in MutPc
    /\ k \in Nat \ {0}
    /\ root \in Seq(Found)
    /\ instr \in [Fn -> [0..(W - 1) -> Byte]]
    /\ cur \in Fn
    /\ retAddr \in Code
    /\ retInstr \in [0..(W - 1) -> Byte]
    /\ status \in {"running", "stopped", "exited"}
    /\ ppc \in Int
    /\ fatal \in BOOLEAN
    /\ text \in [TextAddr -> Byte]
    /\ target \in {"run", "stop", "trap", "sig", "dead", "reaped"}
    /\ tpc \in Int /\ eip \in Int
    /\ stack \in Seq(Sites)
    /\ events \in 0..MaxEvents

\* The addresses that hold a breakpoint, as MUT's position implies them: all
\* the actions' while the target runs on its own account, none of them while
\* a handler is at work, and the return address while an action runs.
ManagedAddr == {AddrOf[root[i]] : i \in 1..Len(root)}

PlantedAction(i) ==
    \/ mpc \in {"manage", "resume", "wait", "forward", "lookup"}
    \/ mpc = "remove" /\ k <= i
    \/ mpc = "install" /\ i < k

Planted == {AddrOf[root[i]] : i \in {j \in 1..Len(root) : PlantedAction(j)}}
             \cup {a \in {retAddr} : InAction}

Closing == Ended \/ mpc = "process_close"

\* The text t is what was loaded, with a breakpoint at exactly the addresses S.
TextWith(t, S) ==
    \A x \in TextAddr :
        /\ \A a \in S : x \in Word(a) => t[x] = Bp[x - a]
        /\ (\A a \in S : x \notin Word(a)) => t[x] = Orig[x]

\* The text of the target is what was loaded with a breakpoint in exactly the
\* places MUT's position implies; mut_remove_action_breakpoints,
\* mut_do_action and mut_install_action_breakpoints never leave one behind,
\* lose one or put back a word that held part of another.
TextMatchesPhase == ~Closing => TextWith(text, Planted)

\* The target never fetches a byte that MUT damaged: the instruction it is at
\* is its own, or a breakpoint that MUT knows of.
FetchesIntact ==
    target = "run" => \/ text[tpc] = Orig[tpc]
                      \/ text[tpc] = Int3 /\ tpc \in Planted

\* What mut_do_action comments "assuming that the action doesn't (indirectly)
\* call itself or another action" leaves to the loop: a call made while no
\* action runs never gets past the entry of a managed function unseen.
NoMissedCall ==
    [][(mpc = "wait" /\ target = "run" /\ tpc \in ManagedAddr /\ target' = "run")
         => tpc' = tpc]_vars

\* The preconditions mut_process.c asserts: text, registers and arguments are
\* touched only while p->status is stopped, and MUT waits only while it is
\* running.
StatusAsserts ==
    /\ mpc \in {"manage", "resume", "lookup", "remove", "handler", "install",
                "act_resume", "act_check", "act_done"} => status = "stopped"
    /\ mpc \in {"wait", "forward", "act_wait", "act_forward"} => status = "running"

\* mut_process_wait sets pc "to the address of the instruction that the
\* process stopped on" (mut_process.txt).
WaitPcIsInstruction == mpc \in {"lookup", "act_check"} => ppc = tpc

\* mut_process_close asserts that the process is not running.
CloseNotRunning == mpc # "abort_running"

\* mut_log_info asserts that no fatal error has been logged before.
NoLogAfterFatal == mpc # "abort_log"

\* A target that MUT or a signal stopped is set going again, or MUT is done
\* with it: no stop is forgotten in mut_process_wait or mut_do_action.
StopIsHandled == (target \in {"stop", "trap", "sig"}) ~> (target = "run" \/ Ended)

\* MUT outlives no target: once the target is gone, mut_run comes to its end.
ExitEndsRun == (target = "dead") ~> Ended

-----------------------------------------------------------------------------
(* The inductive invariant behind the safety properties, in parts. *)

\* A word saved under a planted breakpoint is the word that was loaded.
SavedIsOriginal ==
    /\ ~Closing => \A i \in 1..Len(root) :
          AddrOf[root[i]] \in Planted => instr[root[i]] = Peek(Orig, AddrOf[root[i]])
    /\ InAction => retInstr = Peek(Orig, retAddr)

\* mut_actions_enter keeps the addresses of the actions distinct.
DistinctActions ==
    \A i, j \in 1..Len(root) : i # j => AddrOf[root[i]] # AddrOf[root[j]]

\* The target moves only while MUT waits for it.
TargetMoves ==
    /\ target \in {"run", "trap", "sig"} => mpc \in {"wait", "act_wait"}
    /\ target = "reaped" => Closing
    /\ target = "trap" => eip = tpc + 1

\* Where the target is, and where MUT will resume it: on an instruction, and
\* at the entry of a function only with a return address on the stack.
OnTrack(pc) == pc \in Code /\ (pc \in Entries => stack # <<>>)

TargetOnTrack ==
    /\ mpc \in {"wait", "forward", "lookup", "remove", "handler", "act_resume",
                "act_wait", "act_forward", "act_check"} => OnTrack(tpc)
    /\ mpc \in {"manage", "resume", "lookup", "remove", "handler", "act_resume",
                "act_check", "act_done", "install"} => OnTrack(ppc)
    /\ mpc \in {"remove", "handler"} => ppc \in Entries
    /\ InAction \/ mpc = "act_done" => retAddr \in Sites

IInv ==
    /\ TypeOK
    /\ TextMatchesPhase
    /\ SavedIsOriginal
    /\ DistinctActions
    /\ StatusAsserts
    /\ WaitPcIsInstruction
    /\ TargetMoves
    /\ TargetOnTrack
=============================================================================
