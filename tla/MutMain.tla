------------------------------- MODULE MutMain -------------------------------
(***************************************************************************)
(* One run of the program, from main of ui/tty/mut_ui.c to its exit: the   *)
(* command line, the log of log/tty/mut_log.c that every component writes  *)
(* to, the opening of the executable and of the process, the loop of       *)
(* mut_run, and the closing of what was opened on each path.  Beside it    *)
(* runs the process mut forks, which has a copy of the log.                *)
(*                                                                         *)
(* What the components do is in their own modules (MutExec, MutProcess,    *)
(* Mut, MutResources); here a call of one logs messages, succeeds or       *)
(* fails.  An argument is [option, letters]; of an argument that is no     *)
(* option, and of the values of -o, -x, -n and -U, only the length counts. *)
(***************************************************************************)
EXTENDS Integers, Sequences

CONSTANTS
    Argvs,          \* the command lines, without argv[0]
    Flags,          \* the letters that set a flag: r f t b c s u z
    Values,         \* the letters that take the rest of the argument: o x n U
    MaxMessages,    \* bound: messages that report on the program
    Faults          \* what can fail: "write", "open", "fork", "request", "wait", "memory"

\* The cases of the switch on a letter are distinct.
ASSUME MainAssumption ==
    /\ Argvs \subseteq Seq([option : BOOLEAN, letters : Seq(STRING)])
    /\ Flags \cap Values = {}
    /\ MaxMessages \in Nat
    /\ Faults \subseteq {"write", "open", "fork", "request", "wait", "memory"}

VARIABLES
    pc,         \* the call main is in, or will make when its message is written
    argv, at,   \* the command line; the argument and the letter main looks at
    info,       \* struct mut_ui_arg_info: the flags, and each value's length or NoValue
    log,        \* struct mut_log
    msg,        \* the message being written: [kind, begun], or NoMessage
    open,       \* what has been opened and not closed
    status,     \* p->status; before mut_process_open, "exited"
    target,     \* the forked process: "none", "child" before execv, "stopped", "running", "dead"
    lost,       \* a message of the child never reached its sink
    trouble,    \* what went wrong with the log, waitpid, a signal passed on, and the kill
    count,      \* messages so far that report on the program
    exit        \* "none", "success", "failure", or "abort" by an assertion

vars == <<pc, argv, at, info, log, msg, open, status, target, lost, trouble, count, exit>>
uiVars == <<argv, at, info>>
processVars == <<status, target, lost>>

NoMessage == [kind |-> "none", begun |-> FALSE]
NoValue == -1
Failing(fault) == fault \in Faults
Running == exit = "none"
Idle == Running /\ msg = NoMessage

-----------------------------------------------------------------------------
(* mut_log.c *)

mut_log_open ==
    [fatal_error |-> FALSE, logging |-> FALSE, internal_error |-> FALSE, sink |-> "stderr"]

\* fclose of the file; its result, and that of mut_log_close, is nowhere used.
mut_log_close(opened) == opened \ {"log"}

Writes == IF Failing("write") THEN BOOLEAN ELSE {FALSE}
Noted(broken) == trouble' = IF broken THEN trouble \cup {"write"} ELSE trouble

\* Every function that begins a message asserts these.
MayBegin(l) == ~l.fatal_error /\ ~l.logging /\ ~l.internal_error

\* mut_log_fatal, mut_log_mem_full, _error, _warning, _info; broken: fprintf < 0.
Begin(l, kind, broken) ==
    [fatal_error |-> l.fatal_error \/ kind \in {"fatal", "mem_full"},
     logging |-> TRUE, internal_error |-> broken, sink |-> l.sink]

Abort == exit' = "abort" /\ UNCHANGED <<log, msg, trouble>>

\* mut_log_mem_full writes the whole message, and no mut_log_end follows it.
LogBegins ==
    /\ Running /\ msg # NoMessage /\ ~msg.begun
    /\ IF MayBegin(log)
       THEN \E broken \in Writes :
                /\ log' = Begin(log, msg.kind, broken)
                /\ Noted(broken)
                /\ msg' = IF msg.kind = "mem_full" THEN NoMessage ELSE [kind |-> msg.kind, begun |-> TRUE]
                /\ exit' = exit
       ELSE Abort
    /\ UNCHANGED <<pc, uiVars, open, processVars, count>>

\* mut_log_string, _int, _uint, _uint64, _uint_hex, _long or _ulong: nothing
\* is written once a write has failed.
LogWrites ==
    /\ Running /\ msg.begun
    /\ IF ~log.logging THEN Abort
       ELSE /\ ~log.internal_error
            /\ \E broken \in Writes :
                   /\ log' = [log EXCEPT !.internal_error = broken]
                   /\ Noted(broken)
            /\ UNCHANGED <<msg, exit>>
    /\ UNCHANGED <<pc, uiVars, open, processVars, count>>

\* Defect: mut_log_end does not close the message.
EndOpen(l, broken) ==
    [fatal_error |-> l.fatal_error, logging |-> l.logging, internal_error |-> broken, sink |-> l.sink]

\* mut_log_end; its result is nowhere used.
End(l, broken) ==
    [fatal_error |-> l.fatal_error, logging |-> FALSE, internal_error |-> broken, sink |-> l.sink]

LogEnds ==
    /\ Running /\ msg.begun
    /\ IF ~log.logging THEN Abort
       ELSE /\ \E broken \in IF log.internal_error THEN {TRUE} ELSE Writes :
                   /\ log' = End(log, broken)
                   /\ Noted(broken)
            /\ msg' = NoMessage
            /\ exit' = exit
    /\ UNCHANGED <<pc, uiVars, open, processVars, count>>

\* The call says so and main goes on at next when the message is written.
Says(kind, next) == msg' = [kind |-> kind, begun |-> FALSE] /\ pc' = next
Goes(next) == msg' = msg /\ pc' = next

-----------------------------------------------------------------------------
(* mut_ui_process_args *)

Letters == argv[at.arg].letters
InOption == Idle /\ pc = "args" /\ at.arg <= Len(argv) /\ argv[at.arg].option

\* args.usage
NoProgram ==
    /\ Idle /\ pc = "args" /\ at.arg > Len(argv)
    /\ Says("fatal", "log_close")
    /\ UNCHANGED uiVars

\* The first argument that is no option is the program.
Program ==
    /\ Idle /\ pc = "args" /\ at.arg <= Len(argv) /\ ~argv[at.arg].option
    /\ Goes("log_file")
    /\ UNCHANGED uiVars

\* The end of the argument: goto options_loop.
NextArgument ==
    /\ InOption /\ at.letter > Len(Letters)
    /\ at' = [arg |-> at.arg + 1, letter |-> 1]
    /\ UNCHANGED <<pc, argv, info, msg>>

Flag ==
    /\ InOption /\ at.letter <= Len(Letters) /\ Letters[at.letter] \in Flags
    /\ info' = [info EXCEPT !.flags = @ \cup {Letters[at.letter]}]
    /\ at' = [at EXCEPT !.letter = @ + 1]
    /\ UNCHANGED <<pc, argv, msg>>

\* Defect: the letters of a value are taken for options too.
ValueGoesOn ==
    /\ InOption /\ at.letter <= Len(Letters) /\ Letters[at.letter] \in Values
    /\ at.letter = 1
    /\ info' = [info EXCEPT !.value[Letters[1]] = Len(Letters) - 1]
    /\ at' = [at EXCEPT !.letter = 2]
    /\ UNCHANGED <<pc, argv, msg>>

\* A value has to be an argument of its own, and ends it.
Value ==
    /\ InOption /\ at.letter <= Len(Letters) /\ Letters[at.letter] \in Values
    /\ at.letter = 1
    /\ info' = [info EXCEPT !.value[Letters[1]] = Len(Letters) - 1]
    /\ at' = [arg |-> at.arg + 1, letter |-> 1]
    /\ UNCHANGED <<pc, argv, msg>>

\* args.opt and args.unknown
BadOption ==
    /\ InOption /\ at.letter <= Len(Letters) /\ Letters[at.letter] \notin Flags
    /\ Letters[at.letter] \in Values => at.letter > 1
    /\ Says("fatal", "log_close")
    /\ UNCHANGED uiVars

ProcessArgs ==
    /\ NoProgram \/ Program \/ NextArgument \/ Flag \/ Value \/ BadOption
    /\ UNCHANGED <<log, open, processVars, trouble, count, exit>>

-----------------------------------------------------------------------------
(* opening *)

\* mut_log_file, when there was a -o
LogFile ==
    /\ Idle /\ pc = "log_file"
    /\ \/ info.value["o"] = NoValue /\ Goes("exec") /\ UNCHANGED <<log, open>>
       \/ /\ info.value["o"] = 0 \/ (info.value["o"] > 0 /\ Failing("open"))
          /\ Says("warning", "exec") /\ UNCHANGED <<log, open>>
       \/ /\ info.value["o"] > 0
          /\ log' = [log EXCEPT !.sink = "file"] /\ open' = open \cup {"log"}
          /\ Goes("exec")
    /\ UNCHANGED <<uiVars, processVars, trouble, count, exit>>

\* mut_exec_open; a file of another class gets a warning only.
ExecOpen ==
    /\ Idle /\ pc = "exec"
    /\ \/ open' = open \cup {"exec"} /\ Goes("process") /\ count' = count
       \/ /\ count < MaxMessages /\ count' = count + 1
          /\ Says("warning", "exec") /\ open' = open
       \/ /\ Failing("open") /\ \E kind \in {"fatal", "warning"} : Says(kind, "log_close")
          /\ UNCHANGED <<open, count>>
       \/ /\ Failing("memory") /\ Says("mem_full", "log_close")
          /\ UNCHANGED <<open, count>>
    /\ UNCHANGED <<uiVars, log, processVars, trouble, exit>>

\* mut_process_open up to waitpid
Fork ==
    /\ Idle /\ pc = "process"
    /\ \/ Failing("fork") /\ Says("fatal", "exec_close") /\ UNCHANGED <<status, target>>
       \/ target' = "child" /\ status' = "running" /\ Goes("process_wait")
    /\ UNCHANGED <<uiVars, log, open, lost, trouble, count, exit>>

\* waitpid in mut_process_open
ProcessWait ==
    /\ Idle /\ pc = "process_wait"
    /\ \/ target = "stopped" /\ status' = "stopped" /\ Goes("read_pc") /\ trouble' = trouble
       \/ /\ target = "dead" /\ status' \in {"exited", "running"}
          /\ Says("fatal", "exec_close") /\ trouble' = trouble
       \/ /\ Failing("wait") /\ trouble' = trouble \cup {"wait"} /\ status' = status
          /\ Says("fatal", "exec_close")
    /\ UNCHANGED <<uiVars, log, open, target, lost, count, exit>>

\* mut_process_read_pc, which reads a register and so fails only with the target.
ReadPc ==
    /\ Idle /\ pc = "read_pc"
    /\ \/ target = "stopped" /\ Goes("backtrace")
       \/ target = "dead" /\ Says("fatal", "exec_close")
    /\ UNCHANGED <<uiVars, log, open, processVars, trouble, count, exit>>

\* Whether backtraces can be had.
Backtrace ==
    /\ Idle /\ pc = "backtrace"
    /\ \/ Goes("manage") /\ UNCHANGED uiVars
       \/ /\ "b" \in info.flags /\ info' = [info EXCEPT !.flags = @ \ {"b"}]
          /\ Says("info", "manage")
          /\ UNCHANGED <<argv, at>>
    /\ UNCHANGED <<log, open, processVars, trouble, count, exit>>

\* mut_manage_actions, and at its end mut_resources_open
Manage ==
    /\ Idle /\ pc = "manage"
    /\ \/ open' = open \cup {"resources"} /\ Goes("resume") /\ count' = count
       \/ /\ count < MaxMessages /\ count' = count + 1
          /\ Says("info", "manage") /\ open' = open
       \/ /\ target = "dead" \/ Failing("request")
          /\ Says("fatal", "manage_failed") /\ UNCHANGED <<open, count>>
    /\ UNCHANGED <<uiVars, log, processVars, trouble, exit>>

-----------------------------------------------------------------------------
(* mut_run: the target stops, a handler may run it on to the end of the     *)
(* function it stopped in (mut_do_action)                                   *)

InAction == pc \in {"act_resume", "act_wait", "act_forward"}

Resume ==
    /\ Idle /\ pc \in {"resume", "act_resume"}
    /\ \/ /\ target = "stopped" /\ target' = "running" /\ status' = "running"
          /\ Goes(IF InAction THEN "act_wait" ELSE "wait")
       \/ /\ target = "dead" \/ Failing("request")
          /\ Says("fatal", "close_on_error") /\ UNCHANGED <<target, status>>
    /\ UNCHANGED <<uiVars, log, open, lost, trouble, count, exit>>

\* mut_process_wait.  p->status is changed at a breakpoint and at the exit
\* only: it stays running when waitpid fails, at any other signal, and after a
\* status that is none of these ("process.unknown"), which waitpid has no
\* reason to report and which counts as a fault of it.
Wait ==
    /\ Idle /\ pc \in {"wait", "act_wait"}
    /\ \/ target = "stopped" /\ status' = "stopped" /\ Goes("handler") /\ trouble' = trouble
       \/ /\ target = "stopped" /\ status' = status /\ trouble' = trouble
          /\ \/ Goes(IF InAction THEN "act_forward" ELSE "forward")
             \/ Failing("wait") /\ Says("info", IF InAction THEN "act_forward" ELSE "forward")
       \/ /\ target = "dead" /\ status' = "exited" /\ trouble' = trouble
          /\ Says("info", IF InAction THEN "close_on_error" ELSE "leaks")
       \/ /\ Failing("wait") /\ trouble' = trouble \cup {"wait"} /\ status' = status
          /\ Says("fatal", "close_on_error")
    /\ UNCHANGED <<uiVars, log, open, target, lost, count, exit>>

\* mut_trace_continue with the signal, or with none after an unknown status;
\* then goto loop.  mut_process_wait returns 0 if it fails.
ForwardSignal ==
    /\ Idle /\ pc \in {"forward", "act_forward"}
    /\ \/ /\ target = "stopped" /\ target' = "running" /\ trouble' = trouble
          /\ Goes(IF InAction THEN "act_wait" ELSE "wait")
       \/ /\ target = "dead" \/ Failing("request")
          /\ trouble' = trouble \cup {"forward"} /\ target' = target
          /\ Says("fatal", "close_on_error")
    /\ UNCHANGED <<uiVars, log, open, status, lost, count, exit>>

\* What a handler can do: go back to the loop, run the target's function,
\* report, or fail: at a request, for want of memory, or (RR0) after a warning.
Handler ==
    /\ Idle /\ pc = "handler"
    /\ \/ Goes("resume") /\ count' = count
       \/ Goes("act_resume") /\ count' = count
       \/ /\ count < MaxMessages /\ count' = count + 1
          /\ \/ \E kind \in {"info", "warning", "error"} : Says(kind, "handler")
             \/ Says("warning", "close_on_error")
       \/ /\ target = "dead" \/ Failing("request")
          /\ Says("fatal", "close_on_error") /\ count' = count
       \/ Failing("memory") /\ Says("mem_full", "close_on_error") /\ count' = count
    /\ UNCHANGED <<uiVars, log, open, processVars, trouble, exit>>

-----------------------------------------------------------------------------
(* closing *)

\* mut_log_leaks, then mut_log_stats
Leaks ==
    /\ Idle /\ pc = "leaks"
    /\ \/ count < MaxMessages /\ count' = count + 1 /\ Says("error", "leaks")
       \/ count' = count /\ Goes("stats")
    /\ UNCHANGED <<uiVars, log, open, processVars, trouble, exit>>

Stats ==
    /\ Idle /\ pc = "stats"
    /\ IF "s" \in info.flags THEN Says("info", "close") ELSE Goes("close")
    /\ UNCHANGED <<uiVars, log, open, processVars, trouble, count, exit>>

\* Defect: could_not_run goes on into the end of a successful run.
AfterProcessSucceeds == "exec_close_ok"

\* Where the two labels of main lead to: the target exited, or mut gave up.
AfterProcess == IF pc = "close" THEN "exec_close_ok" ELSE "exec_close"

\* Defect: mut_close_on_error leaves the target.
CloseLeavesTarget ==
    /\ Idle /\ pc \in {"close", "close_on_error", "manage_failed"}
    /\ open' = open \ {"resources"} /\ Goes(AfterProcess)
    /\ UNCHANGED <<uiVars, log, processVars, trouble, count, exit>>

\* It asserts that the process is not running, and kills it unless it exited;
\* PT_KILL fails when something else has killed the target.
mut_process_close(next) ==
    IF status = "running" THEN Abort /\ UNCHANGED <<pc, target>>
    ELSE /\ \/ status = "exited" /\ Goes(next) /\ UNCHANGED <<target, trouble>>
            \/ /\ status = "stopped" /\ target # "dead" /\ target' = "dead"
               /\ Goes(next) /\ trouble' = trouble
            \/ /\ status = "stopped" /\ target = "dead" /\ trouble' = trouble \cup {"kill"}
               /\ Says("info", next) /\ target' = target
         /\ UNCHANGED <<log, exit>>

\* mut_close, mut_close_on_error and could_not_manage, in which the resources
\* are not open yet.
Close ==
    /\ Idle /\ pc \in {"close", "close_on_error", "manage_failed"}
    /\ open' = open \ {"resources"}
    /\ mut_process_close(AfterProcess)
    /\ UNCHANGED <<uiVars, status, lost, count>>

ExecClose ==
    /\ Idle /\ pc \in {"exec_close", "exec_close_ok"}
    /\ open' = open \ {"exec"}
    /\ Goes(IF pc = "exec_close" THEN "log_close" ELSE "log_close_ok")
    /\ UNCHANGED <<uiVars, log, processVars, trouble, count, exit>>

\* mut_log_close, mut_mem_close, and main returns.
MainReturns ==
    /\ Idle /\ pc \in {"log_close", "log_close_ok"}
    /\ open' = mut_log_close(open) \ {"mem"}
    /\ exit' = IF pc = "log_close" THEN "failure" ELSE "success"
    /\ UNCHANGED <<pc, uiVars, log, msg, processVars, trouble, count>>

-----------------------------------------------------------------------------
(* the forked process *)

\* execv worked: the target stops before its first instruction.
ChildStops == target = "child" /\ target' = "stopped" /\ lost' = lost

\* ptrace(PT_TRACE_ME) or execv failed.  The message goes to the child's copy
\* of the log, and _exit does not write out what a FILE holds; stderr has no
\* buffer.  After a write error the message aborts the child.
ChildFails ==
    /\ target = "child" /\ Failing("open")
    /\ target' = "dead"
    /\ lost' = (lost \/ log.sink = "file" \/ ~MayBegin(log))

TargetStops == target = "running" /\ target' = "stopped" /\ lost' = lost

\* It exits, or something kills it.
TargetDies ==
    /\ target \in {"child", "running", "stopped"}
    /\ target' = "dead" /\ lost' = lost

Target ==
    /\ Running
    /\ ChildStops \/ ChildFails \/ TargetStops \/ TargetDies
    /\ UNCHANGED <<pc, uiVars, log, msg, open, status, trouble, count, exit>>

-----------------------------------------------------------------------------
Init ==
    /\ argv \in Argvs /\ at = [arg |-> 1, letter |-> 1]
    /\ info = [flags |-> {}, value |-> [v \in Values |-> NoValue]]
    /\ log = mut_log_open
    /\ msg = NoMessage /\ pc = "args" /\ open = {"mem"}
    /\ status = "exited" /\ target = "none" /\ lost = FALSE
    /\ trouble = {} /\ count = 0 /\ exit = "none"

Main ==
    \/ LogBegins \/ LogWrites \/ LogEnds
    \/ ProcessArgs \/ LogFile \/ ExecOpen \/ Fork \/ ProcessWait \/ ReadPc \/ Backtrace \/ Manage
    \/ Resume \/ Wait \/ ForwardSignal \/ Handler
    \/ Leaks \/ Stats \/ Close \/ ExecClose \/ MainReturns

Next == Main \/ Target

Spec == Init /\ [][Next]_vars

-----------------------------------------------------------------------------
\* Type correctness.
TypeOK ==
    /\ argv \in Argvs /\ at.arg \in 1..(Len(argv) + 1)
    /\ info.flags \subseteq Flags /\ DOMAIN info.value = Values
    /\ log \in [fatal_error : BOOLEAN, logging : BOOLEAN, internal_error : BOOLEAN,
                sink : {"stderr", "file"}]
    /\ msg.begun \in BOOLEAN
    /\ msg.kind \in {"none", "fatal", "mem_full", "error", "warning", "info"}
    /\ open \subseteq {"mem", "log", "exec", "resources"}
    /\ status \in {"running", "stopped", "exited"}
    /\ target \in {"none", "child", "stopped", "running", "dead"}
    /\ trouble \subseteq {"write", "wait", "forward", "kill"}
    /\ exit \in {"none", "success", "failure", "abort"}

\* mut.1:143, "The exit status is non-zero if there are any fatal errors",
\* whoever met them: a component, the child before execv, or main itself.
FatalMeansFailure ==
    exit = "success" => ~log.fatal_error /\ ~lost /\ status = "exited" /\ target = "dead"

\* The assertions of mut_log.c and of mut_process_close: two messages are never
\* begun one inside the other and none after a fatal one, and the process that
\* is closed does not run, on any path, unless a write fails, waitpid does, a
\* signal cannot be passed on, or the target cannot be killed for it is dead.
AbortsExplained ==
    exit = "abort" =>
        \/ "write" \in trouble /\ log.internal_error
        \/ status = "running" /\ ("wait" \in trouble \/ "forward" \in trouble)
        \/ "kill" \in trouble /\ log.fatal_error

\* Every path through the labels of main and mut_open closes what it opened,
\* and leaves no process behind: mut_process_open does not kill the one it
\* forked when it fails, which is right only if it is dead by then.
EverythingClosed ==
    exit \in {"success", "failure"} =>
        /\ open = {}
        /\ target \in {"none", "dead"} \/ "wait" \in trouble

\* What a command line means: every argument before the first that is no
\* option is a list of flags or one value, of which the last one counts.
IsValue(a) == a.letters # <<>> /\ a.letters[1] \in Values
FirstProgram(av) == {k \in 1..Len(av) : ~av[k].option /\ \A i \in 1..(k - 1) : av[i].option}
WellFormed(av) ==
    \E k \in FirstProgram(av) :
        \A i \in 1..(k - 1) :
            IsValue(av[i]) \/ \A j \in 1..Len(av[i].letters) : av[i].letters[j] \in Flags
FlagsOf(av, n) ==
    UNION {{av[i].letters[j] : j \in 1..Len(av[i].letters)} : i \in {h \in 1..n : ~IsValue(av[h])}}
ValueOf(av, n, v) ==
    LET given == {i \in 1..n : IsValue(av[i]) /\ av[i].letters[1] = v}
    IN  IF given = {} THEN {NoValue}
        ELSE {Len(av[i].letters) - 1 : i \in {h \in given : \A g \in given : g <= h}}

\* mut_ui_process_args finds the program exactly in well-formed command lines
\* and takes from them what they mean (mut.1).
ArgsAsGiven ==
    /\ pc # "args" =>
           (WellFormed(argv) <=> at.arg <= Len(argv) /\ ~argv[at.arg].option)
    /\ pc = "log_file" =>
           /\ info.flags = FlagsOf(argv, at.arg - 1)
           /\ \A v \in Values : info.value[v] \in ValueOf(argv, at.arg - 1, v)

\* mut.1:59: -o directs "all output messages to file", also the fatal one of
\* the child that could not execute the program.
ChildHeard == ~lost

\* The assertions at the beginning of every message hold (mut_log.c:33).
NoAssertionFails == exit # "abort"
=============================================================================
