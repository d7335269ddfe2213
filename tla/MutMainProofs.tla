---------------------------- MODULE MutMainProofs ----------------------------
(***************************************************************************)
(* That a run of the program shows a fatal error in its exit status, ends  *)
(* in an assertion for four causes only, closes what it opened, and does   *)
(* what its command line says: for every command line, number of messages  *)
(* and set of faults.                                                      *)
(***************************************************************************)
EXTENDS MutMain, TLAPS

Steps ==
    {"args", "log_file", "exec", "process", "process_wait", "read_pc", "backtrace", "manage",
     "resume", "act_resume", "wait", "act_wait", "forward", "act_forward", "handler",
     "leaks", "stats", "close", "close_on_error", "manage_failed", "exec_close", "exec_close_ok",
     "log_close", "log_close_ok"}

\* In mut_process_wait.
Waiting == {"wait", "act_wait", "forward", "act_forward"}

\* Why a process that is given up may still be running for p->status.
LeftRunning == status = "running" /\ ("wait" \in trouble \/ "forward" \in trouble)

\* The paths of main that end in EXIT_FAILURE, and those that end well.
GivenUp == {"manage_failed", "close_on_error", "exec_close", "log_close"}
EndsWell == {"leaks", "stats", "close", "exec_close_ok", "log_close_ok"}

\* What a log and a message can be.
Kinds == {"none", "fatal", "mem_full", "error", "warning", "info"}
Messages == [kind : Kinds, begun : BOOLEAN]
Logs == [fatal_error : BOOLEAN, logging : BOOLEAN, internal_error : BOOLEAN,
         sink : {"stderr", "file"}]

Types ==
    /\ pc \in Steps
    /\ log \in Logs /\ msg \in Messages
    /\ lost \in BOOLEAN
    /\ status \in {"running", "stopped", "exited"}
    /\ target \in {"none", "child", "stopped", "running", "dead"}
    /\ exit \in {"none", "success", "failure", "abort"}

\* The log: a message is open while it is written or when memory ran out, and
\* nothing is said on the way out but that the target could not be killed.
LogInv ==
    /\ log.internal_error => "write" \in trouble
    /\ msg.begun => log.logging
    /\ log.logging => msg.begun \/ log.fatal_error
    /\ log.fatal_error \/ msg.kind \in {"fatal", "mem_full"} => pc \in GivenUp
    /\ log.fatal_error => msg = NoMessage \/ msg.begun \/ "kill" \in trouble

\* p->status and the process, by the place of main.
ProcessInv ==
    /\ pc \in {"args", "log_file", "exec", "process"} => target = "none"
    /\ pc \in {"read_pc", "backtrace", "manage", "manage_failed", "resume", "act_resume", "handler"}
           => status = "stopped"
    /\ pc \in Waiting \cup {"process_wait"} => status = "running"
    /\ pc \in EndsWell => status = "exited" /\ target = "dead"
    /\ pc = "close_on_error" =>
           /\ status = "running" => LeftRunning
           /\ status = "exited" => target = "dead"
    /\ pc \in {"exec_close", "log_close"} => target \in {"none", "dead"} \/ "wait" \in trouble
    /\ target = "child" \/ lost => pc \in {"process_wait", "exec_close", "log_close"}
    /\ lost => target = "dead"

\* What is open, by the place of main.
OpenInv ==
    /\ open \subseteq {"mem", "log", "exec", "resources"}
    /\ "exec" \in open =>
           pc \notin {"args", "log_file", "exec", "log_close", "log_close_ok"}
    /\ "resources" \in open =>
           pc \in Waiting \cup {"resume", "act_resume", "handler", "leaks", "stats", "close",
                              "close_on_error"}

\* main has returned from one of its two ends.
ExitInv ==
    /\ exit = "success" => pc = "log_close_ok"
    /\ exit = "failure" => pc = "log_close"
    /\ exit \in {"success", "failure"} => open = {}

IInv == Types /\ LogInv /\ ProcessInv /\ OpenInv /\ ExitInv /\ AbortsExplained

USE DEF Waiting, LeftRunning

-----------------------------------------------------------------------------
(* records of the log *)

\* A message, and what Says and Goes make of msg.
LEMMA MessageFields ==
    ASSUME NEW k \in Kinds, NEW b \in BOOLEAN, NEW m, m = [kind |-> k, begun |-> b]
    PROVE  m \in Messages /\ m.kind = k /\ m.begun = b
  BY SMT DEF Messages

\* The log after mut_log_fatal, a sibling of it, or mut_log_end.
LEMMA LogRecord ==
    ASSUME NEW f \in BOOLEAN, NEW g \in BOOLEAN, NEW b \in BOOLEAN, NEW t \in {"stderr", "file"},
           NEW n, n = [fatal_error |-> f, logging |-> g, internal_error |-> b, sink |-> t]
    PROVE  n \in Logs /\ n.fatal_error = f /\ n.logging = g /\ n.internal_error = b
  BY SMT DEF Logs

\* Records with three fields of one type, for any type: the provers do not
\* update a Boolean field.
LEMMA UpdateFields ==
    ASSUME NEW B, NEW S, NEW l \in [fatal_error : B, logging : B, internal_error : B, sink : S],
           NEW b \in B, NEW t \in S
    PROVE  /\ \A n : n = [l EXCEPT !.internal_error = b] =>
                  /\ n \in [fatal_error : B, logging : B, internal_error : B, sink : S]
                  /\ n.fatal_error = l.fatal_error /\ n.logging = l.logging /\ n.internal_error = b
           /\ \A n : n = [l EXCEPT !.sink = t] =>
                  /\ n \in [fatal_error : B, logging : B, internal_error : B, sink : S]
                  /\ n.fatal_error = l.fatal_error /\ n.logging = l.logging
                  /\ n.internal_error = l.internal_error
  BY SMT

\* mut_log_string and its siblings, and mut_log_file
LEMMA LogFields ==
    ASSUME NEW l \in Logs, NEW b \in BOOLEAN
    PROVE  /\ \A n : n = [l EXCEPT !.internal_error = b] =>
                  /\ n \in Logs
                  /\ n.fatal_error = l.fatal_error /\ n.logging = l.logging /\ n.internal_error = b
           /\ \A n : n = [l EXCEPT !.sink = "file"] =>
                  /\ n \in Logs
                  /\ n.fatal_error = l.fatal_error /\ n.logging = l.logging
                  /\ n.internal_error = l.internal_error
<1>1. "file" \in {"stderr", "file"}
  OBVIOUS
<1> QED
  BY <1>1, UpdateFields, Zenon DEF Logs

\* The step says something.
LEMMA Speaks ==
    ASSUME NEW k \in Kinds, NEW next, Says(k, next)
    PROVE  pc' = next /\ msg' \in Messages /\ msg'.begun = FALSE /\ msg'.kind = k
<1>1. FALSE \in BOOLEAN
  OBVIOUS
<1> QED
  BY <1>1, MessageFields DEF Says

\* It goes on without.
LEMMA Silent ==
    ASSUME NEW next, Idle, Goes(next)
    PROVE  /\ pc' = next /\ msg' = NoMessage
           /\ msg' \in Messages /\ msg'.begun = FALSE /\ msg'.kind = "none"
<1>1. "none" \in Kinds /\ FALSE \in BOOLEAN
  BY DEF Kinds
<1>2. msg' = NoMessage /\ pc' = next
  BY DEF Goes, Idle
<1> QED
  BY <1>1, <1>2, MessageFields DEF NoMessage

\* Outside the paths of failure, a step that leaves the log alone and may say
\* something keeps LogInv, if a fatal error leads to those paths.
LEMMA SpeaksLog ==
    ASSUME Types, LogInv, Idle, log' = log, trouble \subseteq trouble', pc \notin GivenUp,
           NEW k \in Kinds, NEW next, Says(k, next),
           k \in {"fatal", "mem_full"} => next \in GivenUp
    PROVE  LogInv' /\ msg' \in Messages /\ pc' = next
<1>1. pc' = next /\ msg' \in Messages /\ msg'.begun = FALSE /\ msg'.kind = k
  BY Speaks
<1>2. log.fatal_error = FALSE /\ log.logging = FALSE
  BY MessageFields DEF Types, LogInv, Logs, Idle, NoMessage
<1> QED
  BY <1>1, <1>2 DEF LogInv

\* The same for a step that says nothing.
LEMMA SilentLog ==
    ASSUME Types, LogInv, Idle, log' = log, trouble \subseteq trouble', pc \notin GivenUp,
           NEW next, Goes(next)
    PROVE  LogInv' /\ msg' \in Messages /\ pc' = next
<1>1. pc' = next /\ msg' \in Messages /\ msg'.begun = FALSE /\ msg'.kind = "none"
  BY Silent
<1>2. log.fatal_error = FALSE /\ log.logging = FALSE
  BY MessageFields DEF Types, LogInv, Logs, Idle, NoMessage
<1> QED
  BY <1>1, <1>2 DEF LogInv

\* From the executable to mut_run: what is opened, and the child.
LEMMA OpeningKeeps == IInv /\ (ExecOpen \/ Fork \/ ProcessWait \/ ReadPc \/ Backtrace \/ Manage) => IInv'
<1> SUFFICES ASSUME IInv, ExecOpen \/ Fork \/ ProcessWait \/ ReadPc \/ Backtrace \/ Manage PROVE IInv'
  OBVIOUS
<1>1. CASE ExecOpen
  <2> USE <1>1 DEF ExecOpen
  <2>1. Idle /\ pc \notin GivenUp /\ log' = log /\ trouble \subseteq trouble' /\ exit' = exit
    BY DEF GivenUp
  <2>2. LogInv' /\ msg' \in Messages /\ pc' \in Steps
    BY <2>1, SpeaksLog, SilentLog DEF IInv, Steps, GivenUp, Kinds
  <2>3. Types' /\ ProcessInv'
    BY <2>1, <2>2 DEF IInv, Types, ProcessInv, Steps, EndsWell, Says, Goes, processVars
  <2>4. OpenInv' /\ ExitInv' /\ AbortsExplained'
    BY <2>1 DEF IInv, OpenInv, ExitInv, AbortsExplained, Says, Goes, Idle, Running
  <2> QED
    BY <2>2, <2>3, <2>4 DEF IInv
<1>2. CASE Fork
  <2> USE <1>2 DEF Fork
  <2>1. Idle /\ pc \notin GivenUp /\ log' = log /\ trouble \subseteq trouble' /\ exit' = exit
    BY DEF GivenUp
  <2>2. LogInv' /\ msg' \in Messages /\ pc' \in Steps
    BY <2>1, SpeaksLog, SilentLog DEF IInv, Steps, GivenUp, Kinds
  <2>3. Types' /\ ProcessInv'
    BY <2>1, <2>2 DEF IInv, Types, ProcessInv, Steps, EndsWell, Says, Goes, processVars
  <2>4. OpenInv' /\ ExitInv' /\ AbortsExplained'
    BY <2>1 DEF IInv, OpenInv, ExitInv, AbortsExplained, Says, Goes, Idle, Running
  <2> QED
    BY <2>2, <2>3, <2>4 DEF IInv
<1>3. CASE ProcessWait
  <2> USE <1>3 DEF ProcessWait
  <2>1. Idle /\ pc \notin GivenUp /\ log' = log /\ trouble \subseteq trouble' /\ exit' = exit
    BY DEF GivenUp
  <2>2. LogInv' /\ msg' \in Messages /\ pc' \in Steps
    BY <2>1, SpeaksLog, SilentLog DEF IInv, Steps, GivenUp, Kinds
  <2>3. Types' /\ ProcessInv'
    BY <2>1, <2>2 DEF IInv, Types, ProcessInv, Steps, EndsWell, Says, Goes, processVars
  <2>4. OpenInv' /\ ExitInv' /\ AbortsExplained'
    BY <2>1 DEF IInv, OpenInv, ExitInv, AbortsExplained, Says, Goes, Idle, Running
  <2> QED
    BY <2>2, <2>3, <2>4 DEF IInv
<1>4. CASE ReadPc
  <2> USE <1>4 DEF ReadPc
  <2>1. Idle /\ pc \notin GivenUp /\ log' = log /\ trouble \subseteq trouble' /\ exit' = exit
    BY DEF GivenUp
  <2>2. LogInv' /\ msg' \in Messages /\ pc' \in Steps
    BY <2>1, SpeaksLog, SilentLog DEF IInv, Steps, GivenUp, Kinds
  <2>3. Types' /\ ProcessInv'
    BY <2>1, <2>2 DEF IInv, Types, ProcessInv, Steps, EndsWell, Says, Goes, processVars
  <2>4. OpenInv' /\ ExitInv' /\ AbortsExplained'
    BY <2>1 DEF IInv, OpenInv, ExitInv, AbortsExplained, Says, Goes, Idle, Running
  <2> QED
    BY <2>2, <2>3, <2>4 DEF IInv
<1>5. CASE Backtrace
  <2> USE <1>5 DEF Backtrace
  <2>1. Idle /\ pc \notin GivenUp /\ log' = log /\ trouble \subseteq trouble' /\ exit' = exit
    BY DEF GivenUp
  <2>2. LogInv' /\ msg' \in Messages /\ pc' \in Steps
    BY <2>1, SpeaksLog, SilentLog DEF IInv, Steps, GivenUp, Kinds
  <2>3. Types' /\ ProcessInv'
    BY <2>1, <2>2 DEF IInv, Types, ProcessInv, Steps, EndsWell, Says, Goes, processVars
  <2>4. OpenInv' /\ ExitInv' /\ AbortsExplained'
    BY <2>1 DEF IInv, OpenInv, ExitInv, AbortsExplained, Says, Goes, Idle, Running
  <2> QED
    BY <2>2, <2>3, <2>4 DEF IInv
<1>6. CASE Manage
  <2> USE <1>6 DEF Manage
  <2>1. Idle /\ pc \notin GivenUp /\ log' = log /\ trouble \subseteq trouble' /\ exit' = exit
    BY DEF GivenUp
  <2>2. LogInv' /\ msg' \in Messages /\ pc' \in Steps
    BY <2>1, SpeaksLog, SilentLog DEF IInv, Steps, GivenUp, Kinds
  <2>3. Types' /\ ProcessInv'
    BY <2>1, <2>2 DEF IInv, Types, ProcessInv, Steps, EndsWell, Says, Goes, processVars
  <2>4. OpenInv' /\ ExitInv' /\ AbortsExplained'
    BY <2>1 DEF IInv, OpenInv, ExitInv, AbortsExplained, Says, Goes, Idle, Running
  <2> QED
    BY <2>2, <2>3, <2>4 DEF IInv
<1> QED
  BY <1>1, <1>2, <1>3, <1>4, <1>5, <1>6

\* The loop of mut_run, its handlers, and the report at its end.
LEMMA RunKeeps == IInv /\ (Resume \/ Wait \/ ForwardSignal \/ Handler \/ Leaks \/ Stats) => IInv'
<1> SUFFICES ASSUME IInv, Resume \/ Wait \/ ForwardSignal \/ Handler \/ Leaks \/ Stats PROVE IInv'
  OBVIOUS
<1>1. CASE Resume
  <2> USE <1>1 DEF Resume, InAction
  <2>1. Idle /\ pc \notin GivenUp /\ log' = log /\ trouble \subseteq trouble' /\ exit' = exit
    BY DEF GivenUp
  <2>2. LogInv' /\ msg' \in Messages /\ pc' \in Steps
    BY <2>1, SpeaksLog, SilentLog DEF IInv, Steps, GivenUp, Kinds
  <2>3. Types' /\ ProcessInv'
    BY <2>1, <2>2 DEF IInv, Types, ProcessInv, Steps, EndsWell, Says, Goes, processVars
  <2>4. OpenInv' /\ ExitInv' /\ AbortsExplained'
    BY <2>1 DEF IInv, OpenInv, ExitInv, AbortsExplained, Says, Goes, Idle, Running
  <2> QED
    BY <2>2, <2>3, <2>4 DEF IInv
<1>2. CASE Wait
  <2> USE <1>2 DEF Wait, InAction
  <2>1. Idle /\ pc \notin GivenUp /\ log' = log /\ trouble \subseteq trouble' /\ exit' = exit
    BY DEF GivenUp
  <2>2. LogInv' /\ msg' \in Messages /\ pc' \in Steps
    BY <2>1, SpeaksLog, SilentLog DEF IInv, Steps, GivenUp, Kinds
  <2>3. /\ target' = target /\ lost' = lost /\ pc \in {"wait", "act_wait"}
        /\ \/ target = "stopped" /\ status' = "stopped" /\ pc' = "handler"
           \/ target = "dead" /\ status' = "exited" /\ pc' \in {"close_on_error", "leaks"}
           \/ status' = status /\ "wait" \in trouble' /\ pc' = "close_on_error"
           \/ status' = status /\ pc' \in {"forward", "act_forward"}
    BY DEF Says, Goes
  <2>4. Types'
    BY <2>1, <2>2, <2>3 DEF IInv, Types
  <2>5. ProcessInv'
    <3>1. lost = FALSE /\ target # "child" /\ status = "running"
      BY <2>3 DEF IInv, Types, ProcessInv
    <3> QED
      BY <2>1, <2>3, <3>1 DEF IInv, ProcessInv, EndsWell
  <2>6. OpenInv' /\ ExitInv' /\ AbortsExplained'
    BY <2>1 DEF IInv, OpenInv, ExitInv, AbortsExplained, Says, Goes, Idle, Running
  <2> QED
    BY <2>2, <2>4, <2>5, <2>6 DEF IInv
<1>3. CASE ForwardSignal
  <2> USE <1>3 DEF ForwardSignal, InAction
  <2>1. Idle /\ pc \notin GivenUp /\ log' = log /\ trouble \subseteq trouble' /\ exit' = exit
    BY DEF GivenUp
  <2>2. LogInv' /\ msg' \in Messages /\ pc' \in Steps
    BY <2>1, SpeaksLog, SilentLog DEF IInv, Steps, GivenUp, Kinds
  <2>3. /\ pc \in {"forward", "act_forward"} /\ status' = status /\ lost' = lost
        /\ \/ target = "stopped" /\ target' = "running" /\ pc' \in {"wait", "act_wait"}
           \/ target' = target /\ "forward" \in trouble' /\ pc' = "close_on_error"
    BY DEF Says, Goes
  <2>4. Types'
    BY <2>1, <2>2, <2>3 DEF IInv, Types
  <2>5. ProcessInv'
    <3>1. lost = FALSE /\ target # "child" /\ status = "running"
      BY <2>3 DEF IInv, Types, ProcessInv
    <3> QED
      BY <2>1, <2>3, <3>1 DEF IInv, ProcessInv, EndsWell
  <2>6. OpenInv' /\ ExitInv' /\ AbortsExplained'
    BY <2>1 DEF IInv, OpenInv, ExitInv, AbortsExplained, Says, Goes, Idle, Running
  <2> QED
    BY <2>2, <2>4, <2>5, <2>6 DEF IInv
<1>4. CASE Handler
  <2> USE <1>4 DEF Handler
  <2>1. Idle /\ pc \notin GivenUp /\ log' = log /\ trouble \subseteq trouble' /\ exit' = exit
    BY DEF GivenUp
  <2>2. LogInv' /\ msg' \in Messages /\ pc' \in Steps
    BY <2>1, SpeaksLog, SilentLog DEF IInv, Steps, GivenUp, Kinds
  <2>3. Types' /\ ProcessInv'
    BY <2>1, <2>2 DEF IInv, Types, ProcessInv, Steps, EndsWell, Says, Goes, processVars
  <2>4. OpenInv' /\ ExitInv' /\ AbortsExplained'
    BY <2>1 DEF IInv, OpenInv, ExitInv, AbortsExplained, Says, Goes, Idle, Running
  <2> QED
    BY <2>2, <2>3, <2>4 DEF IInv
<1>5. CASE Leaks
  <2> USE <1>5 DEF Leaks
  <2>1. Idle /\ pc \notin GivenUp /\ log' = log /\ trouble \subseteq trouble' /\ exit' = exit
    BY DEF GivenUp
  <2>2. LogInv' /\ msg' \in Messages /\ pc' \in Steps
    BY <2>1, SpeaksLog, SilentLog DEF IInv, Steps, GivenUp, Kinds
  <2>3. Types' /\ ProcessInv'
    BY <2>1, <2>2 DEF IInv, Types, ProcessInv, Steps, EndsWell, Says, Goes, processVars
  <2>4. OpenInv' /\ ExitInv' /\ AbortsExplained'
    BY <2>1 DEF IInv, OpenInv, ExitInv, AbortsExplained, Says, Goes, Idle, Running
  <2> QED
    BY <2>2, <2>3, <2>4 DEF IInv
<1>6. CASE Stats
  <2> USE <1>6 DEF Stats
  <2>1. Idle /\ pc \notin GivenUp /\ log' = log /\ trouble \subseteq trouble' /\ exit' = exit
    BY DEF GivenUp
  <2>2. LogInv' /\ msg' \in Messages /\ pc' \in Steps
    BY <2>1, SpeaksLog, SilentLog DEF IInv, Steps, GivenUp, Kinds
  <2>3. Types' /\ ProcessInv'
    BY <2>1, <2>2 DEF IInv, Types, ProcessInv, Steps, EndsWell, Says, Goes, processVars
  <2>4. OpenInv' /\ ExitInv' /\ AbortsExplained'
    BY <2>1 DEF IInv, OpenInv, ExitInv, AbortsExplained, Says, Goes, Idle, Running
  <2> QED
    BY <2>2, <2>3, <2>4 DEF IInv
<1> QED
  BY <1>1, <1>2, <1>3, <1>4, <1>5, <1>6

\* The command line and the log file.
LEMMA ArgsKeep == IInv /\ (ProcessArgs \/ LogFile) => IInv'
<1> SUFFICES ASSUME IInv, ProcessArgs \/ LogFile PROVE IInv'
  OBVIOUS
<1>1. CASE ProcessArgs
  <2> USE <1>1 DEF ProcessArgs
  <2>1. /\ Idle /\ pc = "args" /\ log' = log /\ trouble' = trouble /\ exit' = exit
        /\ open' = open /\ status' = status /\ target' = target /\ lost' = lost
        /\ \/ Says("fatal", "log_close") \/ Goes("log_file") \/ Goes("args")
    BY DEF NoProgram, Program, NextArgument, Flag, Value, BadOption, InOption, processVars, Goes
  <2>2. LogInv' /\ msg' \in Messages /\ pc' \in {"log_close", "log_file", "args"}
    BY <2>1, SpeaksLog, SilentLog DEF IInv, GivenUp, Kinds
  <2>3. Types' /\ ProcessInv'
    BY <2>1, <2>2 DEF IInv, Types, ProcessInv, Steps, EndsWell
  <2>4. OpenInv' /\ ExitInv' /\ AbortsExplained'
    BY <2>1, <2>2 DEF IInv, OpenInv, ExitInv, AbortsExplained, Idle, Running
  <2> QED
    BY <2>2, <2>3, <2>4 DEF IInv
<1>2. CASE LogFile
  <2> USE <1>2 DEF LogFile
  <2>1. /\ Idle /\ pc = "log_file" /\ trouble' = trouble /\ exit' = exit
        /\ status' = status /\ target' = target /\ lost' = lost
        /\ open' \in {open, open \cup {"log"}} /\ pc' = "exec"
        /\ \/ log' = log /\ (Says("warning", "exec") \/ Goes("exec"))
           \/ log' = [log EXCEPT !.sink = "file"] /\ Goes("exec")
    BY DEF processVars, Says, Goes
  <2>2. /\ log' \in Logs /\ log'.fatal_error = log.fatal_error /\ log'.logging = log.logging
        /\ log'.internal_error = log.internal_error
    <3>1. FALSE \in BOOLEAN /\ log \in Logs
      BY DEF IInv, Types
    <3> QED
      BY <2>1, <3>1, LogFields
  <2>3. msg' \in Messages /\ msg'.begun = FALSE /\ msg'.kind \in {"none", "warning"}
    BY <2>1, Speaks, Silent DEF Kinds
  <2>4. log.fatal_error = FALSE /\ log.logging = FALSE
    BY <2>1, MessageFields DEF IInv, Types, LogInv, Logs, Idle, NoMessage, GivenUp
  <2>5. LogInv'
    BY <2>1, <2>2, <2>3, <2>4 DEF IInv, LogInv
  <2>6. Types' /\ ProcessInv'
    BY <2>1, <2>2, <2>3 DEF IInv, Types, ProcessInv, Steps, EndsWell
  <2>7. OpenInv' /\ ExitInv' /\ AbortsExplained'
    BY <2>1 DEF IInv, OpenInv, ExitInv, AbortsExplained, Idle, Running
  <2> QED
    BY <2>5, <2>6, <2>7 DEF IInv
<1> QED
  BY <1>1, <1>2

\* The closing: mut_process_close finds a process that does not run, or waitpid
\* has failed; it speaks only when it cannot kill.
LEMMA ClosingKeeps == IInv /\ (Close \/ ExecClose \/ MainReturns) => IInv'
<1> SUFFICES ASSUME IInv, Close \/ ExecClose \/ MainReturns PROVE IInv'
  OBVIOUS
<1>1. CASE Close
  <2> USE <1>1 DEF Close
  <2>1. Idle /\ pc \in {"close", "close_on_error", "manage_failed"} /\ open' = open \ {"resources"}
        /\ status' = status /\ lost' = lost
    OBVIOUS
  <2>2. CASE status = "running"
    <3>1. /\ exit' = "abort" /\ pc' = pc /\ log' = log /\ msg' = msg /\ target' = target
          /\ trouble' = trouble /\ LeftRunning
      BY <2>1, <2>2 DEF mut_process_close, Abort, IInv, ProcessInv, EndsWell
    <3> QED
      BY <2>1, <3>1 DEF IInv, Types, LogInv, ProcessInv, OpenInv, ExitInv, AbortsExplained
  <2>3. CASE status # "running"
    <3>1. /\ log' = log /\ exit' = exit /\ pc' = AfterProcess /\ target' = "dead"
          /\ \/ Goes(AfterProcess) /\ trouble' = trouble
             \/ Says("info", AfterProcess) /\ trouble' = trouble \cup {"kill"}
      BY <2>1, <2>3 DEF mut_process_close, IInv, Types, ProcessInv, EndsWell, Says, Goes
    <3>2. /\ msg' \in Messages /\ msg'.begun = FALSE /\ msg'.kind \in {"none", "info"}
          /\ msg' = NoMessage \/ "kill" \in trouble'
      BY <2>1, <3>1, Speaks, Silent DEF Kinds
    <3>3. msg.begun = FALSE
      BY <2>1, MessageFields DEF Idle, NoMessage, Kinds
    <3>4. LogInv'
      BY <2>1, <3>1, <3>2, <3>3 DEF IInv, LogInv, AfterProcess, GivenUp
    <3>5. Types' /\ ProcessInv'
      BY <2>1, <2>3, <3>1, <3>2
      DEF IInv, Types, ProcessInv, AfterProcess, Steps, EndsWell
    <3>6. OpenInv' /\ ExitInv' /\ AbortsExplained'
      BY <2>1, <3>1 DEF IInv, OpenInv, ExitInv, AbortsExplained, AfterProcess, Idle, Running
    <3> QED
      BY <3>4, <3>5, <3>6 DEF IInv
  <2> QED
    BY <2>2, <2>3
<1>2. CASE ExecClose
  <2>1. /\ pc \in {"exec_close", "exec_close_ok"} /\ open' = open \ {"exec"} /\ msg' = msg
        /\ pc' = (IF pc = "exec_close" THEN "log_close" ELSE "log_close_ok")
        /\ log' = log /\ trouble' = trouble /\ exit' = exit /\ exit = "none"
        /\ status' = status /\ target' = target /\ lost' = lost
    BY <1>2 DEF ExecClose, Goes, processVars, Idle, Running
  <2>2. LogInv'
    BY <2>1 DEF IInv, LogInv, GivenUp
  <2>3. Types' /\ ProcessInv'
    BY <2>1 DEF IInv, Types, ProcessInv, Steps, EndsWell
  <2>4. OpenInv' /\ ExitInv' /\ AbortsExplained'
    BY <2>1 DEF IInv, OpenInv, ExitInv, AbortsExplained
  <2> QED
    BY <2>2, <2>3, <2>4 DEF IInv
<1>3. CASE MainReturns
  <2>1. /\ pc \in {"log_close", "log_close_ok"} /\ open' = open \ {"log", "mem"}
        /\ exit' = (IF pc = "log_close" THEN "failure" ELSE "success")
        /\ pc' = pc /\ msg' = msg /\ log' = log /\ trouble' = trouble
        /\ status' = status /\ target' = target /\ lost' = lost
    BY <1>3 DEF MainReturns, mut_log_close, processVars
  <2>2. LogInv' /\ Types' /\ ProcessInv'
    BY <2>1 DEF IInv, LogInv, Types, ProcessInv
  <2>3. OpenInv' /\ ExitInv' /\ AbortsExplained'
    BY <2>1 DEF IInv, OpenInv, ExitInv, AbortsExplained
  <2> QED
    BY <2>2, <2>3 DEF IInv
<1> QED
  BY <1>1, <1>2, <1>3

\* What the forked process does beside them.
LEMMA TargetKeeps == IInv /\ Target => IInv'
<1> SUFFICES ASSUME IInv, Target PROVE IInv'
  OBVIOUS
<1>1. /\ pc' = pc /\ log' = log /\ msg' = msg /\ open' = open /\ status' = status
      /\ trouble' = trouble /\ exit' = exit
  BY DEF Target
<1>2. \/ target = "child" /\ target' \in {"stopped", "dead"} /\ lost' = lost
      \/ target = "child" /\ target' = "dead" /\ lost' \in BOOLEAN
      \/ target = "running" /\ target' = "stopped" /\ lost' = lost
      \/ target \in {"child", "running", "stopped"} /\ target' = "dead" /\ lost' = lost
  BY DEF Target, ChildStops, ChildFails, TargetStops, TargetDies
<1>3. LogInv' /\ OpenInv' /\ ExitInv' /\ AbortsExplained'
  BY <1>1 DEF IInv, LogInv, OpenInv, ExitInv, AbortsExplained
<1>4. Types' /\ ProcessInv'
  BY <1>1, <1>2 DEF IInv, Types, ProcessInv, EndsWell
<1> QED
  BY <1>3, <1>4 DEF IInv

\* The actions of the log: a message that may not begin has one of the
\* causes, and what is written to has begun.
LEMMA LogKeeps == IInv /\ (LogBegins \/ LogWrites \/ LogEnds) => IInv'
<1> SUFFICES ASSUME IInv, LogBegins \/ LogWrites \/ LogEnds PROVE IInv'
  OBVIOUS
<1>1. /\ pc' = pc /\ open' = open /\ status' = status /\ target' = target /\ lost' = lost
      /\ exit = "none" /\ log \in Logs /\ msg \in Messages
  BY DEF LogBegins, LogWrites, LogEnds, processVars, Running, IInv, Types
<1>2. /\ log.fatal_error \in BOOLEAN /\ log.logging \in BOOLEAN /\ log.internal_error \in BOOLEAN
      /\ msg.begun \in BOOLEAN /\ msg.kind \in Kinds
  BY <1>1 DEF Logs, Messages
<1>3. OpenInv'
  BY <1>1 DEF IInv, OpenInv
<1>4. /\ Writes \subseteq BOOLEAN
      /\ \A b \in BOOLEAN : Noted(b) => trouble \subseteq trouble' /\ (b => "write" \in trouble')
  BY DEF Writes, Noted
<1>5. NoMessage \in Messages /\ NoMessage.begun = FALSE /\ NoMessage.kind = "none"
  BY MessageFields DEF NoMessage, Kinds
<1>6. ASSUME trouble \subseteq trouble', exit' = exit, log' \in Logs, msg' \in Messages
      PROVE  Types' /\ ProcessInv' /\ ExitInv' /\ AbortsExplained'
  BY <1>1, <1>6 DEF IInv, Types, ProcessInv, ExitInv, AbortsExplained
<1>7. CASE LogBegins
  <2>1. msg # NoMessage /\ msg.begun = FALSE
    BY <1>7, <1>2 DEF LogBegins
  <2>2. CASE MayBegin(log)
    <3>1. PICK b \in Writes :
              /\ log' = Begin(log, msg.kind, b) /\ Noted(b) /\ exit' = exit
              /\ msg' = IF msg.kind = "mem_full" THEN NoMessage ELSE [kind |-> msg.kind, begun |-> TRUE]
      BY <1>7, <2>2 DEF LogBegins
    <3>2. /\ log' \in Logs /\ log'.logging = TRUE /\ log'.internal_error = b
          /\ log'.fatal_error = (log.fatal_error \/ msg.kind \in {"fatal", "mem_full"})
      <4> DEFINE f == log.fatal_error \/ msg.kind \in {"fatal", "mem_full"}
      <4>1. log' = [fatal_error |-> f, logging |-> TRUE, internal_error |-> b, sink |-> log.sink]
        BY <3>1 DEF Begin
      <4>2. f \in BOOLEAN /\ b \in BOOLEAN /\ log.sink \in {"stderr", "file"} /\ TRUE \in BOOLEAN
        BY <1>1, <1>4 DEF Logs
      <4> HIDE DEF f
      <4>3. log' \in Logs /\ log'.fatal_error = f /\ log'.logging = TRUE /\ log'.internal_error = b
        BY <4>1, <4>2, LogRecord
      <4> QED
        BY <4>3 DEF f
    <3>3. /\ msg' \in Messages
          /\ msg.kind = "mem_full" => msg' = NoMessage
          /\ msg.kind # "mem_full" => msg'.begun = TRUE /\ msg'.kind = msg.kind
      BY <1>2, <1>5, <3>1, MessageFields
    <3>4. LogInv'
      BY <1>1, <1>4, <1>5, <2>1, <2>2, <3>1, <3>2, <3>3 DEF IInv, LogInv, MayBegin
    <3> QED
      BY <1>3, <1>4, <1>6, <3>1, <3>2, <3>3, <3>4 DEF IInv
  <2>3. CASE ~MayBegin(log)
    <3>1. exit' = "abort" /\ log' = log /\ msg' = msg /\ trouble' = trouble
      BY <1>7, <2>3 DEF LogBegins, Abort
    <3>2. AbortsExplained'
      BY <1>2, <2>1, <2>3, <3>1 DEF IInv, LogInv, MayBegin, AbortsExplained
    <3> QED
      BY <1>1, <1>3, <3>1, <3>2 DEF IInv, Types, LogInv, ProcessInv, ExitInv
  <2> QED
    BY <2>2, <2>3
<1>8. CASE LogWrites
  <2>1. msg.begun = TRUE /\ log.logging = TRUE
    BY <1>8, <1>2 DEF LogWrites, IInv, LogInv
  <2>2. PICK b \in Writes :
            log' = [log EXCEPT !.internal_error = b] /\ Noted(b) /\ msg' = msg /\ exit' = exit
    BY <1>8, <2>1 DEF LogWrites
  <2>3. /\ log' \in Logs /\ log'.fatal_error = log.fatal_error /\ log'.logging = log.logging
        /\ log'.internal_error = b
    BY <1>1, <1>4, <2>2, LogFields
  <2>4. LogInv'
    BY <1>1, <1>4, <2>1, <2>2, <2>3 DEF IInv, LogInv
  <2> QED
    BY <1>1, <1>3, <1>4, <1>6, <2>2, <2>3, <2>4 DEF IInv
<1>9. CASE LogEnds
  <2>1. msg.begun = TRUE /\ log.logging = TRUE
    BY <1>9, <1>2 DEF LogEnds, IInv, LogInv
  <2>2. PICK b \in BOOLEAN : log' = End(log, b) /\ Noted(b) /\ msg' = NoMessage /\ exit' = exit
    BY <1>9, <1>4, <2>1 DEF LogEnds
  <2>3. /\ log' \in Logs /\ log'.logging = FALSE /\ log'.internal_error = b
        /\ log'.fatal_error = log.fatal_error
    <3> DEFINE f == log.fatal_error
    <3>1. log' = [fatal_error |-> f, logging |-> FALSE, internal_error |-> b, sink |-> log.sink]
      BY <2>2 DEF End
    <3>2. f \in BOOLEAN /\ b \in BOOLEAN /\ log.sink \in {"stderr", "file"} /\ FALSE \in BOOLEAN
      BY <1>1, <1>2 DEF Logs
    <3> HIDE DEF f
    <3>3. log' \in Logs /\ log'.fatal_error = f /\ log'.logging = FALSE /\ log'.internal_error = b
      BY <3>1, <3>2, LogRecord
    <3> QED
      BY <3>3 DEF f
  <2>4. LogInv'
    BY <1>1, <1>4, <1>5, <2>1, <2>2, <2>3 DEF IInv, LogInv
  <2> QED
    BY <1>3, <1>4, <1>5, <1>6, <2>2, <2>3, <2>4 DEF IInv
<1> QED
  BY <1>7, <1>8, <1>9

-----------------------------------------------------------------------------
\* The invariant holds in every run of the program.
THEOREM SessionInvariant == Spec => []IInv
<1>1. Init => IInv
  <2> SUFFICES ASSUME Init PROVE IInv
    OBVIOUS
  <2>1. /\ log \in Logs /\ log.fatal_error = FALSE /\ log.logging = FALSE
        /\ log.internal_error = FALSE
    BY DEF Init, mut_log_open, Logs
  <2>2. msg \in Messages /\ msg.begun = FALSE /\ msg.kind = "none"
    BY MessageFields DEF Init, NoMessage, Kinds
  <2>3. Types /\ LogInv /\ ProcessInv
    BY <2>1, <2>2 DEF Init, Types, LogInv, ProcessInv, Steps, GivenUp, EndsWell
  <2> QED
    BY <2>3 DEF Init, IInv, OpenInv, ExitInv, AbortsExplained
<1>2. IInv /\ [Next]_vars => IInv'
  <2> SUFFICES ASSUME IInv, [Next]_vars PROVE IInv'
    OBVIOUS
  <2>1. CASE Main
    BY <2>1, LogKeeps, ArgsKeep, OpeningKeeps, RunKeeps, ClosingKeeps DEF Main
  <2>2. CASE Target
    BY <2>2, TargetKeeps
  <2>3. CASE UNCHANGED vars
    BY <2>3 DEF vars, IInv, Types, LogInv, ProcessInv, OpenInv, ExitInv, AbortsExplained
  <2> QED
    BY <2>1, <2>2, <2>3 DEF Next
<1> QED
  BY <1>1, <1>2, PTL DEF Spec

\* mut returns EXIT_SUCCESS only if nobody met a fatal error and the target has
\* exited.
THEOREM FatalMeansFailureHolds == Spec => []FatalMeansFailure
<1>1. IInv => FatalMeansFailure
  BY DEF IInv, Types, LogInv, ProcessInv, ExitInv, GivenUp, EndsWell, FatalMeansFailure
<1> QED
  BY <1>1, SessionInvariant, PTL

\* The assertions of mut_log.c and mut_process_close fail only after a write
\* error, after waitpid or the passing on of a signal has failed, or when a dead
\* target cannot be killed.
THEOREM AbortsExplainedHolds == Spec => []AbortsExplained
<1>1. IInv => AbortsExplained
  BY DEF IInv
<1> QED
  BY <1>1, SessionInvariant, PTL

\* When main returns everything is closed and no process is left behind, unless
\* waitpid has failed.
THEOREM EverythingClosedHolds == Spec => []EverythingClosed
<1>1. IInv => EverythingClosed
  BY DEF IInv, Types, ProcessInv, ExitInv, EndsWell, EverythingClosed
<1> QED
  BY <1>1, SessionInvariant, PTL
-----------------------------------------------------------------------------
(* The command line.  What mut_ui_process_args has made of it so far is what *)
(* the arguments before at.arg mean and the flags before at.letter in it.    *)

Good(a) == IsValue(a) \/ \A j \in 1..Len(a.letters) : a.letters[j] \in Flags
LettersOf(a) == {a.letters[j] : j \in 1..Len(a.letters)}
ReadLetters == {Letters[j] : j \in 1..(at.letter - 1)}

\* The arguments that were passed are options in order, and so is the part of
\* this one that was read.
Passed == \A h \in 1..(at.arg - 1) : argv[h].option /\ Good(argv[h])
ReadSoFar ==
    /\ at.arg > Len(argv) => at.letter = 1
    /\ at.letter > 1 => argv[at.arg].option /\ at.letter - 1 <= Len(Letters)
    /\ \A j \in 1..(at.letter - 1) : Letters[j] \in Flags

Told ==
    /\ info.flags = FlagsOf(argv, at.arg - 1) \cup ReadLetters
    /\ \A v \in Values : info.value[v] \in ValueOf(argv, at.arg - 1, v)

Place ==
    /\ argv \in Argvs
    /\ at = [arg |-> at.arg, letter |-> at.letter]
    /\ at.arg \in 1..(Len(argv) + 1) /\ at.letter \in Nat \ {0}
    /\ info = [flags |-> info.flags, value |-> info.value]
    /\ info.value = [v \in Values |-> info.value[v]]

ArgsInv ==
    /\ Place
    /\ pc = "args" => Passed /\ ReadSoFar /\ Told
    /\ ArgsAsGiven

LEMMA ArgumentIs ==
    ASSUME NEW av \in Argvs
    PROVE  /\ Len(av) \in Nat
           /\ \A h \in 1..Len(av) : /\ av[h].option \in BOOLEAN
                                    /\ av[h].letters \in Seq(STRING) /\ Len(av[h].letters) \in Nat
<1>1. av \in Seq([option : BOOLEAN, letters : Seq(STRING)])
  BY MainAssumption
<1>2. \A h \in 1..Len(av) : av[h] \in [option : BOOLEAN, letters : Seq(STRING)]
  <2>1. \A A : av \in Seq(A) => \A h \in 1..Len(av) : av[h] \in A
    OBVIOUS
  <2> QED
    BY ONLY <1>1, <2>1
<1>3. Len(av) \in Nat
  BY <1>1
<1>4. \A a : a \in [option : BOOLEAN, letters : Seq(STRING)] =>
          a.option \in BOOLEAN /\ a.letters \in Seq(STRING)
  OBVIOUS
<1>5. \A s : s \in Seq(STRING) => Len(s) \in Nat
  OBVIOUS
<1>6. \A h \in 1..Len(av) : /\ av[h].option \in BOOLEAN
                            /\ av[h].letters \in Seq(STRING) /\ Len(av[h].letters) \in Nat
  <2> SUFFICES ASSUME NEW h \in 1..Len(av)
               PROVE  /\ av[h].option \in BOOLEAN
                      /\ av[h].letters \in Seq(STRING) /\ Len(av[h].letters) \in Nat
    OBVIOUS
  <2>1. av[h].option \in BOOLEAN /\ av[h].letters \in Seq(STRING)
    BY ONLY <1>2, <1>4
  <2> QED
    BY ONLY <2>1, <1>5
<1> QED
  BY <1>3, <1>6

\* One argument more.
LEMMA FlagsNext ==
    ASSUME NEW av, NEW n \in Nat \ {0}
    PROVE  FlagsOf(av, n) = FlagsOf(av, n - 1) \cup (IF IsValue(av[n]) THEN {} ELSE LettersOf(av[n]))
<1>1. 1..n = (1..(n - 1)) \cup {n}
  OBVIOUS
<1>2. \A m : FlagsOf(av, m) = UNION {LettersOf(av[x]) : x \in {h \in 1..m : ~IsValue(av[h])}}
  BY DEF FlagsOf, LettersOf
<1>3. \A m, y : y \in FlagsOf(av, m) <=> \E x \in 1..m : ~IsValue(av[x]) /\ y \in LettersOf(av[x])
  BY <1>2
<1>4. \A y : y \in FlagsOf(av, n) <=>
                \/ y \in FlagsOf(av, n - 1)
                \/ ~IsValue(av[n]) /\ y \in LettersOf(av[n])
  BY <1>1, <1>3
<1> QED
  BY <1>4

GivenBy(av, n, v) == {h \in 1..n : IsValue(av[h]) /\ av[h].letters[1] = v}

LEMMA ValueIs ==
    ASSUME NEW av, NEW n, NEW v
    PROVE  \A y : y \in ValueOf(av, n, v) <=>
               \/ GivenBy(av, n, v) = {} /\ y = NoValue
               \/ \E h \in GivenBy(av, n, v) :
                      (\A g \in GivenBy(av, n, v) : g <= h) /\ y = Len(av[h].letters) - 1
<1> DEFINE G == GivenBy(av, n, v)
<1>1. ValueOf(av, n, v) = IF G = {} THEN {NoValue}
          ELSE {Len(av[h].letters) - 1 : h \in {x \in G : \A g \in G : g <= x}}
  BY DEF ValueOf, GivenBy
<1> HIDE DEF G
<1> QED
  <2>1. \A y : y \in ValueOf(av, n, v) <=>
               \/ G = {} /\ y = NoValue
               \/ \E h \in G : (\A g \in G : g <= h) /\ y = Len(av[h].letters) - 1
    BY <1>1
  <2> QED
    BY <2>1 DEF G

LEMMA ValueNext ==
    ASSUME NEW av, NEW n \in Nat \ {0}, NEW v
    PROVE  IF IsValue(av[n]) /\ av[n].letters[1] = v
           THEN Len(av[n].letters) - 1 \in ValueOf(av, n, v)
           ELSE ValueOf(av, n, v) = ValueOf(av, n - 1, v)
<1>1. \A h \in 1..n : h <= n /\ (h = n \/ h \in 1..(n - 1))
  OBVIOUS
<1>2. CASE IsValue(av[n]) /\ av[n].letters[1] = v
  <2>1. n \in GivenBy(av, n, v) /\ \A g \in GivenBy(av, n, v) : g <= n
    BY <1>2 DEF GivenBy
  <2> QED
    BY <1>2, <2>1, ValueIs
<1>3. CASE ~(IsValue(av[n]) /\ av[n].letters[1] = v)
  <2>1. GivenBy(av, n, v) = GivenBy(av, n - 1, v)
    BY <1>1, <1>3 DEF GivenBy
  <2>2. \A m : ValueOf(av, m, v) =
            IF GivenBy(av, m, v) = {} THEN {NoValue}
            ELSE {Len(av[h].letters) - 1 :
                     h \in {x \in GivenBy(av, m, v) : \A g \in GivenBy(av, m, v) : g <= x}}
    BY DEF ValueOf, GivenBy
  <2>3. ValueOf(av, n, v) = ValueOf(av, n - 1, v)
    BY ONLY <2>1, <2>2
  <2> QED
    BY <1>3, <2>3
<1> QED
  BY <1>2, <1>3

\* The two ways on from a letter that was read, or none was.
LEMMA ArgsOption ==
    ASSUME ArgsInv, NextArgument \/ Flag \/ Value, UNCHANGED <<log, open, processVars, trouble, count, exit>>
    PROVE  ArgsInv'
<1>1. /\ pc = "args" /\ pc' = "args" /\ argv' = argv
      /\ at.arg <= Len(argv) /\ argv[at.arg].option
  BY DEF NextArgument, Flag, Value, InOption
<1>2. /\ Place /\ Passed /\ ReadSoFar /\ Told
  BY <1>1 DEF ArgsInv
<1>3. /\ argv \in Argvs /\ at.arg \in Nat \ {0} /\ at.letter \in Nat \ {0}
      /\ Len(argv) \in Nat /\ Len(Letters) \in Nat
  BY <1>1, <1>2, ArgumentIs DEF Place, Letters
<1>4. CASE Flag
  <2>1. /\ at'.arg = at.arg /\ at'.letter = at.letter + 1
        /\ at' = [arg |-> at'.arg, letter |-> at'.letter]
    BY <1>2, <1>3, <1>4 DEF Flag, Place
  <2>2. PICK F : F = info.flags \cup {Letters[at.letter]}
    OBVIOUS
  <2>3. /\ info'.flags = F /\ info'.value = info.value
        /\ info' = [flags |-> info'.flags, value |-> info'.value]
    BY <1>2, <1>4, <2>2 DEF Flag, Place
  <2>4. Letters' = Letters /\ at.letter <= Len(Letters) /\ Letters[at.letter] \in Flags
    BY <1>1, <1>4, <2>1 DEF Flag, Letters
  <2>5. Place'
    BY <1>1, <1>2, <1>3, <2>1, <2>3 DEF Place
  <2>6. Passed' /\ ReadSoFar'
    BY <1>1, <1>2, <1>3, <2>1, <2>4 DEF Passed, ReadSoFar
  <2>7. ReadLetters' = ReadLetters \cup {Letters[at.letter]}
    <3>1. 1..(at'.letter - 1) = (1..(at.letter - 1)) \cup {at.letter}
      BY <1>3, <2>1
    <3> QED
      BY <2>4, <3>1 DEF ReadLetters
  <2>8. Told'
    <3>1. FlagsOf(argv, at.arg - 1)' = FlagsOf(argv, at.arg - 1)
          /\ \A v : ValueOf(argv, at.arg - 1, v)' = ValueOf(argv, at.arg - 1, v)
      BY <1>1, <2>1 DEF FlagsOf, ValueOf, IsValue
    <3> QED
      BY <1>2, <2>2, <2>3, <2>7, <3>1 DEF Told
  <2> QED
    BY <1>1, <2>5, <2>6, <2>8 DEF ArgsInv, ArgsAsGiven
<1>5. CASE NextArgument
  <2>1. /\ at'.arg = at.arg + 1 /\ at'.letter = 1 /\ at' = [arg |-> at'.arg, letter |-> at'.letter]
        /\ info' = info /\ at.letter > Len(Letters)
    BY <1>5 DEF NextArgument
  <2>2. \A j \in 1..Len(Letters) : Letters[j] \in Flags
    BY <1>2, <1>3, <2>1 DEF ReadSoFar
  <2>3. ~IsValue(argv[at.arg])
    BY <1>3, <2>2, MainAssumption DEF IsValue, Letters
  <2>4. Place'
    BY <1>1, <1>2, <1>3, <2>1 DEF Place
  <2>5. Passed' /\ ReadSoFar'
    <3>1. Good(argv[at.arg])
      BY <2>2 DEF Good, Letters
    <3>2. \A h \in 1..at.arg : h \in 1..(at.arg - 1) \/ h = at.arg
      BY <1>3
    <3>3. at'.arg - 1 = at.arg
      BY <1>3, <2>1
    <3>4. Passed'
      BY <1>1, <1>2, <3>1, <3>2, <3>3 DEF Passed, Good, IsValue
    <3> QED
      BY <1>1, <1>3, <2>1, <3>4 DEF ReadSoFar
  <2>6. ReadLetters = LettersOf(argv[at.arg]) /\ ReadLetters' = {}
    <3>1. 1..(at.letter - 1) = 1..Len(Letters)
      BY <1>2, <1>3, <2>1 DEF ReadSoFar
    <3>2. ReadLetters = {Letters[j] : j \in 1..Len(Letters)}
      BY <3>1 DEF ReadLetters
    <3>3. ReadLetters' = {}
      BY <2>1 DEF ReadLetters
    <3> QED
      BY <3>2, <3>3 DEF LettersOf, Letters
  <2>7. Told'
    <3>1. FlagsOf(argv, at.arg) = FlagsOf(argv, at.arg - 1) \cup LettersOf(argv[at.arg])
      BY <1>3, <2>3, FlagsNext
    <3>2. \A v : ValueOf(argv, at.arg, v) = ValueOf(argv, at.arg - 1, v)
      BY <1>3, <2>3, ValueNext
    <3>3. /\ FlagsOf(argv, at.arg - 1)' = FlagsOf(argv, at.arg)
          /\ \A v : ValueOf(argv, at.arg - 1, v)' = ValueOf(argv, at.arg, v)
      <4>1. argv' = argv /\ at'.arg - 1 = at.arg
        BY <1>1, <1>3, <2>1
      <4> QED
        BY ONLY <4>1
    <3> QED
      BY <1>2, <2>1, <2>6, <3>1, <3>2, <3>3 DEF Told
  <2> QED
    BY <1>1, <2>4, <2>5, <2>7 DEF ArgsInv, ArgsAsGiven
<1>6. CASE Value
  <2>1. PICK w, k : w = Letters[1] /\ k = Len(Letters) - 1
    OBVIOUS
  <2>2. /\ at.letter = 1 /\ at.letter <= Len(Letters) /\ w \in Values
        /\ at'.arg = at.arg + 1 /\ at'.letter = 1 /\ at' = [arg |-> at'.arg, letter |-> at'.letter]
    BY <1>6, <2>1 DEF Value
  <2>3. /\ info'.flags = info.flags
        /\ info' = [flags |-> info'.flags, value |-> info'.value]
        /\ info'.value = [info.value EXCEPT ![w] = k]
    BY <1>2, <1>6, <2>1 DEF Value, Place
  <2>4. /\ info'.value[w] = k /\ \A v \in Values : v # w => info'.value[v] = info.value[v]
        /\ info'.value = [v \in Values |-> info'.value[v]]
    BY <1>2, <2>2, <2>3 DEF Place
  <2>5. IsValue(argv[at.arg]) /\ argv[at.arg].letters[1] = w
    BY <1>3, <2>1, <2>2 DEF IsValue, Letters
  <2>6. Place'
    BY <1>1, <1>2, <1>3, <2>2, <2>3, <2>4 DEF Place
  <2>7. Passed' /\ ReadSoFar'
    <3>1. Good(argv[at.arg])
      BY <2>5 DEF Good
    <3>2. \A h \in 1..at.arg : h \in 1..(at.arg - 1) \/ h = at.arg
      BY <1>3
    <3>3. at'.arg - 1 = at.arg
      BY <1>3, <2>2
    <3>4. Passed'
      BY <1>1, <1>2, <3>1, <3>2, <3>3 DEF Passed, Good, IsValue
    <3> QED
      BY <1>1, <1>3, <2>2, <3>4 DEF ReadSoFar
  <2>8. ReadLetters = {} /\ ReadLetters' = {}
    BY <2>2 DEF ReadLetters
  <2>9. Told'
    <3>1. FlagsOf(argv, at.arg) = FlagsOf(argv, at.arg - 1)
      BY <1>3, <2>5, FlagsNext
    <3>2. \A v : IF v = w THEN k \in ValueOf(argv, at.arg, v)
                 ELSE ValueOf(argv, at.arg, v) = ValueOf(argv, at.arg - 1, v)
      BY <1>3, <2>1, <2>5, ValueNext DEF Letters
    <3>3. /\ FlagsOf(argv, at.arg - 1)' = FlagsOf(argv, at.arg)
          /\ \A v : ValueOf(argv, at.arg - 1, v)' = ValueOf(argv, at.arg, v)
      <4>1. argv' = argv /\ at'.arg - 1 = at.arg
        BY <1>1, <1>3, <2>2
      <4> QED
        BY ONLY <4>1
    <3> QED
      BY <1>2, <2>3, <2>4, <2>8, <3>1, <3>2, <3>3 DEF Told
  <2> QED
    BY <1>1, <2>6, <2>7, <2>9 DEF ArgsInv, ArgsAsGiven
<1> QED
  BY <1>4, <1>5, <1>6

\* The program, when every argument before it is what it should be.
LEMMA ArgsProgram ==
    ASSUME ArgsInv, Program, UNCHANGED <<log, open, processVars, trouble, count, exit>>
    PROVE  ArgsInv'
<1>1. /\ pc = "args" /\ pc' = "log_file" /\ UNCHANGED <<argv, at, info>>
      /\ at.arg <= Len(argv) /\ ~argv[at.arg].option
  BY DEF Program, Goes, uiVars
<1>2. Place /\ Passed /\ ReadSoFar /\ Told
  BY <1>1 DEF ArgsInv
<1>3. /\ argv \in Argvs /\ at.arg \in Nat \ {0} /\ at.letter \in Nat \ {0} /\ Len(argv) \in Nat
  BY <1>2, ArgumentIs DEF Place
<1>4. at.arg \in FirstProgram(argv)
  BY <1>1, <1>2, <1>3 DEF FirstProgram, Passed
<1>5. WellFormed(argv)
  BY <1>2, <1>4 DEF WellFormed, Passed, Good
<1>6. ReadLetters = {}
  BY <1>1, <1>2, <1>3 DEF ReadSoFar, ReadLetters
<1>7. /\ info.flags = FlagsOf(argv, at.arg - 1)
      /\ \A v \in Values : info.value[v] \in ValueOf(argv, at.arg - 1, v)
  BY <1>2, <1>6 DEF Told
<1>8. ArgsAsGiven'
  <2>1. WellFormed(argv)' /\ FlagsOf(argv, at.arg - 1)' = FlagsOf(argv, at.arg - 1)
        /\ \A v : ValueOf(argv, at.arg - 1, v)' = ValueOf(argv, at.arg - 1, v)
    BY <1>1, <1>5 DEF WellFormed, FirstProgram, FlagsOf, ValueOf, IsValue
  <2> QED
    BY <1>1, <1>7, <2>1 DEF ArgsAsGiven
<1> QED
  BY <1>1, <1>2, <1>8 DEF ArgsInv, Place

\* Usage and bad options: no program stands behind options that are all right.
LEMMA ArgsRefused ==
    ASSUME ArgsInv, NoProgram \/ BadOption, UNCHANGED <<log, open, processVars, trouble, count, exit>>
    PROVE  ArgsInv'
<1>1. pc = "args" /\ pc' = "log_close" /\ UNCHANGED <<argv, at, info>>
  BY DEF NoProgram, BadOption, InOption, Says, uiVars
<1>2. Place /\ Passed /\ ReadSoFar
  BY <1>1 DEF ArgsInv
<1>3. /\ argv \in Argvs /\ at.arg \in Nat \ {0} /\ at.letter \in Nat \ {0} /\ Len(argv) \in Nat
  BY <1>2, ArgumentIs DEF Place
<1>4. ~(at.arg <= Len(argv) /\ ~argv[at.arg].option) /\ ~WellFormed(argv)
  <2>1. CASE NoProgram
    <3>1. at.arg > Len(argv)
      BY <2>1 DEF NoProgram
    <3>2. FirstProgram(argv) = {}
      BY <1>2, <1>3, <3>1 DEF FirstProgram, Passed
    <3> QED
      BY <1>3, <3>1, <3>2 DEF WellFormed
  <2>2. CASE BadOption
    <3>1. /\ at.arg <= Len(argv) /\ argv[at.arg].option
          /\ at.letter <= Len(Letters) /\ Letters[at.letter] \notin Flags
          /\ Letters[at.letter] \in Values => at.letter > 1
      BY <2>2 DEF BadOption, InOption
    <3>2. Len(Letters) \in Nat
      BY <1>3, <3>1, ArgumentIs DEF Letters
    <3>3. ~Good(argv[at.arg])
      <4>1. ~IsValue(argv[at.arg])
        <5>1. CASE at.letter = 1
          BY <3>1, <5>1 DEF IsValue, Letters
        <5>2. CASE at.letter > 1
          BY <1>2, <1>3, <5>2, MainAssumption DEF ReadSoFar, IsValue, Letters
        <5> QED
          BY <1>3, <5>1, <5>2
      <4> QED
        BY <1>3, <3>1, <3>2, <4>1 DEF Good, Letters
    <3>4. \A k \in FirstProgram(argv) : at.arg \in 1..(k - 1)
      BY <1>2, <1>3, <3>1 DEF FirstProgram, Passed
    <3> QED
      BY <3>1, <3>3, <3>4 DEF WellFormed, Good
  <2> QED
    BY <2>1, <2>2
<1>5. ArgsAsGiven'
  <2>1. WellFormed(argv)' <=> WellFormed(argv)
    BY <1>1 DEF WellFormed, FirstProgram, IsValue
  <2> QED
    BY <1>1, <1>4, <2>1 DEF ArgsAsGiven
<1> QED
  BY <1>1, <1>2, <1>5 DEF ArgsInv, Place

\* Everything else leaves the command line alone, and nothing leads back to it.
Behind == pc # "args" /\ pc' \notin {"args", "log_file"} /\ argv' = argv /\ at' = at
Beside == UNCHANGED <<pc, argv, at, info>>

LEMMA ArgsBehind ==
    ASSUME ArgsInv, Behind,
           \/ info' = info
           \/ info' = [info EXCEPT !.flags = @ \ {"b"}]
    PROVE  ArgsInv'
<1>1. /\ info' = [flags |-> info'.flags, value |-> info'.value] /\ info'.value = info.value
  BY DEF ArgsInv, Place
<1>2. Place'
  BY <1>1 DEF ArgsInv, Place, Behind
<1>3. WellFormed(argv)' <=> WellFormed(argv)
  BY DEF WellFormed, FirstProgram, IsValue, Behind
<1>4. ArgsAsGiven'
  BY <1>3 DEF ArgsInv, ArgsAsGiven, Behind
<1> QED
  BY <1>2, <1>4 DEF ArgsInv, Behind

LEMMA ArgsBeside == ArgsInv /\ Beside => ArgsInv'
<1> SUFFICES ASSUME ArgsInv, Beside PROVE ArgsInv'
  OBVIOUS
<1>1. Place' /\ (Passed' <=> Passed) /\ (ReadSoFar' <=> ReadSoFar)
  BY DEF ArgsInv, Beside, Place, Passed, Good, IsValue, ReadSoFar, Letters
<1>2. /\ WellFormed(argv)' <=> WellFormed(argv)
      /\ FlagsOf(argv, at.arg - 1)' = FlagsOf(argv, at.arg - 1)
      /\ \A v : ValueOf(argv, at.arg - 1, v)' = ValueOf(argv, at.arg - 1, v)
      /\ ReadLetters' = ReadLetters
  BY DEF Beside, WellFormed, FirstProgram, FlagsOf, ValueOf, IsValue, ReadLetters, Letters
<1> QED
  BY <1>1, <1>2 DEF ArgsInv, Beside, Told, ArgsAsGiven

LEMMA StepsBehind ==
    ASSUME \/ LogFile \/ ExecOpen \/ Fork \/ ProcessWait \/ ReadPc \/ Manage
           \/ Resume \/ Wait \/ ForwardSignal \/ Handler
           \/ Leaks \/ Stats \/ Close \/ ExecClose
    PROVE  info' = info /\ (Behind \/ Beside)
<1>1. CASE LogFile
  BY <1>1 DEF LogFile, Says, Goes, uiVars, Behind
<1>2. CASE ExecOpen
  BY <1>2 DEF ExecOpen, Says, Goes, uiVars, Behind
<1>3. CASE Fork \/ ProcessWait \/ ReadPc
  BY <1>3 DEF Fork, ProcessWait, ReadPc, Says, Goes, uiVars, Behind
<1>4. CASE Manage
  BY <1>4 DEF Manage, Says, Goes, uiVars, Behind
<1>5. CASE Resume \/ Wait \/ ForwardSignal
  BY <1>5 DEF Resume, Wait, ForwardSignal, InAction, Says, Goes, uiVars, Behind
<1>6. CASE Handler
  BY <1>6 DEF Handler, Says, Goes, uiVars, Behind
<1>7. CASE Leaks \/ Stats
  BY <1>7 DEF Leaks, Stats, Says, Goes, uiVars, Behind
<1>8. CASE Close
  BY <1>8 DEF Close, mut_process_close, Abort, AfterProcess, Says, Goes, uiVars, Behind, Beside
<1>9. CASE ExecClose
  BY <1>9 DEF ExecClose, Says, Goes, uiVars, Behind
<1> QED
  BY <1>1, <1>2, <1>3, <1>4, <1>5, <1>6, <1>7, <1>8, <1>9

\* mut accepts exactly the command lines that name a program behind flags and
\* values, and goes on with the flags and the last values that stand there.
THEOREM ArgsAsGivenHolds == Spec => []ArgsAsGiven
<1>1. Init => ArgsInv
  <2> SUFFICES ASSUME Init PROVE ArgsInv
    OBVIOUS
  <2>1. /\ argv \in Argvs /\ at.arg = 1 /\ at.letter = 1 /\ pc = "args"
        /\ at = [arg |-> at.arg, letter |-> at.letter]
        /\ info.flags = {} /\ info.value = [v \in Values |-> NoValue]
        /\ info = [flags |-> info.flags, value |-> info.value]
    BY DEF Init
  <2>2. Len(argv) \in Nat
    BY <2>1, ArgumentIs
  <2>3. Place
    BY <2>1, <2>2 DEF Place
  <2>4. Passed /\ ReadSoFar
    BY <2>1 DEF Passed, ReadSoFar
  <2>5. ReadLetters = {} /\ FlagsOf(argv, 0) = {}
    BY <2>1 DEF ReadLetters, FlagsOf
  <2>6. \A v : NoValue \in ValueOf(argv, 0, v)
    BY ValueIs DEF GivenBy
  <2>7. Told
    BY <2>1, <2>5, <2>6 DEF Told
  <2> QED
    BY <2>1, <2>3, <2>4, <2>7 DEF ArgsInv, ArgsAsGiven
<1>2. ArgsInv /\ [Next]_vars => ArgsInv'
  <2> SUFFICES ASSUME ArgsInv, [Next]_vars PROVE ArgsInv'
    OBVIOUS
  <2>1. CASE ProcessArgs
    BY <2>1, ArgsOption, ArgsProgram, ArgsRefused DEF ProcessArgs
  <2>2. CASE \/ LogFile \/ ExecOpen \/ Fork \/ ProcessWait \/ ReadPc \/ Manage
             \/ Resume \/ Wait \/ ForwardSignal \/ Handler
             \/ Leaks \/ Stats \/ Close \/ ExecClose
    BY <2>2, StepsBehind, ArgsBehind, ArgsBeside
  <2>3. CASE Backtrace
    <3>1. Behind
      BY <2>3 DEF Backtrace, Goes, Says, uiVars, Behind
    <3> QED
      BY <2>3, <3>1, ArgsBehind DEF Backtrace, uiVars
  <2>4. CASE LogBegins \/ LogWrites \/ LogEnds \/ MainReturns \/ Target \/ UNCHANGED vars
    <3>1. Beside
      BY <2>4 DEF LogBegins, LogWrites, LogEnds, MainReturns, Target, vars, uiVars, Beside
    <3> QED
      BY <3>1, ArgsBeside
  <2> QED
    BY <2>1, <2>2, <2>3, <2>4 DEF Next, Main
<1>3. ArgsInv => ArgsAsGiven
  BY DEF ArgsInv
<1> QED
  BY <1>1, <1>2, <1>3, PTL DEF Spec
=============================================================================
