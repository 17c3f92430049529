--------------------------------- MODULE Shell ---------------------------------
(* The three shells of the repository: MyShell (plain commands),                *)
(* redirection/MyShell (with < > >>) and pipe_t/MyShell (with pipelines too;    *)
(* modelled with the parenthesis that line 177 lacks).  A pipeline is built from *)
(* its last command backwards: the process of command s makes the pipe it reads *)
(* from, forks the process of command s-1, and executes its own program when    *)
(* that one has ended.  Programs are external: they write, copy, or are missing. *)
(* The shell runs at a terminal, so its stdout is line buffered in its children  *)
(* too: the trace text Pipe_Process prints goes to the pipe before the program's.*)
EXTENDS Naturals, Sequences, FiniteSets

CONSTANTS Lines,     \* what the user may type: commands with their redirection
          MaxStages,
          PipeCap    \* what a pipe holds beside the trace text

Redirs == {"none", "in", "out", "append"}

\* A source writes as much as a pipe holds, a flood more; a filter copies its input
\* until it ends; missing cannot be executed; empty is a command of no words.
Programs == {"source", "flood", "filter", "missing", "cd", "empty"}
Output(prog) == CASE prog = "source" -> PipeCap [] prog = "flood" -> PipeCap + 1 [] OTHER -> 0

ShellAssumption ==
  /\ Lines \subseteq Seq([prog : Programs, redir : Redirs])
  /\ \A l \in Lines : Len(l) \in 1 .. MaxStages
  /\ MaxStages \in Nat /\ PipeCap \in Nat \ {0}
ASSUME ShellAssumption

Stages == 1 .. MaxStages

VARIABLES version,   \* which of the three shells this is
          shell,     \* where its main loop is
          cmd,       \* the commands as the shell understands them
          rdOption,  \* rd_option and filename, in the main process
          stage,     \* the process of each command of a pipeline
          opt,       \* rd_option and filename in that process
          writers,   \* pipe s leads from command s to s+1: who holds its write end
          piped,     \* what it holds
          todo       \* what each program still has to write

shellVars == <<version, shell, cmd, rdOption, stage, opt, writers, piped, todo>>

Last == Len(cmd)
ToPipe(s) == s < Last /\ opt[s] \notin {"out", "append"}
FromPipe(s) == s > 1 /\ opt[s] # "in"

ShellInit == /\ version \in {"plain", "redir", "pipe"}
             /\ shell = "off" /\ cmd = <<>> /\ rdOption = "none"
             /\ stage = [s \in Stages |-> "none"]
             /\ opt = [s \in Stages |-> "none"]
             /\ writers = [s \in Stages |-> {}]
             /\ piped = [s \in Stages |-> 0]
             /\ todo = [s \in Stages |-> 0]

ShellRun == /\ shell = "off" /\ shell' = "prompt"
            /\ UNCHANGED <<version, cmd, rdOption, stage, opt, writers, piped, todo>>

\* The user types a line; rd_option is reset first.
ReadLine == /\ shell = "prompt" /\ shell' = "parse"
            /\ cmd' \in Lines
            /\ rdOption' = "none"
            /\ UNCHANGED <<version, stage, opt, writers, piped, todo>>

\* Redir_Check: r is the first redirection of the text, which ends there.
RedirCheck(l, r) == \/ r = "none" /\ \A s \in DOMAIN l : l[s].redir = "none"
                    \/ \E s \in DOMAIN l : /\ r = l[s].redir /\ r # "none"
                                           /\ \A p \in 1 .. s - 1 : l[p].redir = "none"

\* A single command: cd is done in the shell, an empty line kills it (strcmp of a
\* null pointer), all else is forked with the redirection found.
Single(prog, redir) ==
  /\ rdOption' = IF redir = "none" THEN rdOption ELSE redir
  /\ cmd' = <<[prog |-> prog, redir |-> redir]>>
  /\ shell' = CASE prog = "empty" -> "dead" [] prog = "cd" -> "prompt" [] OTHER -> "wait"
  /\ IF shell' = "wait" THEN /\ stage' = [stage EXCEPT ![1] = "exec"]
                             /\ opt' = [opt EXCEPT ![1] = rdOption']
                        ELSE UNCHANGED <<stage, opt>>
  /\ UNCHANGED <<version, writers, piped, todo>>

PlainCommand == /\ version = "plain" /\ shell = "parse"
                /\ Single(cmd[1].prog, "none")

RedirCommand == /\ version = "redir" /\ shell = "parse"
                /\ \E r \in Redirs : RedirCheck(cmd, r) /\ Single(cmd[1].prog, r)

\* main of the pipeline shell: a line without | is a single command, else a child
\* is forked for the whole pipeline.
PipeCommand == /\ version = "pipe" /\ shell = "parse"
               /\ \/ Last = 1 /\ Single(cmd[1].prog, cmd[1].redir)
                  \/ /\ Last > 1 /\ shell' = "wait"
                     /\ stage' = [stage EXCEPT ![Last] = "setup"]
                     /\ opt' = [opt EXCEPT ![Last] = rdOption]
                     /\ UNCHANGED <<version, cmd, rdOption, writers, piped, todo>>

-------------------------------------------------------------------------------
(* The process of command s *)

\* Mutant of Analysis: Pipe_Process does not reset what the later command has set.
AnalysisKeeps(s) == [opt EXCEPT ![s] = IF cmd[s].redir = "none" THEN @ ELSE cmd[s].redir]

\* Command_Analysis of one command of the pipeline, after the reset.
Analysis(s) == [opt EXCEPT ![s] = cmd[s].redir]

\* The new process prints a trace text, into its pipe.
Traced(s) == piped' = IF stage'[s] = "wait" THEN [piped EXCEPT ![s - 1] = 1] ELSE piped

\* Mutant of PipeProcess: no process keeps the write end of the pipe it reads.
PipeProcessCloses(s) ==
  /\ stage[s] = "setup"
  /\ LET o == Analysis(s)
     IN  IF s = 1
           THEN /\ stage' = [stage EXCEPT ![s] = "exec"]
                /\ opt' = o
                /\ UNCHANGED writers
           ELSE /\ stage' = [stage EXCEPT ![s] = "wait", ![s - 1] = "setup"]
                /\ opt' = [o EXCEPT ![s - 1] = o[s]]
                /\ writers' = [r \in Stages |-> IF r = s - 1 THEN {s - 1}
                                                ELSE IF s \in writers[r] THEN writers[r] \cup {s - 1}
                                                ELSE writers[r]]
  /\ Traced(s)
  /\ UNCHANGED <<version, shell, cmd, rdOption, todo>>

\* Mutant of PipeProcess: every process keeps the write end of the pipe it reads, the
\* last one too.
PipeProcessKeeps(s) ==
  /\ stage[s] = "setup"
  /\ stage' = IF s = 1 THEN [stage EXCEPT ![s] = "exec"]
                       ELSE [stage EXCEPT ![s] = "wait", ![s - 1] = "setup"]
  /\ opt' = [r \in Stages |-> IF r \in {s - 1, s} THEN cmd[s].redir ELSE opt[r]]
  /\ writers' = [r \in Stages |-> IF r = s - 1 THEN {s - 1, s}
                                  ELSE IF s \in writers[r] THEN writers[r] \cup {s - 1}
                                  ELSE writers[r]]
  /\ Traced(s)
  /\ UNCHANGED <<version, shell, cmd, rdOption, todo>>

\* Pipe_Process: the first command goes on to execute its program; another makes a
\* pipe, forks its predecessor, which inherits all write ends, and waits for it.
\* Only the last command closes the write end of the pipe it reads from.
PipeProcess(s) ==
  /\ stage[s] = "setup"
  /\ LET o == Analysis(s)
     IN  IF cmd[s].prog = "empty"
           THEN /\ stage' = [stage EXCEPT ![s] = "zombie"]
                /\ writers' = [r \in Stages |-> writers[r] \ {s}]
                /\ UNCHANGED opt
         ELSE IF s = 1
           THEN /\ stage' = [stage EXCEPT ![s] = "exec"]
                /\ opt' = o
                /\ UNCHANGED writers
           ELSE /\ stage' = [stage EXCEPT ![s] = "wait", ![s - 1] = "setup"]
                /\ opt' = [o EXCEPT ![s - 1] = o[s]]
                /\ writers' = [r \in Stages |->
                                 IF r = s - 1 THEN {s - 1} \cup (IF s = Last THEN {} ELSE {s})
                                 ELSE IF s \in writers[r] THEN writers[r] \cup {s - 1}
                                 ELSE writers[r]]
  /\ Traced(s)
  /\ UNCHANGED <<version, shell, cmd, rdOption, todo>>

\* Mutant of Reap: the predecessor is not waited for.
ReapEarly(s) == /\ stage[s] = "wait" /\ stage[s - 1] = "zombie"
                /\ stage' = [stage EXCEPT ![s] = "exec"]
                /\ UNCHANGED <<version, shell, cmd, rdOption, opt, writers, piped, todo>>

\* waitpid returns: now this command's program may start.
Reap(s) == /\ stage[s] = "wait" /\ stage[s - 1] = "zombie"
           /\ stage' = [stage EXCEPT ![s] = "exec", ![s - 1] = "none"]
           /\ UNCHANGED <<version, shell, cmd, rdOption, opt, writers, piped, todo>>

\* The process ends: its descriptors are closed.
End(s) == /\ stage' = [stage EXCEPT ![s] = "zombie"]
          /\ writers' = [r \in Stages |-> writers[r] \ {s}]
          /\ UNCHANGED <<version, shell, cmd, rdOption, opt>>

\* Child_Process: the redirection, whose file may fail to open, and the program.
\* When either fails the process exits.
ChildProcess(s) ==
  /\ stage[s] = "exec"
  /\ \/ /\ opt[s] # "none" \/ cmd[s].prog \in {"missing", "cd", "empty"}
        /\ End(s) /\ UNCHANGED <<piped, todo>>
     \/ /\ cmd[s].prog \in {"source", "flood", "filter"}
        /\ stage' = [stage EXCEPT ![s] = "run"]
        /\ todo' = [todo EXCEPT ![s] = Output(cmd[s].prog)]
        /\ UNCHANGED <<version, shell, cmd, rdOption, opt, writers, piped>>

\* The program writes: to the pipe if there is room, or to the terminal or a file.
ProgramWrites(s) == /\ stage[s] = "run" /\ todo[s] > 0
                    /\ ToPipe(s) => piped[s] <= PipeCap
                    /\ todo' = [todo EXCEPT ![s] = @ - 1]
                    /\ piped' = IF ToPipe(s) THEN [piped EXCEPT ![s] = @ + 1] ELSE piped
                    /\ UNCHANGED <<version, shell, cmd, rdOption, stage, opt, writers>>

ProgramReads(s) == /\ stage[s] = "run" /\ cmd[s].prog = "filter" /\ todo[s] = 0
                   /\ FromPipe(s) /\ piped[s - 1] > 0
                   /\ piped' = [piped EXCEPT ![s - 1] = @ - 1]
                   /\ todo' = [todo EXCEPT ![s] = 1]
                   /\ UNCHANGED <<version, shell, cmd, rdOption, stage, opt, writers>>

\* A source ends when it has written all, a filter at the end of its input.
ProgramEnds(s) == /\ stage[s] = "run" /\ todo[s] = 0
                  /\ cmd[s].prog = "filter" /\ FromPipe(s) =>
                       piped[s - 1] = 0 /\ writers[s - 1] = {}
                  /\ End(s)
                  /\ UNCHANGED <<piped, todo>>

StageStep(s) == \/ PipeProcess(s) \/ Reap(s) \/ ChildProcess(s)
                \/ ProgramWrites(s) \/ ProgramReads(s) \/ ProgramEnds(s)

\* The shell reaps the command, or the last one of the pipeline.
ShellWait == /\ shell = "wait" /\ stage[Last] = "zombie"
             /\ shell' = "prompt"
             /\ cmd' = <<>>
             /\ stage' = [stage EXCEPT ![Last] = "none"]
             /\ opt' = [s \in Stages |-> "none"]
             /\ writers' = [s \in Stages |-> {}]
             /\ piped' = [s \in Stages |-> 0]
             /\ todo' = [s \in Stages |-> 0]
             /\ UNCHANGED <<version, rdOption>>

ShellStep == PlainCommand \/ RedirCommand \/ PipeCommand \/ ShellWait

ShellNext == ShellRun \/ ReadLine \/ ShellStep \/ \E s \in Stages : StageStep(s)

\* Processes that are not blocked run; the user need not type.
ShellFair == WF_shellVars(ShellStep) /\ \A s \in Stages : WF_shellVars(StageStep(s))

ShellSpec == ShellInit /\ [][ShellNext]_shellVars /\ ShellFair

-------------------------------------------------------------------------------
\* Every variable has its type.
ShellTypeOK ==
  /\ version \in {"plain", "redir", "pipe"}
  /\ shell \in {"off", "prompt", "parse", "wait", "dead"}
  /\ cmd \in Seq([prog : Programs, redir : Redirs])
  /\ rdOption \in Redirs
  /\ stage \in [Stages -> {"none", "setup", "wait", "exec", "run", "zombie"}]
  /\ opt \in [Stages -> Redirs]
  /\ writers \in [Stages -> SUBSET Stages]
  /\ \A s \in Stages : s >= Last => writers[s] = {}
  /\ piped \in [Stages -> 0 .. PipeCap + 1] /\ todo \in [Stages -> Nat]

\* A program runs with the redirection written at its own command, though rd_option
\* and filename are global and every process inherits those of the command after it
\* (pipe_t/MyShell/myshell.c:236-237, redirection/MyShell/myshell.c:98-99).
RedirectsItsOwn == \A s \in Stages : stage[s] = "run" => opt[s] = cmd[s].redir

\* The commands of a pipeline run one after the other: when a program starts, all
\* commands before it have ended and been reaped (:280), and no process is left
\* behind when the prompt comes back (:332, :345).
NobodyLeftBehind ==
  /\ \A s \in Stages : stage[s] \in {"exec", "run"} => \A r \in 1 .. s - 1 : stage[r] = "none"
  /\ shell = "prompt" => \A s \in Stages : stage[s] = "none"

\* The safety of the shells: every process at its place in the pipeline, with the
\* redirection of its own command and of no other.
ShellSafe == ShellTypeOK /\ RedirectsItsOwn /\ NobodyLeftBehind

\* A command that keeps its pipeline from ending: one that fills its pipe while its
\* reader still waits for it to end, or one in the middle that reads a pipe whose
\* write end it holds itself.
Endless(l, s) == /\ s < Len(l)
                 /\ \/ Output(l[s].prog) > PipeCap /\ l[s].redir \notin {"out", "append"}
                    \/ l[s].prog = "filter" /\ l[s].redir # "in" /\ s > 1

\* The prompt comes back unless a command of the pipeline is endless (:262-281).
PromptReturns ==
  shell = "wait" /\ (\A s \in DOMAIN cmd : ~ Endless(cmd, s)) ~> shell = "prompt"

\* It does not come back when one is, and gets to run.
EndlessNeverReturns ==
  [][(\E s \in DOMAIN cmd : /\ Endless(cmd, s) /\ cmd[s].redir = "none"
                            /\ \A r \in s + 1 .. Last : cmd[r].prog # "empty")
       => ~(shell = "wait" /\ shell' = "prompt")]_shellVars

\* Whether the prompt comes back is decided by the commands of the line alone, however
\* their processes are scheduled.
PromptReturnsUnlessEndless == PromptReturns /\ EndlessNeverReturns
===============================================================================
