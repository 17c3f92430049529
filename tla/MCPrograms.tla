------------------------------- MODULE MCPrograms ------------------------------
(* The small programs of the repository, for TLC: one of them is started.       *)
EXTENDS ProcPool, Shell, Channels, Udp, Lessons, Http, Protocol, TLC

VARIABLE program

\* Numbers in decimal.
MCNumeral == [n \in Numbers |-> ToString(n)]

\* Commands with a redirection alone; in pipelines, every order of the rest.
MCCommand == [prog : Programs, redir : Redirs]
MCPiece == [prog : Programs \ {"cd"}, redir : {"none", "in", "out"}]
MCLines == { <<c>> : c \in MCCommand } \cup { <<c, d>> : c, d \in MCPiece }
             \cup { <<c, d, e>> : c, d, e \in MCPiece }

ProgramsInit == /\ program \in {"pool", "shell", "channel", "udp", "lesson", "http", "calculator"}
                /\ PoolInit /\ ShellInit /\ ChanInit /\ UdpInit /\ LessonsInit /\ HttpInit /\ CalcInit
                /\ program # "shell" => version = "plain"
                /\ program # "channel" => via = "pipe"

ProgramsNext ==
  /\ UNCHANGED program
  /\ IF program = "pool" THEN PoolNext ELSE UNCHANGED poolVars
  /\ IF program = "shell" THEN ShellNext ELSE UNCHANGED shellVars
  /\ IF program = "channel" THEN ChanNext ELSE UNCHANGED chanVars
  /\ IF program = "udp" THEN UdpNext ELSE UNCHANGED udpVars
  /\ IF program = "lesson" THEN LessonsNext ELSE UNCHANGED lessonVars
  /\ IF program = "http" THEN HttpNext ELSE UNCHANGED httpVars
  /\ IF program = "calculator" THEN CalcNext ELSE UNCHANGED calcVars

programVars == <<program, poolVars, shellVars, chanVars, udpVars, lessonVars, httpVars, calcVars>>

\* A program that is not started has no step that could be owed to it.
ProgramsSpec == /\ ProgramsInit /\ [][ProgramsNext]_programVars
                /\ PoolFair /\ ShellFair /\ ChanFair /\ UdpFair /\ LessonsFair
===============================================================================
