-------------------------------- MODULE Shell --------------------------------
(***************************************************************************)
(* The shell (shell/shell.c) and the processes it starts: it opens the     *)
(* files of a command, creates a process for it, hands the descriptors     *)
(* over, and for a command in the foreground waits for the message that    *)
(* kill sends to the parent of a process that ends.  A process that ends   *)
(* sends first and closes its three descriptors after that, the last two   *)
(* of which are one; the shell has its priority and may run in between.    *)
(* What a command line is made of (lexan) is left out.                     *)
(*                                                                         *)
(* ShellCareless says what the shell leaves to chance:                     *)
(*   "crowded"  a command in the background ends when the one in the       *)
(*              foreground is about to: the shell has one message, the     *)
(*              second is refused, and it waits for ever                   *)
(*   "twice"    a descriptor is opened between its two closes: the second  *)
(*              close takes it from its new owner                          *)
(*   "leak"     the output file cannot be opened or the process not be     *)
(*              created: what was opened before stays open                 *)
(***************************************************************************)
EXTENDS Naturals, Sequences, FiniteSets

CONSTANTS Cmd,          \* process ids for commands
          Desc,         \* descriptors of files
          Console,
          NoCmd,
          ShellCareless

ASSUME ShellAssumption ==
    /\ Console \notin Desc /\ NoCmd \notin Cmd
    /\ {"unopened", "shell"} \cap Cmd = {} /\ IsFiniteSet(Desc)
    /\ ShellCareless \subseteq {"crowded", "twice", "leak"}

VARIABLES child,      \* the command the shell waits for, or NoCmd
          shmsg,      \* the shell's message
          cmd,        \* the commands
          opened      \* descriptors of files that are open: who has each

shellvars == <<child, shmsg, cmd, opened>>

NoProcess == [state |-> "free"]
Unopened == "unopened"

ShellInit ==
    /\ child = NoCmd /\ shmsg = NoCmd
    /\ cmd = [c \in Cmd |-> NoProcess]
    /\ opened = [d \in Desc |-> Unopened]

Unused == {d \in Desc : opened[d] = Unopened}

\* What a command that ends will close although it has closed it already.
ClosedAgain ==
    {d \in Unused : \E c \in Cmd :
        cmd[c].state = "ends" /\ \E i \in DOMAIN cmd[c].close : cmd[c].close[i] = d}

-----------------------------------------------------------------------------
\* The redirections of a command: for each a descriptor, or the console.
Redirected(file, d) == IF file THEN d \in Unused ELSE d = Console

\* A command line that is well formed, of a command that is no builtin.  The
\* shell forgets its message before it lets the process run.
Command(backgnd, infile, outfile) ==
    /\ child = NoCmd
    /\ \E c \in Cmd, stdinput, stdoutput \in Desc \cup {Console} :
          /\ cmd[c] = NoProcess
          /\ Redirected(infile, stdinput) /\ Redirected(outfile, stdoutput)
          /\ stdinput = stdoutput => stdinput = Console
          /\ "twice" \in ShellCareless \/ {stdinput, stdoutput} \cap ClosedAgain = {}
          /\ cmd' = [cmd EXCEPT ![c] = [state |-> "runs", backgnd |-> backgnd,
                                        prdesc |-> <<stdinput, stdoutput, stdoutput>>]]
          /\ opened' = [d \in Desc |-> IF d \in {stdinput, stdoutput} THEN c ELSE opened[d]]
          /\ shmsg'  = NoCmd
          /\ child'  = IF backgnd THEN NoCmd ELSE c

\* The number of files that are opened before a command is given up: the one
\* for input if there is none for output, both if there is no process.
GivenUpWith(infile, outfile) ==
    {n \in 0 .. 2 :
        \/ n = 0 /\ (infile \/ outfile) /\ Unused = {}
        \/ n = 1 /\ infile /\ outfile /\ Cardinality(Unused) = 1
        \/ /\ n = (IF infile THEN 1 ELSE 0) + (IF outfile THEN 1 ELSE 0)
           /\ n <= Cardinality(Unused) /\ \A c \in Cmd : cmd[c] # NoProcess}

CommandFails(infile, outfile) ==
    /\ child = NoCmd
    /\ \E n \in GivenUpWith(infile, outfile) :
          /\ n = 0 \/ "leak" \in ShellCareless
          /\ \E left \in SUBSET Unused :
                /\ Cardinality(left) = n
                /\ opened' = [d \in Desc |-> IF d \in left THEN "shell" ELSE opened[d]]
    /\ UNCHANGED <<child, shmsg, cmd>>

\* Mutant of WaitedFor: any message ends the wait.
WaitedForAny(msg) == TRUE

WaitedFor(msg) == msg = child

ShellReceives ==
    /\ child # NoCmd /\ shmsg # NoCmd
    /\ child' = IF WaitedFor(shmsg) THEN NoCmd ELSE child
    /\ shmsg' = NoCmd
    /\ UNCHANGED <<cmd, opened>>

-----------------------------------------------------------------------------
\* A command ends or is killed: kill sends its id to the shell, which keeps
\* the message it has, if any; then there are the descriptors to be closed.
CommandEnds(c) ==
    /\ cmd[c].state = "runs"
    /\ shmsg = NoCmd \/ c # child \/ "crowded" \in ShellCareless
    /\ shmsg' = IF shmsg = NoCmd THEN c ELSE shmsg
    /\ cmd'   = [cmd EXCEPT ![c] = [state |-> "ends", close |-> @.prdesc]]
    /\ UNCHANGED <<child, opened>>

\* close of a descriptor: whoever has it.
CommandCloses(c) ==
    /\ cmd[c].state = "ends"
    /\ LET d == cmd[c].close[1]
       IN  opened' = [e \in Desc |-> IF e = d THEN Unopened ELSE opened[e]]
    /\ cmd' = [cmd EXCEPT ![c] = IF Len(@.close) = 1 THEN NoProcess
                                 ELSE [state |-> "ends", close |-> Tail(@.close)]]
    /\ UNCHANGED <<child, shmsg>>

ShellNext ==
    \/ \E backgnd, infile, outfile \in BOOLEAN : Command(backgnd, infile, outfile)
    \/ \E infile, outfile \in BOOLEAN : CommandFails(infile, outfile)
    \/ ShellReceives
    \/ \E c \in Cmd : CommandEnds(c) \/ CommandCloses(c)

-----------------------------------------------------------------------------
\* The shell waits for a command only while that runs or its message is there,
\* and prompts for the next only when it has ended; and a file that a command
\* has been given stays open until the command closes it, while no other is
\* left open: shell.c:427 hands one descriptor over twice, and kill closes both.
ForegroundReturns ==
    /\ child # NoCmd => cmd[child].state = "runs" \/ shmsg = child
    /\ child = NoCmd => \A c \in Cmd : cmd[c].state = "runs" => cmd[c].backgnd
    /\ \A c \in Cmd : cmd[c].state = "runs" =>
          \A i \in 1 .. 3 : cmd[c].prdesc[i] \in Desc => opened[cmd[c].prdesc[i]] = c
    /\ \A d \in Desc : opened[d] \in {Unopened} \cup {c \in Cmd : cmd[c] # NoProcess}
=============================================================================
