--------------------------- MODULE ServicesProofs ---------------------------
(***************************************************************************)
(* The services above processes and semaphores, for every number of        *)
(* processes, descriptors, ports and pools: the shell gets the prompt back *)
(* and its commands keep their files; the mutex of the remote file system  *)
(* comes back after every error and every kill in line, and what goes on   *)
(* under it are operations on files; ports are channels, fit together, and *)
(* whoever is in a call on one that is cleared gets out; a byte of the     *)
(* heap is on the free list or held once; and so is a buffer.              *)
(***************************************************************************)
EXTENDS Shell, RemoteFile, Ports, Pools, SemLineProofs

-----------------------------------------------------------------------------
\* The shell.

ShellSpec == ShellInit /\ [][ShellNext]_shellvars

CmdFiles == Desc \cup {Console}

\* What a command is: not there, running with its three descriptors, or ending
\* with those it still has to close.
Running(backgnd, a, b) ==
    [state |-> "runs", backgnd |-> backgnd, prdesc |-> <<a, b, b>>]
Ending(s) == [state |-> "ends", close |-> s]

CommandOK(r) ==
    \/ r = NoProcess
    \/ \E a, b \in CmdFiles :
          /\ a = b => a = Console
          /\ \/ \E backgnd \in BOOLEAN : r = Running(backgnd, a, b)
             \/ r = Ending(<<a, b, b>>)
             \/ r = Ending(<<b, b>>)
             \/ r = Ending(<<b>>)

\* The descriptors that a command has not closed yet.
NotClosed(r) ==
    CASE r.state = "runs" -> {r.prdesc[1], r.prdesc[2]}
      [] r.state = "ends" /\ Len(r.close) = 3 -> {r.close[1], r.close[2]}
      [] r.state = "ends" /\ Len(r.close) = 2 -> {r.close[1]}
      [] OTHER -> {}

ShellInv ==
    /\ cmd = [c \in Cmd |-> cmd[c]]
    /\ opened \in [Desc -> {Unopened} \cup Cmd]
    /\ \A c \in Cmd : CommandOK(cmd[c])
    /\ \A c \in Cmd, d \in Desc : opened[d] = c <=> d \in NotClosed(cmd[c])
    /\ \A c \in Cmd, d \in Desc : cmd[c] = Ending(<<d>>) => opened[d] = Unopened
    /\ child \in Cmd \cup {NoCmd}
    /\ \A c \in Cmd : child = c => (cmd[c].state = "runs" <=> shmsg # c)
    /\ \A c \in Cmd : cmd[c].state = "runs" => c = child \/ cmd[c].backgnd

\* A command that runs and one that ends, by their fields.
LEMMA CommandForms ==
    ASSUME NEW a, NEW b, NEW backgnd
    PROVE  /\ Running(backgnd, a, b).state = "runs"
           /\ Running(backgnd, a, b).backgnd = backgnd
           /\ Running(backgnd, a, b).prdesc = <<a, b, b>>
           /\ NotClosed(Running(backgnd, a, b)) = {a, b}
           /\ Ending(<<a, b, b>>).state = "ends"
           /\ Ending(<<a, b, b>>).close = <<a, b, b>>
           /\ NotClosed(Ending(<<a, b, b>>)) = {a, b}
           /\ NotClosed(Ending(<<b, b>>)) = {b}
           /\ NotClosed(Ending(<<b>>)) = {}
           /\ NotClosed(NoProcess) = {}
           /\ NoProcess.state = "free"
  BY DEF Running, Ending, NotClosed, NoProcess
\* Every command is in one of its forms, so there are five cases.
LEMMA CommandKinds ==
    ASSUME NEW r, CommandOK(r)
    PROVE  /\ r.state \in {"free", "runs", "ends"}
           /\ r.state = "free" => r = NoProcess
           /\ r.state = "runs" =>
                 \E a, b \in CmdFiles, backgnd \in BOOLEAN :
                     (a = b => a = Console) /\ r = Running(backgnd, a, b)
           /\ r.state = "ends" =>
                 \E a, b \in CmdFiles :
                     /\ a = b => a = Console
                     /\ r \in {Ending(<<a, b, b>>), Ending(<<b, b>>), Ending(<<b>>)}
<1>1. CASE r = NoProcess
  BY <1>1, CommandForms
<1>2. CASE r # NoProcess
  <2>1. PICK a \in CmdFiles, b \in CmdFiles :
           /\ a = b => a = Console
           /\ \/ \E backgnd \in BOOLEAN : r = Running(backgnd, a, b)
              \/ r = Ending(<<a, b, b>>)
              \/ r = Ending(<<b, b>>)
              \/ r = Ending(<<b>>)
    BY <1>2 DEF CommandOK
  <2>2. ASSUME NEW backgnd \in BOOLEAN, r = Running(backgnd, a, b)
        PROVE  r.state = "runs" /\ \E bg \in BOOLEAN : r = Running(bg, a, b)
    <3>1. r.state = "runs"
      BY <2>2 DEF Running
    <3> QED BY <2>2, <3>1, Zenon
  <2>3. ASSUME r \in {Ending(<<a, b, b>>), Ending(<<b, b>>), Ending(<<b>>)}
        PROVE  r.state = "ends"
    BY <2>3 DEF Ending
  <2>4. CASE \E backgnd \in BOOLEAN : r = Running(backgnd, a, b)
    <3>1. r.state = "runs" /\ \E bg \in BOOLEAN : r = Running(bg, a, b)
      BY <2>2, <2>4, Zenon
    <3> QED BY <2>1, <3>1, Zenon
  <2>5. CASE r \in {Ending(<<a, b, b>>), Ending(<<b, b>>), Ending(<<b>>)}
    BY <2>1, <2>3, <2>5, Zenon
  <2> QED BY <2>1, <2>4, <2>5
<1> QED BY <1>1, <1>2

\* At the start there is no command.
LEMMA ShellInitInv ==
    ASSUME ShellInit
    PROVE  ShellInv
<1>1. /\ child = NoCmd /\ shmsg = NoCmd
      /\ cmd = [c \in Cmd |-> NoProcess]
      /\ opened = [d \in Desc |-> Unopened]
  BY DEF ShellInit
<1>2. Unopened \notin Cmd /\ NoCmd \notin Cmd
  BY ShellAssumption DEF Unopened
<1>3. \A c \in Cmd : cmd[c] = NoProcess /\ CommandOK(cmd[c])
  BY <1>1 DEF CommandOK
<1>4. NotClosed(NoProcess) = {} /\ NoProcess.state = "free"
  BY CommandForms
<1>5. \A d : NoProcess # Ending(<<d>>)
  BY <1>4 DEF Ending
<1> QED BY <1>1, <1>2, <1>3, <1>4, <1>5 DEF ShellInv

\* The shell starts a command with the files it has opened.
LEMMA CommandKeeps ==
    ASSUME ShellInv, ShellCareless = {}, NEW backgnd \in BOOLEAN,
           NEW infile \in BOOLEAN, NEW outfile \in BOOLEAN,
           Command(backgnd, infile, outfile)
    PROVE  ShellInv'
<1>1. PICK c \in Cmd, a \in CmdFiles, b \in CmdFiles :
         /\ child = NoCmd
         /\ cmd[c] = NoProcess
         /\ Redirected(infile, a) /\ Redirected(outfile, b)
         /\ a = b => a = Console
         /\ {a, b} \cap ClosedAgain = {}
         /\ cmd' = [cmd EXCEPT ![c] = Running(backgnd, a, b)]
         /\ opened' = [d \in Desc |-> IF d \in {a, b} THEN c ELSE opened[d]]
         /\ shmsg'  = NoCmd
         /\ child'  = IF backgnd THEN NoCmd ELSE c
  BY DEF Command, CmdFiles, Running
<1>2. /\ cmd = [e \in Cmd |-> cmd[e]]
      /\ opened \in [Desc -> {Unopened} \cup Cmd]
      /\ \A e \in Cmd : CommandOK(cmd[e])
      /\ \A e \in Cmd, d \in Desc : opened[d] = e <=> d \in NotClosed(cmd[e])
      /\ \A e \in Cmd, d \in Desc : cmd[e] = Ending(<<d>>) => opened[d] = Unopened
      /\ \A e \in Cmd : cmd[e].state = "runs" => e = child \/ cmd[e].backgnd
  BY DEF ShellInv
<1>3. Unopened \notin Cmd /\ NoCmd \notin Cmd /\ Console \notin Desc
  BY ShellAssumption DEF Unopened
<1>4. /\ cmd' = [e \in Cmd |-> IF e = c THEN Running(backgnd, a, b) ELSE cmd[e]]
      /\ cmd' = [e \in Cmd |-> cmd'[e]]
      /\ cmd'[c] = Running(backgnd, a, b)
      /\ \A e \in Cmd : e # c => cmd'[e] = cmd[e]
  BY <1>1, <1>2
<1>5. \A d \in {a, b} \cap Desc : opened[d] = Unopened
  BY <1>1, <1>3 DEF Redirected, Unused
<1>6. /\ cmd'[c].state = "runs" /\ cmd'[c].backgnd = backgnd
      /\ NotClosed(cmd'[c]) = {a, b}
  <2>1. cmd'[c].state = "runs" /\ cmd'[c].backgnd = backgnd /\ cmd'[c].prdesc = <<a, b, b>>
    BY <1>4 DEF Running
  <2> QED BY <2>1 DEF NotClosed
<1>7. CommandOK(cmd'[c])
  BY <1>1, <1>4 DEF CommandOK
<1>8. \A e \in Cmd, d \in Desc : opened'[d] = e <=> d \in NotClosed(cmd'[e])
  <2> TAKE e \in Cmd, d \in Desc
  <2>1. opened'[d] = IF d \in {a, b} THEN c ELSE opened[d]
    BY <1>1
  <2>2. CASE e = c
    <3>1. d \notin NotClosed(NoProcess)
      BY CommandForms
    <3> QED BY <2>1, <2>2, <3>1, <1>1, <1>2, <1>6
  <2>3. CASE e # c
    BY <2>1, <2>3, <1>2, <1>3, <1>4, <1>5
  <2> QED BY <2>2, <2>3
<1>9. \A e \in Cmd, d \in Desc : cmd'[e] = Ending(<<d>>) => opened'[d] = Unopened
  <2> SUFFICES ASSUME NEW e \in Cmd, NEW d \in Desc, cmd'[e] = Ending(<<d>>)
               PROVE  opened'[d] = Unopened
    OBVIOUS
  <2>1. cmd'[e].state = "ends" /\ cmd'[e].close = <<d>>
    BY DEF Ending
  <2>2. e # c /\ cmd[e] = Ending(<<d>>)
    BY <2>1, <1>4, <1>6
  <2>3. opened[d] = Unopened
    BY <2>2, <1>2
  <2>4. cmd[e].state = "ends" /\ 1 \in DOMAIN cmd[e].close /\ cmd[e].close[1] = d
    BY <2>2 DEF Ending
  <2>5. d \in ClosedAgain
    BY <2>3, <2>4 DEF ClosedAgain, Unused
  <2> QED BY <2>3, <2>5, <1>1
<1>10. opened' \in [Desc -> {Unopened} \cup Cmd]
  BY <1>1, <1>2
<1>11. \A e \in Cmd : CommandOK(cmd'[e])
  BY <1>2, <1>4, <1>7
<1>12. \A e \in Cmd : child' = e => (cmd'[e].state = "runs" <=> shmsg' # e)
  BY <1>1, <1>3, <1>6
<1>13. \A e \in Cmd : cmd'[e].state = "runs" => e = child' \/ cmd'[e].backgnd
  BY <1>1, <1>2, <1>3, <1>4, <1>6
<1>14. child' \in Cmd \cup {NoCmd}
  BY <1>1
<1> QED BY <1>4, <1>8, <1>9, <1>10, <1>11, <1>12, <1>13, <1>14 DEF ShellInv

\* A line that fails closes what it has opened.
LEMMA CommandFailsKeeps ==
    ASSUME ShellInv, ShellCareless = {},
           NEW infile \in BOOLEAN, NEW outfile \in BOOLEAN,
           CommandFails(infile, outfile)
    PROVE  ShellInv'
<1>1. PICK left \in SUBSET Unused :
         /\ Cardinality(left) = 0
         /\ opened' = [d \in Desc |-> IF d \in left THEN "shell" ELSE opened[d]]
         /\ UNCHANGED <<child, shmsg, cmd>>
  BY DEF CommandFails
<1>2. IsFiniteSet(left)
  <2>1. left \in SUBSET Desc
    BY DEF Unused
  <2> QED BY <2>1, FS_Subset, ShellAssumption
<1>3. left = {}
  BY <1>1, <1>2, FS_EmptySet
<1>4. opened' = opened
  BY <1>1, <1>3 DEF ShellInv
<1> QED BY <1>1, <1>4 DEF ShellInv

\* The shell gets the message of a command.
LEMMA ShellReceivesKeeps ==
    ASSUME ShellInv, ShellReceives
    PROVE  ShellInv'
<1>1. /\ child # NoCmd /\ shmsg # NoCmd
      /\ child' = IF shmsg = child THEN NoCmd ELSE child
      /\ shmsg' = NoCmd
      /\ cmd' = cmd /\ opened' = opened
  BY DEF ShellReceives, WaitedFor
<1>2. NoCmd \notin Cmd
  BY ShellAssumption
<1> QED BY <1>1, <1>2 DEF ShellInv

\* A command that ends keeps its descriptors until it closes them.
LEMMA CommandEndsKeeps ==
    ASSUME ShellInv, ShellCareless = {}, NEW c \in Cmd, CommandEnds(c)
    PROVE  ShellInv'
<1>1. /\ cmd[c].state = "runs"
      /\ shmsg = NoCmd \/ c # child
      /\ shmsg' = IF shmsg = NoCmd THEN c ELSE shmsg
      /\ cmd' = [cmd EXCEPT ![c] = Ending(cmd[c].prdesc)]
      /\ child' = child /\ opened' = opened
  BY DEF CommandEnds, Ending
<1>2. PICK a \in CmdFiles, b \in CmdFiles, backgnd \in BOOLEAN :
         (a = b => a = Console) /\ cmd[c] = Running(backgnd, a, b)
  BY <1>1, CommandKinds DEF ShellInv
<1>3. cmd[c].prdesc = <<a, b, b>>
  BY <1>2 DEF Running
<1>4. /\ cmd' = [e \in Cmd |-> cmd'[e]]
      /\ cmd'[c] = Ending(<<a, b, b>>)
      /\ \A e \in Cmd : e # c => cmd'[e] = cmd[e]
  BY <1>1, <1>3 DEF ShellInv
<1>5. /\ cmd'[c].state = "ends" /\ CommandOK(cmd'[c])
      /\ NotClosed(cmd'[c]) = NotClosed(cmd[c])
  <2>1. NotClosed(cmd[c]) = {a, b}
    BY <1>1, <1>3 DEF NotClosed
  <2>2. cmd'[c].state = "ends" /\ cmd'[c].close = <<a, b, b>>
    BY <1>4 DEF Ending
  <2>3. NotClosed(cmd'[c]) = {a, b}
    BY <2>2 DEF NotClosed
  <2>4. CommandOK(cmd'[c])
    BY <1>2, <1>4 DEF CommandOK
  <2> QED BY <2>1, <2>2, <2>3, <2>4
<1>6. \A d : cmd'[c] # Ending(<<d>>)
  BY <1>4 DEF Ending
<1>7. NoCmd \notin Cmd
  BY ShellAssumption
<1>8. \A e \in Cmd : child' = e => (cmd'[e].state = "runs" <=> shmsg' # e)
  BY <1>1, <1>4, <1>5, <1>7 DEF ShellInv
<1> QED BY <1>1, <1>4, <1>5, <1>6, <1>8 DEF ShellInv

\* The second close of the descriptor that was handed over twice finds it
\* unopened: nobody has been given it in between.
LEMMA CommandClosesKeeps ==
    ASSUME ShellInv, NEW c \in Cmd, CommandCloses(c)
    PROVE  ShellInv'
<1> DEFINE d == cmd[c].close[1]
           r == IF Len(cmd[c].close) = 1 THEN NoProcess ELSE Ending(Tail(cmd[c].close))
<1>1. /\ cmd[c].state = "ends"
      /\ opened' = [e \in Desc |-> IF e = d THEN Unopened ELSE opened[e]]
      /\ child' = child /\ shmsg' = shmsg
      /\ cmd' = [cmd EXCEPT ![c] = r]
  BY DEF CommandCloses, Ending
<1>2. PICK a \in CmdFiles, b \in CmdFiles :
         /\ a = b => a = Console
         /\ cmd[c] \in {Ending(<<a, b, b>>), Ending(<<b, b>>), Ending(<<b>>)}
  BY <1>1, CommandKinds DEF ShellInv
<1>3. /\ cmd' = [e \in Cmd |-> cmd'[e]]
      /\ cmd'[c] = r
      /\ \A e \in Cmd : e # c => cmd'[e] = cmd[e]
  <2> HIDE DEF r
  <2>1. cmd = [e \in Cmd |-> cmd[e]]
    BY DEF ShellInv
  <2> QED BY <1>1, <2>1
<1>4. /\ CommandOK(r) /\ r.state # "runs"
      /\ \A e \in Desc : e \in NotClosed(r) <=> e # d /\ e \in NotClosed(cmd[c])
      /\ \A e \in Desc : r = Ending(<<e>>) => e = d
      /\ d \in Desc => d \in NotClosed(cmd[c]) \/ opened[d] = Unopened
  <2>0. Console \notin Desc
    BY ShellAssumption
  <2>1. CASE cmd[c] = Ending(<<a, b, b>>)
    <3>1. r = Ending(<<b, b>>) /\ d = a /\ NotClosed(cmd[c]) = {a, b}
      BY <2>1 DEF Ending, NotClosed
    <3> HIDE DEF r, d
    <3>2. NotClosed(r) = {b} /\ r.state = "ends" /\ Len(r.close) = 2
      <4>1. r.state = "ends" /\ r.close = <<b, b>>
        BY <3>1 DEF Ending
      <4> QED BY <4>1 DEF NotClosed
    <3>3. \A e \in Desc : r # Ending(<<e>>)
      BY <3>2 DEF Ending
    <3>4. CommandOK(r)
      BY <1>2, <3>1 DEF CommandOK
    <3> QED BY <1>2, <2>0, <3>1, <3>2, <3>3, <3>4
  <2>2. CASE cmd[c] = Ending(<<b, b>>)
    <3>1. r = Ending(<<b>>) /\ d = b /\ NotClosed(cmd[c]) = {b}
      BY <2>2 DEF Ending, NotClosed
    <3> HIDE DEF r, d
    <3>2. NotClosed(r) = {} /\ r.state = "ends"
      <4>1. r.state = "ends" /\ r.close = <<b>>
        BY <3>1 DEF Ending
      <4> QED BY <4>1 DEF NotClosed
    <3>3. \A e \in Desc : r = Ending(<<e>>) => e = b
      BY <3>1 DEF Ending
    <3>4. CommandOK(r)
      BY <1>2, <3>1 DEF CommandOK
    <3> QED BY <1>2, <2>0, <3>1, <3>2, <3>3, <3>4
  <2>3. CASE cmd[c] = Ending(<<b>>)
    <3>1. r = NoProcess /\ d = b
      BY <2>3 DEF Ending
    <3> HIDE DEF r, d
    <3>2. NotClosed(r) = {} /\ r.state = "free" /\ NotClosed(cmd[c]) = {}
      BY <2>3, <3>1, CommandForms
    <3>3. \A e \in Desc : r # Ending(<<e>>)
      BY <3>2 DEF Ending
    <3>4. CommandOK(r)
      BY <3>1 DEF CommandOK
    <3>5. d \in Desc => opened[d] = Unopened
      BY <2>3, <3>1 DEF ShellInv
    <3> QED BY <3>1, <3>2, <3>3, <3>4, <3>5
  <2> QED BY <1>2, <2>1, <2>2, <2>3
<1> HIDE DEF r, d
<1>5. Unopened \notin Cmd
  BY ShellAssumption DEF Unopened
<1>6. \A e \in Cmd, f \in Desc : opened'[f] = e <=> f \in NotClosed(cmd'[e])
  <2> TAKE e \in Cmd, f \in Desc
  <2>1. opened[f] = e <=> f \in NotClosed(cmd[e])
    BY DEF ShellInv
  <2>2. opened'[f] = IF f = d THEN Unopened ELSE opened[f]
    BY <1>1
  <2>3. CASE e = c
    BY <2>1, <2>2, <2>3, <1>3, <1>4, <1>5
  <2>4. CASE e # c /\ f = d
    <3>1. d \in NotClosed(cmd[c]) => opened[d] = c
      BY <2>4 DEF ShellInv
    <3> QED BY <2>1, <2>2, <2>4, <3>1, <1>3, <1>4, <1>5
  <2>5. CASE e # c /\ f # d
    BY <2>1, <2>2, <2>5, <1>3
  <2> QED BY <2>3, <2>4, <2>5
<1>7. \A e \in Cmd, f \in Desc : cmd'[e] = Ending(<<f>>) => opened'[f] = Unopened
  <2> TAKE e \in Cmd, f \in Desc
  <2>1. opened'[f] = IF f = d THEN Unopened ELSE opened[f]
    BY <1>1
  <2>2. cmd[e] = Ending(<<f>>) => opened[f] = Unopened
    BY DEF ShellInv
  <2> QED BY <1>3, <1>4, <2>1, <2>2
<1>8. opened' \in [Desc -> {Unopened} \cup Cmd]
  BY <1>1 DEF ShellInv
<1>9. \A e \in Cmd : CommandOK(cmd'[e])
  BY <1>3, <1>4 DEF ShellInv
<1>10. \A e \in Cmd : cmd'[e].state = "runs" <=> cmd[e].state = "runs"
  BY <1>1, <1>3, <1>4
<1>11. \A e \in Cmd : cmd'[e].state = "runs" => cmd'[e] = cmd[e]
  BY <1>3, <1>4
<1>12. /\ \A e \in Cmd : child' = e => (cmd'[e].state = "runs" <=> shmsg' # e)
       /\ \A e \in Cmd : cmd'[e].state = "runs" => e = child' \/ cmd'[e].backgnd
  BY <1>1, <1>10, <1>11 DEF ShellInv
<1> QED BY <1>1, <1>3, <1>6, <1>7, <1>8, <1>9, <1>12 DEF ShellInv

\* The invariant says what is wanted of the shell.
LEMMA ShellInvGives ==
    ASSUME ShellInv
    PROVE  ForegroundReturns
<1>1. child # NoCmd => cmd[child].state = "runs" \/ shmsg = child
  BY DEF ShellInv
<1>2. child = NoCmd => \A c \in Cmd : cmd[c].state = "runs" => cmd[c].backgnd
  BY ShellAssumption DEF ShellInv
<1>3. ASSUME NEW c \in Cmd, cmd[c].state = "runs", NEW i \in 1 .. 3, cmd[c].prdesc[i] \in Desc
      PROVE  opened[cmd[c].prdesc[i]] = c
  <2>1. PICK a \in CmdFiles, b \in CmdFiles, backgnd \in BOOLEAN : cmd[c] = Running(backgnd, a, b)
    BY <1>3, CommandKinds DEF ShellInv
  <2>2. cmd[c].prdesc = <<a, b, b>>
    BY <2>1 DEF Running
  <2>3. cmd[c].prdesc[i] \in {a, b} /\ {a, b} = NotClosed(cmd[c])
    BY <1>3, <2>2 DEF NotClosed
  <2> QED BY <1>3, <2>3 DEF ShellInv
<1>4. ASSUME NEW d \in Desc, opened[d] # Unopened
      PROVE  opened[d] \in Cmd /\ cmd[opened[d]] # NoProcess
  <2>1. opened[d] \in Cmd /\ d \in NotClosed(cmd[opened[d]])
    BY <1>4 DEF ShellInv
  <2>2. NotClosed(NoProcess) = {}
    BY CommandForms
  <2> QED BY <2>1, <2>2
<1> QED BY <1>1, <1>2, <1>3, <1>4 DEF ForegroundReturns

\* The shell waits for a command only while that runs or its message is there,
\* and a file that a command has been given stays open until the command closes
\* it (shell.c:427, kill.c:26-33), if the messages do not crowd, no descriptor
\* is opened between its two closes, and nothing fails half way.
THEOREM ShellPrompts ==
    ASSUME ShellCareless = {}
    PROVE  ShellSpec => []ForegroundReturns
<1>1. ShellInit => ShellInv
  BY ShellInitInv
<1>2. ShellInv /\ [ShellNext]_shellvars => ShellInv'
  <2> SUFFICES ASSUME ShellInv, [ShellNext]_shellvars PROVE ShellInv'
    OBVIOUS
  <2>1. CASE \E backgnd, infile, outfile \in BOOLEAN : Command(backgnd, infile, outfile)
    BY <2>1, CommandKeeps
  <2>2. CASE \E infile, outfile \in BOOLEAN : CommandFails(infile, outfile)
    BY <2>2, CommandFailsKeeps
  <2>3. CASE ShellReceives
    BY <2>3, ShellReceivesKeeps
  <2>4. CASE \E c \in Cmd : CommandEnds(c)
    BY <2>4, CommandEndsKeeps
  <2>5. CASE \E c \in Cmd : CommandCloses(c)
    BY <2>5, CommandClosesKeeps
  <2>6. CASE UNCHANGED shellvars
    BY <2>6 DEF shellvars, ShellInv
  <2> QED BY <2>1, <2>2, <2>3, <2>4, <2>5, <2>6 DEF ShellNext
<1>3. ShellInv => ForegroundReturns
  BY ShellInvGives
<1> QED BY <1>1, <1>2, <1>3, PTL DEF ShellSpec
-----------------------------------------------------------------------------
\* The mutex of the remote file system.

RfSpec == RfInit /\ [][RfNext]_rfilevars

\* Processes in line are in a call; one process holds the mutex, or none if it
\* is free; and only the holder has an exchange with the server.
RfInv ==
    /\ rfcall = [p \in RfProc |-> rfcall[p]]
    /\ SemOK(rf_mutex, RfProc)
    /\ \A p \in InLine(rf_mutex) : rfcall[p] # RfIdle
    /\ rf_mutex.count <= 1
    /\ rf_mutex.count = 1 => \A p \in RfProc : ~Holds(p)
    /\ rf_mutex.count <= 0 => \E h \in RfProc : \A p \in RfProc : Holds(p) <=> p = h
    /\ exch # NoExch =>
          \E h \in RfProc : \E req, seq, tries, effect :
              /\ exch = [pid |-> h, req |-> req, seq |-> seq, tries |-> tries, effect |-> effect]
              /\ Holds(h)

\* At the start the mutex is free.
LEMMA RfInitInv ==
    ASSUME RfInit
    PROVE  RfInv
<1>1. /\ rfcall = [p \in RfProc |-> RfIdle] /\ rf_mutex = NewSem(1) /\ exch = NoExch
  BY DEF RfInit
<1>2. SemOK(rf_mutex, RfProc) /\ InLine(rf_mutex) = {} /\ rf_mutex.count = 1
  BY <1>1, NewSemOK
<1>3. \A p \in RfProc : ~Holds(p)
  BY <1>1 DEF Holds
<1> QED BY <1>1, <1>2, <1>3 DEF RfInv

\* A call takes the mutex or gets in line for it.
LEMMA RfBeginKeeps ==
    ASSUME RfInv, NEW p \in RfProc, NEW c \in RfCalls, RfBegin(p, c)
    PROVE  RfInv'
<1>1. /\ rfcall[p] = RfIdle /\ rfcall' = [rfcall EXCEPT ![p] = c]
      /\ rf_mutex' = SemWait(rf_mutex, p) /\ exch' = exch
  BY DEF RfBegin
<1>2. c # RfIdle
  <2>1. c.op \in {"open", "delete", "trunc", "close", "size", "seek", "read", "write"}
    BY DEF RfCalls
  <2> QED BY <2>1 DEF RfIdle
<1>3. /\ rfcall = [q \in RfProc |-> rfcall[q]]
      /\ SemOK(rf_mutex, RfProc) /\ rf_mutex.count \in Int
      /\ \A q \in InLine(rf_mutex) : rfcall[q] # RfIdle
      /\ rf_mutex.count <= 1
      /\ rf_mutex.count = 1 => \A q \in RfProc : ~Holds(q)
      /\ rf_mutex.count <= 0 => \E h \in RfProc : \A q \in RfProc : Holds(q) <=> q = h
  BY DEF RfInv, SemOK
<1>4. p \notin InLine(rf_mutex) /\ ~Holds(p)
  BY <1>1, <1>3 DEF Holds
<1>5. /\ SemOK(rf_mutex', RfProc) /\ rf_mutex'.count = rf_mutex.count - 1
      /\ InLine(rf_mutex') = IF rf_mutex.count <= 0 THEN InLine(rf_mutex) \cup {p} ELSE {}
  BY <1>1, <1>3, <1>4, SemWaitOK
<1>6. /\ rfcall' = [q \in RfProc |-> rfcall'[q]]
      /\ rfcall'[p] = c
      /\ \A q \in RfProc : q # p => rfcall'[q] = rfcall[q]
  BY <1>1, <1>3
<1>7. InLine(rf_mutex) \subseteq RfProc
  BY <1>3, NobodyInLine
<1>8. \A q \in InLine(rf_mutex') : rfcall'[q] # RfIdle
  BY <1>2, <1>3, <1>5, <1>6, <1>7
<1>9. CASE rf_mutex.count = 1
  <2>1. InLine(rf_mutex) = {} /\ InLine(rf_mutex') = {}
    BY <1>3, <1>5, <1>9, NobodyInLine
  <2>2. \A q \in RfProc : Holds(q)' <=> q = p
    BY <1>2, <1>3, <1>6, <1>9, <2>1 DEF Holds
  <2>3. exch = NoExch
    BY <1>3, <1>9 DEF RfInv
  <2>4. rf_mutex'.count = 0
    BY <1>5, <1>9
  <2> QED BY <1>1, <1>5, <1>6, <1>8, <2>2, <2>3, <2>4 DEF RfInv
<1>10. CASE rf_mutex.count <= 0
  <2>1. InLine(rf_mutex') = InLine(rf_mutex) \cup {p}
    BY <1>5, <1>10
  <2>2. \A q \in RfProc : Holds(q)' <=> Holds(q)
    BY <1>4, <1>6, <2>1 DEF Holds
  <2>3. rf_mutex'.count <= 0 /\ rf_mutex'.count # 1 /\ rf_mutex'.count <= 1
    BY <1>3, <1>5, <1>10
  <2>4. \E h \in RfProc : \A q \in RfProc : Holds(q)' <=> q = h
    BY <1>3, <1>10, <2>2
  <2>5. exch' # NoExch =>
          \E h \in RfProc : \E req, seq, tries, effect :
              /\ exch' = [pid |-> h, req |-> req, seq |-> seq, tries |-> tries, effect |-> effect]
              /\ Holds(h)'
    BY <1>1, <2>2 DEF RfInv
  <2> QED BY <1>5, <1>6, <1>8, <2>3, <2>4, <2>5 DEF RfInv
<1>11. rf_mutex.count = 1 \/ rf_mutex.count <= 0
  BY <1>3
<1> QED BY <1>9, <1>10, <1>11

\* The holder signals the mutex: the first in line holds it now, if there is one.
LEMMA ReturnKeeps ==
    ASSUME RfInv, NEW p \in RfProc, Holds(p), Return(p), exch' = NoExch
    PROVE  RfInv'
<1>1. /\ rf_mutex' = SemSignal(rf_mutex)
      /\ rfcall'   = [rfcall EXCEPT ![p] = RfIdle]
  BY DEF Return
<1>2. /\ rfcall = [q \in RfProc |-> rfcall[q]]
      /\ SemOK(rf_mutex, RfProc) /\ rf_mutex.count \in Int
      /\ \A q \in InLine(rf_mutex) : rfcall[q] # RfIdle
      /\ rf_mutex.count <= 1
      /\ rf_mutex.count = 1 => \A q \in RfProc : ~Holds(q)
      /\ rf_mutex.count <= 0 => \E h \in RfProc : \A q \in RfProc : Holds(q) <=> q = h
  BY DEF RfInv, SemOK
<1>3. rf_mutex.count <= 0 /\ \A q \in RfProc : Holds(q) => q = p
  <2>1. rf_mutex.count <= 0
    BY <1>2
  <2> QED BY <1>2, <2>1
<1>4. /\ SemOK(rf_mutex', RfProc) /\ rf_mutex'.count = rf_mutex.count + 1
      /\ rf_mutex.count >= 0 => InLine(rf_mutex') = InLine(rf_mutex)
      /\ rf_mutex.count < 0 =>
            \E h \in InLine(rf_mutex) : InLine(rf_mutex') = InLine(rf_mutex) \ {h}
  BY <1>1, <1>2, SemSignalOK
<1>5. /\ rfcall' = [q \in RfProc |-> rfcall'[q]]
      /\ rfcall'[p] = RfIdle
      /\ \A q \in RfProc : q # p => rfcall'[q] = rfcall[q]
  BY <1>1, <1>2
<1>6. InLine(rf_mutex) \subseteq RfProc /\ p \notin InLine(rf_mutex)
  BY <1>2, NobodyInLine DEF Holds
<1>7. ~Holds(p)'
  BY <1>5 DEF Holds
<1>8. CASE rf_mutex.count = 0
  <2>1. InLine(rf_mutex') = {} /\ InLine(rf_mutex) = {} /\ rf_mutex'.count = 1
    BY <1>2, <1>4, <1>8, NobodyInLine
  <2>2. \A q \in RfProc : ~Holds(q)'
    BY <1>3, <1>5, <1>7, <2>1 DEF Holds
  <2>3. /\ rf_mutex'.count <= 1 /\ ~(rf_mutex'.count <= 0)
        /\ \A q \in InLine(rf_mutex') : rfcall'[q] # RfIdle
    BY <2>1
  <2> QED BY <1>4, <1>5, <2>2, <2>3 DEF RfInv
<1>9. CASE rf_mutex.count < 0
  <2>1. PICK h \in InLine(rf_mutex) : InLine(rf_mutex') = InLine(rf_mutex) \ {h}
    BY <1>4, <1>9
  <2>2. h \in RfProc /\ h # p /\ rfcall'[h] # RfIdle
    BY <1>2, <1>5, <1>6
  <2>3. Holds(h)'
    BY <2>1, <2>2 DEF Holds
  <2>4. \A q \in RfProc : Holds(q)' => q = h
    <3> SUFFICES ASSUME NEW q \in RfProc, Holds(q)', q # h PROVE FALSE
      OBVIOUS
    <3>1. q # p
      BY <1>7
    <3>2. Holds(q)
      BY <1>5, <2>1, <3>1 DEF Holds
    <3> QED BY <1>3, <3>1, <3>2
  <2>5. rf_mutex'.count <= 0 /\ rf_mutex'.count # 1 /\ rf_mutex'.count <= 1
    BY <1>2, <1>4, <1>9
  <2>6. \A q \in InLine(rf_mutex') : rfcall'[q] # RfIdle
    BY <1>2, <1>5, <1>6, <2>1
  <2> QED BY <1>4, <1>5, <2>2, <2>3, <2>4, <2>5, <2>6 DEF RfInv
<1> QED BY <1>2, <1>3, <1>8, <1>9

\* Whoever has the exchange holds the mutex, and nobody else does.
LEMMA HolderOnly ==
    ASSUME RfInv, NEW p \in RfProc, Holds(p)
    PROVE  /\ \A q \in RfProc : Holds(q) => q = p
           /\ exch # NoExch => exch.pid = p
<1>1. rf_mutex.count \in Int /\ rf_mutex.count <= 1
  BY DEF RfInv, SemOK
<1>2. rf_mutex.count <= 0
  BY <1>1 DEF RfInv
<1>3. \A q \in RfProc : Holds(q) => q = p
  BY <1>2 DEF RfInv
<1>4. exch # NoExch => \E h \in RfProc : exch.pid = h /\ Holds(h)
  BY DEF RfInv
<1> QED BY <1>3, <1>4

\* Whose exchange it is has the mutex.
LEMMA ExchangeHolds ==
    ASSUME RfInv, NEW p \in RfProc, exch.pid = p
    PROVE  exch # NoExch /\ Holds(p)
<1>1. exch # NoExch
  BY RemoteFileAssumption DEF NoExch
<1> QED BY <1>1 DEF RfInv

\* Steps that leave the mutex and the calls alone and keep the exchange with its
\* holder.
LEMMA MutexFrame ==
    ASSUME RfInv, UNCHANGED <<rf_mutex, rfcall>>,
           exch' # NoExch =>
              \E h \in RfProc : \E req, seq, tries, effect :
                 /\ exch' = [pid |-> h, req |-> req, seq |-> seq, tries |-> tries, effect |-> effect]
                 /\ Holds(h)
    PROVE  RfInv'
<1>1. \A q \in RfProc : Holds(q)' <=> Holds(q)
  BY DEF Holds
<1>2. exch' # NoExch =>
         \E h \in RfProc : \E req, seq, tries, effect :
            /\ exch' = [pid |-> h, req |-> req, seq |-> seq, tries |-> tries, effect |-> effect]
            /\ Holds(h)'
  BY <1>1
<1> QED BY <1>1, <1>2 DEF RfInv

\* The next attempt of an exchange, or the last answer to the caller.
LEMMA NextTryKeepsMutex ==
    ASSUME RfInv, NEW p \in RfProc, exch.pid = p, NextTry(p)
    PROVE  RfInv'
<1>1. Holds(p) /\ exch # NoExch
  BY ExchangeHolds
<1>2. CASE /\ exch' = [exch EXCEPT !.tries = @ + 1]
           /\ UNCHANGED <<rf_mutex, rfcall>>
  <2>1. PICK h, req, seq, tries, effect :
           /\ h \in RfProc
           /\ exch = [pid |-> h, req |-> req, seq |-> seq, tries |-> tries, effect |-> effect]
           /\ Holds(h)
    BY <1>1 DEF RfInv
  <2>2. exch' = [pid |-> h, req |-> req, seq |-> seq, tries |-> tries + 1, effect |-> effect]
    BY <1>2, <2>1
  <2> QED BY <1>2, <2>1, <2>2, MutexFrame
<1>3. CASE Return(p) /\ exch' = NoExch
  BY <1>1, <1>3, ReturnKeeps
<1> QED BY <1>2, <1>3 DEF NextTry, EndWith

\* What a process in a call does, and its kill.
LEMMA RfStepKeeps ==
    ASSUME RfInv, "kill" \notin RfCareless, NEW p \in RfProc,
           RfLocal(p) \/ RfSend(p) \/ RfReceive(p) \/ RfTimeout(p) \/ KillRf(p)
    PROVE  RfInv'
<1>1. CASE RfLocal(p)
  <2>1. Holds(p) /\ exch.pid # p /\ Return(p) /\ exch' = exch
    BY <1>1 DEF RfLocal
  <2>2. exch = NoExch
    BY <2>1, HolderOnly
  <2> QED BY <2>1, <2>2, ReturnKeeps
<1>2. CASE RfSend(p)
  <2>1. /\ Holds(p)
        /\ UNCHANGED <<rf_mutex, rfcall>>
        /\ \E m : exch' = [pid |-> p, req |-> m, seq |-> rf_seq, tries |-> 1, effect |-> RfIdle]
    BY <1>2 DEF RfSend
  <2> QED BY <2>1, MutexFrame
<1>3. CASE RfReceive(p)
  <2>1. exch.pid = p
    BY <1>3 DEF RfReceive
  <2>2. NextTry(p) \/ (Return(p) /\ exch' = NoExch)
    BY <1>3 DEF RfReceive, EndWith
  <2>3. Holds(p)
    BY <2>1, ExchangeHolds
  <2> QED BY <2>1, <2>2, <2>3, NextTryKeepsMutex, ReturnKeeps
<1>4. CASE RfTimeout(p)
  BY <1>4, NextTryKeepsMutex DEF RfTimeout
<1>5. CASE KillRf(p)
  <2>1. /\ ~Holds(p)
        /\ rf_mutex' = SemKill(rf_mutex, p)
        /\ rfcall'   = [rfcall EXCEPT ![p] = RfIdle]
        /\ exch'     = IF exch.pid = p THEN NoExch ELSE exch
    BY <1>5 DEF KillRf
  <2>2. exch' = exch
    BY <2>1, ExchangeHolds
  <2>3. /\ SemOK(rf_mutex', RfProc)
        /\ InLine(rf_mutex') = InLine(rf_mutex) \ {p}
        /\ p \in InLine(rf_mutex) => rf_mutex'.count = rf_mutex.count + 1 /\ rf_mutex.count < 0
        /\ p \notin InLine(rf_mutex) => rf_mutex' = rf_mutex
    BY <2>1, SemKillOK DEF RfInv
  <2>4. rf_mutex.count \in Int
    BY DEF RfInv, SemOK
  <2>5. /\ rfcall' = [q \in RfProc |-> rfcall'[q]]
        /\ rfcall'[p] = RfIdle
        /\ \A q \in RfProc : q # p => rfcall'[q] = rfcall[q]
    BY <2>1 DEF RfInv
  <2>6. \A q \in RfProc : Holds(q)' <=> Holds(q)
    BY <2>1, <2>3, <2>5 DEF Holds
  <2>7. InLine(rf_mutex) \subseteq RfProc
    BY NobodyInLine DEF RfInv
  <2>8. \A q \in InLine(rf_mutex') : rfcall'[q] # RfIdle
    BY <2>3, <2>5, <2>7 DEF RfInv
  <2>9. /\ rf_mutex'.count <= 1
        /\ rf_mutex'.count = 1 <=> rf_mutex.count = 1
        /\ rf_mutex'.count <= 0 <=> rf_mutex.count <= 0
    BY <2>3, <2>4 DEF RfInv
  <2>10. exch' # NoExch =>
          \E h \in RfProc : \E req, seq, tries, effect :
              /\ exch' = [pid |-> h, req |-> req, seq |-> seq, tries |-> tries, effect |-> effect]
              /\ Holds(h)'
    BY <2>2, <2>6 DEF RfInv
  <2> QED BY <2>3, <2>5, <2>6, <2>8, <2>9, <2>10 DEF RfInv
<1> QED BY <1>1, <1>2, <1>3, <1>4, <1>5

\* The server has no part in the mutex.
LEMMA ServeKeeps ==
    ASSUME RfInv, Serve
    PROVE  RfInv'
<1>1. PICK e : /\ UNCHANGED <<rf_mutex, rfcall>>
               /\ exch' = IF exch # NoExch /\ e # RfIdle THEN [exch EXCEPT !.effect = e] ELSE exch
  <2>1. PICK m \in requests :
           LET r == Performed(files, m.req)
           IN  /\ exch' = IF exch # NoExch /\ exch.seq = m.seq /\ exch.effect = RfIdle
                          THEN [exch EXCEPT !.effect = [ok |-> r.ok, data |-> r.data]] ELSE exch
               /\ UNCHANGED <<rf_mutex, rfcall>>
    BY DEF Serve
  <2>2. PICK x : x = [ok |-> Performed(files, m.req).ok, data |-> Performed(files, m.req).data]
    OBVIOUS
  <2>3. x # RfIdle
    BY <2>2 DEF RfIdle
  <2> QED BY <2>1, <2>2, <2>3
<1>2. CASE exch = NoExch \/ e = RfIdle
  BY <1>1, <1>2, MutexFrame DEF RfInv
<1>3. CASE exch # NoExch /\ e # RfIdle
  <2>1. PICK h, req, seq, tries, effect :
           /\ h \in RfProc
           /\ exch = [pid |-> h, req |-> req, seq |-> seq, tries |-> tries, effect |-> effect]
           /\ Holds(h)
    BY <1>3 DEF RfInv
  <2>2. exch' = [pid |-> h, req |-> req, seq |-> seq, tries |-> tries, effect |-> e]
    BY <1>1, <1>3, <2>1
  <2> QED BY <1>1, <2>1, <2>2, MutexFrame
<1> QED BY <1>2, <1>3

\* The invariant says what is wanted of the mutex.
LEMMA RfInvGives ==
    ASSUME RfInv
    PROVE  MutexReturned
<1>1. rf_mutex.count \in Int /\ rf_mutex.count <= 1
  BY DEF RfInv, SemOK
<1>2. Units(rf_mutex) + Cardinality({p \in RfProc : Holds(p)}) = 1
  <2>1. CASE rf_mutex.count = 1
    <3>1. {p \in RfProc : Holds(p)} = {}
      BY <2>1 DEF RfInv
    <3>2. Units(rf_mutex) = 1
      BY <2>1 DEF Units
    <3> QED BY <3>1, <3>2, FS_EmptySet
  <2>2. CASE rf_mutex.count <= 0
    <3>1. PICK h \in RfProc : \A p \in RfProc : Holds(p) <=> p = h
      BY <2>2 DEF RfInv
    <3>2. {p \in RfProc : Holds(p)} = {h}
      BY <3>1
    <3>3. Units(rf_mutex) = 0
      BY <1>1, <2>2 DEF Units
    <3> QED BY <3>2, <3>3, FS_Singleton
  <2> QED BY <1>1, <2>1, <2>2
<1>3. exch # NoExch => Holds(exch.pid)
  BY DEF RfInv
<1> QED BY <1>2, <1>3 DEF MutexReturned

\* The mutex of the remote file system is free or held by one process that is
\* there to signal it (rflread.c:25-98, rfsopen.c:27-112), after every refusal,
\* answer, timeout and kill of a process in line; while a process holds it, it
\* is not killed.
THEOREM RemoteFileMutex ==
    ASSUME "kill" \notin RfCareless
    PROVE  RfSpec => []MutexReturned
<1>1. RfInit => RfInv
  BY RfInitInv
<1>2. RfInv /\ [RfNext]_rfilevars => RfInv'
  <2> SUFFICES ASSUME RfInv, [RfNext]_rfilevars PROVE RfInv'
    OBVIOUS
  <2>1. CASE \E p \in RfProc, c \in RfCalls : RfBegin(p, c)
    BY <2>1, RfBeginKeeps
  <2>2. CASE \E p \in RfProc :
                RfLocal(p) \/ RfSend(p) \/ RfReceive(p) \/ RfTimeout(p) \/ KillRf(p)
    BY <2>2, RfStepKeeps
  <2>3. CASE Serve
    BY <2>3, ServeKeeps
  <2>4. CASE RfLose \/ UNCHANGED rfilevars
    <3>1. UNCHANGED <<rf_mutex, rfcall, exch>>
      BY <2>4 DEF RfLose, rfilevars
    <3> QED BY <3>1, MutexFrame DEF RfInv
  <2> QED BY <2>1, <2>2, <2>3, <2>4 DEF RfNext
<1>3. RfInv => MutexReturned
  BY RfInvGives
<1> QED BY <1>1, <1>2, <1>3, PTL DEF RfSpec
-----------------------------------------------------------------------------
\* Remote files are files.

RfChar == RfData \cup {Pad}
RfText == Seq(RfChar)

IsFiles(fs) == fs = [n \in DOMAIN fs |-> fs[n]] /\ \A n \in DOMAIN fs : fs[n] \in RfText

\* Entries and requests; an entry that was never opened has a name too.
AnyName   == RfName \cup {CHOOSE n \in RfName : TRUE}
RfEntry   == [rfstate : {"RF_FREE", "RF_USED"}, rfname : AnyName, rfpos : Nat]
RfRequest == [op : {"open", "delete", "trunc", "size", "read", "write"}, desc : Nat,
              name : AnyName, pos : Nat, len : Nat, data : RfText]
RfEffect  == [ok : BOOLEAN, data : Seq(RfChar \cup Nat)]
RfExch    == [pid : RfProc, req : RfRequest, seq : Nat, tries : Nat,
              effect : {RfIdle} \cup RfEffect]

\* An answer says what the effect of request c was, but for a second copy of a
\* request to delete: its file is gone.
SameAnswer(c, ok, data, e) ==
    \/ ok = e.ok /\ data = e.data
    \/ c.op = "delete" /\ ~ok /\ data = <<>>

\* The request of an exchange has had its effect e: another copy has no other.
Settled(fs, c, e) ==
    /\ Performed(fs, c).files = fs
    /\ SameAnswer(c, Performed(fs, c).ok, Performed(fs, c).data, e)

\* Copies of requests are of the exchange that is going on.  What has its
\* number is an answer to its request, which has had its effect.
RfFilesInv ==
    /\ rfltab \in [Rfl -> RfEntry] /\ rf_seq \in Nat
    /\ rfcall \in [RfProc -> RfCalls \cup {RfIdle}]
    /\ IsFiles(files)
    /\ exch # NoExch =>
          /\ exch \in RfExch /\ exch.seq < rf_seq
          /\ exch.req.op \in {"open", "read", "write"} => exch.req.desc \in Rfl
          /\ exch.req.op = "size" => exch.req.name \in DOMAIN files
          /\ exch.effect # RfIdle =>
                /\ Settled(files, exch.req, exch.effect)
                /\ ~exch.effect.ok => exch.effect.data = <<>>
    /\ \A m \in requests : exch # NoExch /\ m = [seq |-> exch.seq, req |-> exch.req]
    /\ \A m \in replies :
          /\ m.seq \in Nat /\ m.seq < rf_seq
          /\ exch # NoExch /\ m.seq = exch.seq =>
                /\ exch.effect # RfIdle /\ m.op = exch.req.op
                /\ SameAnswer(exch.req, m.ok, m.data, exch.effect)

\* A file is given other contents, once or twice.
LEMMA EndsIs ==
    ASSUME NEW fs, NEW n, NEW f \in RfText, IsFiles(fs), NEW g, g = Ends(fs, n, f)
    PROVE  /\ n \in DOMAIN g /\ g[n] = f
           /\ IsFiles(g)
           /\ Ends(g, n, f) = g
  BY DEF Ends, IsFiles

\* What is written twice at the same place is there once.
LEMMA OverlayIs ==
    ASSUME NEW f \in RfText, NEW pos \in Nat, NEW d \in RfText
    PROVE  /\ Overlay(f, pos, d) \in RfText
           /\ Overlay(Overlay(f, pos, d), pos, d) = Overlay(f, pos, d)
<1>1. PICK n : n = IF pos + Len(d) > Len(f) THEN pos + Len(d) ELSE Len(f)
  OBVIOUS
<1>2. Len(f) \in Nat /\ Len(d) \in Nat /\ n \in Nat /\ pos + Len(d) <= n
  BY <1>1 DEF RfText
<1> DEFINE F == [k \in 1 .. n |-> IF k > pos /\ k <= pos + Len(d) THEN d[k - pos]
                                  ELSE IF k <= Len(f) THEN f[k] ELSE Pad]
<1>3. Overlay(f, pos, d) = F
  BY <1>1 DEF Overlay
<1>4. \A k \in 1 .. n : F[k] \in RfChar
  BY <1>2 DEF RfText, RfChar
<1>5. F \in RfText /\ Len(F) = n
  <2>1. F = [k \in 1 .. n |-> F[k]]
    OBVIOUS
  <2> HIDE DEF F
  <2> QED BY <1>2, <1>4, <2>1, SMTT(60) DEF RfText
<1>6. (IF pos + Len(d) > n THEN pos + Len(d) ELSE n) = n
  BY <1>2
<1>7. Overlay(F, pos, d) = [k \in 1 .. n |-> IF k > pos /\ k <= pos + Len(d) THEN d[k - pos]
                                             ELSE IF k <= n THEN F[k] ELSE Pad]
  <2> HIDE DEF F
  <2> QED BY <1>5, <1>6 DEF Overlay
<1>8. Overlay(F, pos, d) = F
  BY <1>2, <1>7
<1> QED BY <1>3, <1>5, <1>8

\* What is read is text.
LEMMA PartIs ==
    ASSUME NEW f \in RfText, NEW pos \in Nat, NEW n \in Nat
    PROVE  Part(f, pos, n) \in RfText
<1> DEFINE e == IF pos + n > Len(f) THEN Len(f) ELSE pos + n
<1>1. f \in Seq(RfChar) /\ Len(f) \in Nat /\ e \in Nat /\ e <= Len(f) /\ pos + 1 \in Nat /\ pos + 1 >= 1
  BY DEF RfText
<1> HIDE DEF e
<1>2. SubSeq(f, pos + 1, e) \in Seq(RfChar)
  BY <1>1
<1> QED BY <1>2 DEF Part, RfText, e

\* An answer that comes again, and whose files stay.
LEMMA TwiceIs ==
    ASSUME NEW fs, NEW c, NEW g, NEW ok \in BOOLEAN, NEW d \in Seq(RfChar \cup Nat),
           IsFiles(g), ok \/ d = <<>>,
           Performed(fs, c) = [files |-> g, ok |-> ok, data |-> d],
           \/ Performed(g, c) = Performed(fs, c)
           \/ c.op = "delete" /\ Performed(g, c) = [files |-> g, ok |-> FALSE, data |-> <<>>]
    PROVE  LET r == Performed(fs, c)
           IN  /\ IsFiles(r.files) /\ r.ok \in BOOLEAN /\ [ok |-> r.ok, data |-> r.data] \in RfEffect
               /\ Settled(r.files, c, [ok |-> r.ok, data |-> r.data])
               /\ ~r.ok => r.data = <<>>
               /\ r.files = g
<1>1. PICK r : r = Performed(fs, c)
  OBVIOUS
<1>5. r.files = g /\ r.ok = ok /\ r.data = d
  BY <1>1
<1>2. PICK e : e = [ok |-> ok, data |-> d]
  OBVIOUS
<1>3. e.ok = ok /\ e.data = d /\ e \in RfEffect
  BY <1>2 DEF RfEffect
<1>4. Settled(g, c, e)
  BY <1>1, <1>3, <1>5 DEF Settled, SameAnswer
<1> QED BY <1>1, <1>2, <1>3, <1>4, <1>5

\* The server carries out a request: the files stay files, the answer is what an
\* effect may be, and another copy has no other effect.
LEMMA PerformedTwice ==
    ASSUME NEW fs, IsFiles(fs), NEW c \in RfRequest, NEW r, r = Performed(fs, c)
    PROVE  /\ IsFiles(r.files) /\ r.ok \in BOOLEAN /\ [ok |-> r.ok, data |-> r.data] \in RfEffect
           /\ Settled(r.files, c, [ok |-> r.ok, data |-> r.data])
           /\ ~r.ok => r.data = <<>>
           /\ c.op = "size" /\ c.name \in DOMAIN fs => c.name \in DOMAIN r.files
<1>1. /\ c.op \in {"open", "delete", "trunc", "size", "read", "write"}
      /\ c.pos \in Nat /\ c.len \in Nat /\ c.data \in RfText
  BY DEF RfRequest
<1>2. <<>> \in RfText /\ <<>> \in Seq(RfChar \cup Nat)
      /\ \A d \in RfText : d \in Seq(RfChar \cup Nat)
  BY DEF RfText
<1>3. PICK n : n = c.name
  OBVIOUS
<1>4. CASE n \notin DOMAIN fs /\ c.op # "open"
  <2>1. Performed(fs, c) = [files |-> fs, ok |-> FALSE, data |-> <<>>]
    BY <1>3, <1>4 DEF Performed
  <2> QED BY <1>2, <1>3, <1>4, <2>1, TwiceIs
<1>5. CASE n \notin DOMAIN fs /\ c.op = "open"
  <2>1. PICK g : g = Ends(fs, n, <<>>)
    OBVIOUS
  <2>2. n \in DOMAIN g /\ IsFiles(g)
    BY <1>2, <2>1, EndsIs
  <2>3. Performed(fs, c) = [files |-> g, ok |-> TRUE, data |-> <<>>]
    BY <1>3, <1>5, <2>1 DEF Performed
  <2>4. Performed(g, c) = [files |-> g, ok |-> TRUE, data |-> <<>>]
    BY <1>3, <1>5, <2>2 DEF Performed
  <2>5. Performed(g, c) = Performed(fs, c)
    BY <2>3, <2>4
  <2> QED BY <1>2, <1>5, <2>2, <2>3, <2>5, TwiceIs
<1>6. CASE n \in DOMAIN fs
  <2>1. PICK f : f = fs[n]
    OBVIOUS
  <2>2. f \in RfText
    BY <1>6, <2>1 DEF IsFiles
  <2>3. CASE c.op \in {"write", "trunc"}
    <3>1. PICK h : h = IF c.op = "write" THEN Overlay(f, c.pos, c.data) ELSE <<>>
      OBVIOUS
    <3>2. h \in RfText
      BY <1>1, <1>2, <2>2, <2>3, <3>1, OverlayIs
    <3>3. c.op = "write" => Overlay(h, c.pos, c.data) = h
      BY <1>1, <2>2, <3>1, OverlayIs
    <3>4. PICK g : g = Ends(fs, n, h)
      OBVIOUS
    <3>5. n \in DOMAIN g /\ IsFiles(g) /\ g[n] = h /\ Ends(g, n, h) = g
      BY <3>2, <3>4, EndsIs
    <3>6. PICK d : d = IF c.op = "write" THEN c.data ELSE <<>>
      OBVIOUS
    <3>7. d \in Seq(RfChar \cup Nat)
      BY <1>1, <1>2, <3>6
    <3>8. Performed(fs, c) = [files |-> g, ok |-> TRUE, data |-> d]
      <4>1. CASE c.op = "write"
        BY <1>3, <1>6, <2>1, <3>1, <3>4, <3>6, <4>1 DEF Performed
      <4>2. CASE c.op = "trunc"
        BY <1>3, <1>6, <2>1, <3>1, <3>4, <3>6, <4>2 DEF Performed
      <4> QED BY <2>3, <4>1, <4>2
    <3>9. Performed(g, c) = [files |-> g, ok |-> TRUE, data |-> d]
      <4>1. CASE c.op = "write"
        BY <1>3, <3>3, <3>5, <3>6, <4>1 DEF Performed
      <4>2. CASE c.op = "trunc"
        BY <1>3, <3>1, <3>5, <3>6, <4>2 DEF Performed
      <4> QED BY <2>3, <4>1, <4>2
    <3>10. c.op # "size"
      BY <2>3
    <3>11. Performed(g, c) = Performed(fs, c)
      BY <3>8, <3>9
    <3> QED BY <3>5, <3>7, <3>8, <3>10, <3>11, TwiceIs
  <2>4. CASE c.op = "delete"
    <3>1. PICK g : g = Restrict(fs, DOMAIN fs \ {n})
      OBVIOUS
    <3>2. IsFiles(g) /\ n \notin DOMAIN g
      BY <3>1 DEF Restrict, IsFiles
    <3>3. Performed(fs, c) = [files |-> g, ok |-> TRUE, data |-> <<>>]
      BY <1>3, <1>6, <2>4, <3>1 DEF Performed
    <3>4. Performed(g, c) = [files |-> g, ok |-> FALSE, data |-> <<>>]
      BY <1>3, <2>4, <3>2 DEF Performed
    <3> QED BY <1>2, <2>4, <3>2, <3>3, <3>4, TwiceIs
  <2>5. CASE c.op \in {"open", "size", "read"}
    <3>1. PICK d : d = IF c.op = "read" THEN Part(f, c.pos, c.len)
                       ELSE IF c.op = "size" THEN <<Len(f)>> ELSE <<>>
      OBVIOUS
    <3>2. Performed(fs, c) = [files |-> fs, ok |-> TRUE, data |-> d]
      <4>1. CASE c.op = "read"
        BY <1>3, <1>6, <2>1, <3>1, <4>1 DEF Performed
      <4>2. CASE c.op = "size"
        BY <1>3, <1>6, <2>1, <3>1, <4>2 DEF Performed
      <4>3. CASE c.op = "open"
        BY <1>3, <1>6, <2>1, <3>1, <4>3 DEF Performed
      <4> QED BY <2>5, <4>1, <4>2, <4>3
    <3>3. d \in Seq(RfChar \cup Nat)
      <4>1. CASE c.op = "read"
        BY <1>1, <1>2, <2>2, <3>1, <4>1, PartIs
      <4>2. CASE c.op = "size"
        <5>1. Len(f) \in Nat
          BY <2>2 DEF RfText
        <5> QED BY <3>1, <4>2, <5>1
      <4>3. CASE c.op = "open"
        BY <1>2, <3>1, <4>3
      <4> QED BY <2>5, <4>1, <4>2, <4>3
    <3> QED BY <3>2, <3>3, TwiceIs, ZenonT(60)
  <2> QED BY <1>1, <2>3, <2>4, <2>5
<1> QED BY <1>4, <1>5, <1>6

\* What a call says, by the name of it.
LEMMA CallFields ==
    ASSUME NEW c \in RfCalls
    PROVE  /\ c # RfIdle
           /\ c.op \in {"open", "delete", "trunc", "close", "size", "seek", "read", "write"}
           /\ c.op \in {"open", "delete", "trunc"} => c.name \in RfName
           /\ c.op \in {"close", "size", "seek", "read", "write"} => c.desc \in Rfl
           /\ c.op = "seek" => c.pos \in Nat
           /\ c.op = "read" => c.len \in Nat
           /\ c.op = "write" => c.data \in RfText
<1>1. CASE c \in [op : {"write"}, desc : Rfl, data : UNION {[1 .. n -> RfData] : n \in RfCounts}]
  <2>1. PICK n \in RfCounts : c.data \in [1 .. n -> RfData]
    BY <1>1
  <2>2. n \in Nat
    BY RemoteFileAssumption
  <2>3. c.data \in RfText
    BY <2>1, <2>2 DEF RfText, RfChar
  <2> QED BY <1>1, <2>3 DEF RfIdle
<1>2. CASE c \in {[op |-> "open", name |-> n] : n \in RfName} \cup [op : {"delete", "trunc"}, name : RfName]
  BY <1>2 DEF RfIdle
<1>3. CASE c \in [op : {"close", "size"}, desc : Rfl]
  BY <1>3 DEF RfIdle
<1>4. CASE c \in [op : {"seek"}, desc : Rfl, pos : RfSeeks]
  <2>1. c.op = "seek" /\ c.desc \in Rfl /\ c.pos \in RfSeeks /\ RfSeeks \subseteq Nat
    BY <1>4, RemoteFileAssumption
  <2>2. c # RfIdle
    BY <2>1 DEF RfIdle
  <2>3. c.pos \in Nat
    BY <2>1
  <2> QED BY <2>1, <2>2, <2>3
<1>5. CASE c \in [op : {"read"}, desc : Rfl, len : RfCounts]
  <2>1. c.op = "read" /\ c.desc \in Rfl /\ c.len \in RfCounts /\ RfCounts \subseteq Nat
    BY <1>5, RemoteFileAssumption
  <2>2. c # RfIdle
    BY <2>1 DEF RfIdle
  <2>3. c.len \in Nat
    BY <2>1
  <2> QED BY <2>1, <2>2, <2>3
<1> QED BY <1>1, <1>2, <1>3, <1>4, <1>5 DEF RfCalls

\* Steps in which no exchange begins or ends.
LEMMA RfFilesFrame ==
    ASSUME RfFilesInv, UNCHANGED <<rf_seq, exch, files>>,
           requests' \subseteq requests, replies' \subseteq replies,
           rfltab' \in [Rfl -> RfEntry], rfcall' \in [RfProc -> RfCalls \cup {RfIdle}]
    PROVE  RfFilesInv'
<1>1. /\ rf_seq' = rf_seq /\ exch' = exch /\ files' = files
  OBVIOUS
<1> QED BY <1>1 DEF RfFilesInv

\* And what the abstract files see of them.
LEMMA RfUnseen ==
    ASSUME UNCHANGED <<exch, files, rfret>>, RfPositions' = RfPositions
    PROVE  UNCHANGED RF!rfvars
  BY DEF RF!rfvars, RfAsked, RfEffects

\* Calls that begin, or end without an exchange.
LEMMA RfLocalRefines ==
    ASSUME RfFilesInv, NEW p \in RfProc,
           RfLocal(p) \/ \E c \in RfCalls : RfBegin(p, c)
    PROVE  /\ RfFilesInv'
           /\ UNCHANGED RF!rfvars \/ \E d \in Rfl : RF!MoveTo(d)
<1>1. /\ rfltab \in [Rfl -> RfEntry] /\ rfcall \in [RfProc -> RfCalls \cup {RfIdle}]
  BY DEF RfFilesInv
<1>2. CASE \E c \in RfCalls : RfBegin(p, c)
  <2>1. /\ UNCHANGED <<rfltab, rf_seq, exch, files, requests, replies, rfret>>
        /\ rfcall' \in [RfProc -> RfCalls \cup {RfIdle}]
    BY <1>1, <1>2 DEF RfBegin, rfnet
  <2>2. RfPositions' = RfPositions
    BY <2>1 DEF RfPositions
  <2>3. RfFilesInv'
    BY <1>1, <2>1, RfFilesFrame
  <2> QED BY <2>1, <2>2, <2>3, RfUnseen
<1>3. CASE RfLocal(p)
  <2>1. PICK c : c = rfcall[p]
    OBVIOUS
  <2>2. /\ Holds(p) /\ Return(p)
        /\ UNCHANGED <<rf_seq, exch, files, requests, replies, rfret>>
        /\ \/ rfltab' = rfltab
           \/ c.op = "close" /\ rfltab' = [rfltab EXCEPT ![c.desc].rfstate = "RF_FREE"]
           \/ c.op = "seek" /\ rfltab' = [rfltab EXCEPT ![c.desc].rfpos = c.pos]
    BY <1>3, <2>1 DEF RfLocal, rfnet
  <2>3. c \in RfCalls
    BY <1>1, <2>1, <2>2 DEF Holds
  <2>4. c.op \in {"close", "seek"} => c.desc \in Rfl
    BY <2>3, CallFields
  <2>5. c.op = "seek" => c.pos \in Nat
    BY <2>3, CallFields
  <2>6. rfcall' \in [RfProc -> RfCalls \cup {RfIdle}]
    BY <1>1, <2>2 DEF Return
  <2>7. CASE rfltab' = rfltab
    <3>1. RfPositions' = RfPositions
      BY <2>7 DEF RfPositions
    <3>2. RfFilesInv'
      BY <1>1, <2>2, <2>6, <2>7, RfFilesFrame
    <3> QED BY <2>2, <3>1, <3>2, RfUnseen
  <2>8. CASE c.op = "close" /\ rfltab' = [rfltab EXCEPT ![c.desc].rfstate = "RF_FREE"]
    <3>1. /\ rfltab' \in [Rfl -> RfEntry]
          /\ \A d \in Rfl : rfltab'[d].rfpos = rfltab[d].rfpos
      BY <1>1, <2>4, <2>8 DEF RfEntry
    <3>2. RfPositions' = RfPositions
      BY <3>1 DEF RfPositions
    <3>3. RfFilesInv'
      BY <2>2, <2>6, <3>1, RfFilesFrame
    <3> QED BY <2>2, <3>2, <3>3, RfUnseen
  <2>9. CASE c.op = "seek" /\ rfltab' = [rfltab EXCEPT ![c.desc].rfpos = c.pos]
    <3>1. /\ rfltab' \in [Rfl -> RfEntry]
          /\ \A d \in Rfl : d # c.desc => rfltab'[d].rfpos = rfltab[d].rfpos
      BY <1>1, <2>4, <2>5, <2>9 DEF RfEntry
    <3>2. RfPositions' = [RfPositions EXCEPT ![c.desc] = RfPositions'[c.desc]]
      BY <3>1 DEF RfPositions
    <3>3. RfAsked' = RfAsked /\ RfEffects' = RfEffects
      BY <2>2 DEF RfAsked, RfEffects
    <3>4. RF!MoveTo(c.desc)
      BY <2>2, <3>2, <3>3 DEF RF!MoveTo
    <3>5. RfFilesInv'
      BY <2>2, <2>6, <3>1, RfFilesFrame
    <3> QED BY <2>4, <2>9, <3>4, <3>5
  <2> QED BY <2>2, <2>7, <2>8, <2>9
<1> QED BY <1>2, <1>3

\* A request is formed for the position its descriptor has.
LEMMA RfSendRefines ==
    ASSUME RfInv, RfFilesInv, NEW p \in RfProc, RfCareless = {}, RfSend(p)
    PROVE  RfFilesInv' /\ RF!Begin(p)
<1>1. PICK c : c = rfcall[p]
  OBVIOUS
<1>2. PICK d : d = DescOf(c)
  OBVIOUS
<1>3. PICK m : m = Request(c, d)
  OBVIOUS
<1>4. /\ Holds(p) /\ exch.pid # p
      /\ ~CallRefused(c) /\ c.op \notin {"close", "seek"}
      /\ c.op = "size" => m.name \in DOMAIN files
      /\ exch' = [pid |-> p, req |-> m, seq |-> rf_seq, tries |-> 1, effect |-> RfIdle]
      /\ requests' = requests \cup {[seq |-> rf_seq, req |-> m]}
      /\ rf_seq' = rf_seq + 1
      /\ rfltab' = IF c.op = "open" THEN [rfltab EXCEPT ![m.desc].rfname = c.name] ELSE rfltab
      /\ UNCHANGED <<rfcall, replies, files, rfret>>
  BY <1>1, <1>2, <1>3 DEF RfSend
<1>5. exch = NoExch
  BY <1>4, HolderOnly
<1>6. /\ rfltab \in [Rfl -> RfEntry] /\ rfcall \in [RfProc -> RfCalls \cup {RfIdle}]
      /\ rf_seq \in Nat /\ IsFiles(files) /\ requests = {}
      /\ \A a \in replies : a.seq \in Nat /\ a.seq < rf_seq
  BY <1>5 DEF RfFilesInv
<1>7. c \in RfCalls
  BY <1>1, <1>4, <1>6 DEF Holds
<1>8. /\ c.op \in {"open", "delete", "trunc", "size", "read", "write"}
      /\ c.op \in {"open", "delete", "trunc"} => c.name \in RfName
      /\ c.op \in {"size", "read", "write"} => c.desc \in Rfl
      /\ c.op = "read" => c.len \in Nat
      /\ c.op = "write" => c.data \in RfText
  BY <1>4, <1>7, CallFields
<1>9. d \in Nat /\ (c.op \notin {"delete", "trunc"} => d \in Rfl)
      /\ (c.op \in {"size", "read", "write"} => d = c.desc)
  <2>1. Rfl \subseteq Nat
    BY RemoteFileAssumption DEF Rfl
  <2>2. CASE c.op = "open"
    <3>1. FreeRfl # {}
      BY <1>4, <2>2 DEF CallRefused
    <3>2. FreeRfl \subseteq Rfl
      BY DEF FreeRfl
    <3>3. Min(FreeRfl) \in FreeRfl
      BY <2>1, <3>1, <3>2, MinNat
    <3> QED BY <1>2, <2>1, <2>2, <3>2, <3>3 DEF DescOf
  <2>3. CASE c.op \in {"delete", "trunc"}
    BY <1>2, <2>3 DEF DescOf
  <2>4. CASE c.op \in {"size", "read", "write"}
    BY <1>2, <1>8, <2>1, <2>4 DEF DescOf
  <2> QED BY <1>8, <2>2, <2>3, <2>4
<1>10. /\ m.op = c.op /\ m.desc = d
       /\ m.op \in {"read", "write"} => m.pos = rfltab[d].rfpos
  BY <1>3 DEF Request
<1>11. m \in RfRequest
  <2>1. <<>> \in RfText
    BY DEF RfText
  <2>2. c.op \in {"open", "delete", "trunc"} => c.name \in AnyName
    BY <1>8 DEF AnyName
  <2>3. c.op \in {"size", "read", "write"} => rfltab[d].rfname \in AnyName /\ rfltab[d].rfpos \in Nat
    BY <1>6, <1>9 DEF RfEntry
  <2> QED BY <1>3, <1>8, <1>9, <2>1, <2>2, <2>3 DEF Request, RfRequest
<1>12. /\ rfltab' \in [Rfl -> RfEntry]
       /\ \A e \in Rfl : rfltab'[e].rfpos = rfltab[e].rfpos
  BY <1>4, <1>6, <1>8, <1>9, <1>10 DEF RfEntry, AnyName
<1>13. /\ exch' \in RfExch /\ exch' # NoExch
       /\ exch'.pid = p /\ exch'.req = m /\ exch'.seq = rf_seq /\ exch'.effect = RfIdle
  BY <1>4, <1>6, <1>11, RemoteFileAssumption DEF RfExch, NoExch
<1>14. RfFilesInv'
  <2>1. /\ rf_seq' \in Nat /\ exch'.seq < rf_seq'
        /\ \A a \in replies' : a.seq \in Nat /\ a.seq < rf_seq' /\ a.seq # exch'.seq
    BY <1>4, <1>6, <1>13
  <2>2. /\ exch'.req.op \in {"open", "read", "write"} => exch'.req.desc \in Rfl
        /\ exch'.req.op = "size" => exch'.req.name \in DOMAIN files'
    BY <1>4, <1>9, <1>10, <1>13
  <2>3. \A a \in requests' : a = [seq |-> exch'.seq, req |-> exch'.req]
    BY <1>4, <1>6, <1>13
  <2>4. rfcall' \in [RfProc -> RfCalls \cup {RfIdle}] /\ IsFiles(files')
    BY <1>4, <1>6
  <2> QED BY <1>12, <1>13, <2>1, <2>2, <2>3, <2>4 DEF RfFilesInv
<1>15. RF!Begin(p)
  <2>1. \A q \in RfProc : exch.pid # q
    BY <1>5, RemoteFileAssumption DEF NoExch
  <2>2. RfAsked[p] = RfIdle /\ RfAsked'[p] = m
    BY <1>13, <2>1 DEF RfAsked
  <2>3. RfAsked' = [RfAsked EXCEPT ![p] = RfAsked'[p]]
    BY <1>13, <2>1 DEF RfAsked
  <2>4. RfEffects' = RfEffects
    BY <1>13, <2>1 DEF RfEffects
  <2>5. RfPositions' = RfPositions
    BY <1>12 DEF RfPositions
  <2>6. m.op \in {"read", "write"} => m.pos = RfPositions[m.desc]
    BY <1>9, <1>10 DEF RfPositions
  <2> QED BY <1>4, <2>2, <2>3, <2>4, <2>5, <2>6 DEF RF!Begin
<1> QED BY <1>14, <1>15

\* The server of the abstract files is the same server.
LEMMA SameServer ==
    ASSUME NEW fs, NEW c
    PROVE  RF!Performed(fs, c) = Performed(fs, c)
  BY DEF RF!Performed, RF!Ends, RF!Overlay, RF!Part, RF!Restrict,
         Performed, Ends, Overlay, Part, Restrict

\* The exchange of a process, and what the abstract files see of it.
LEMMA RfExchIs ==
    ASSUME RfInv, RfFilesInv, NEW p \in RfProc, exch.pid = p
    PROVE  /\ exch # NoExch /\ exch \in RfExch /\ Holds(p)
           /\ RfAsked[p] = exch.req /\ exch.req # RfIdle
           /\ RfEffects[p] = exch.effect
           /\ \A q \in RfProc : q # p => RfAsked[q] = RfIdle /\ RfEffects[q] = RfIdle
<1>1. exch # NoExch /\ Holds(p)
  BY ExchangeHolds
<1>2. exch \in RfExch
  BY <1>1 DEF RfFilesInv
<1>3. exch.req # RfIdle
  BY <1>2 DEF RfExch, RfRequest, RfIdle
<1> QED BY <1>1, <1>2, <1>3 DEF RfAsked, RfEffects

\* The end of an exchange: the answer of the effect, or a failure.
LEMMA EndRefines ==
    ASSUME RfInv, RfFilesInv, NEW p \in RfProc, exch.pid = p, NEW a,
           EndWith(p, a), RfCareless = {},
           UNCHANGED <<rf_seq, files>>, replies' \subseteq replies,
           \/ a = Failed
           \/ exch.effect # RfIdle /\ exch.effect.ok /\ a = exch.effect
    PROVE  RfFilesInv' /\ (RF!Succeed(p) \/ RF!Fail(p))
<1>1. /\ rfret' = [rfret EXCEPT ![p] = a]
      /\ rfltab' = IF a.ok THEN Updated(exch.req, a) ELSE rfltab
      /\ exch' = NoExch
      /\ rfcall' = [rfcall EXCEPT ![p] = RfIdle]
      /\ requests' = {}
  BY DEF EndWith, Return
<1>2. /\ rfltab \in [Rfl -> RfEntry] /\ rf_seq \in Nat
      /\ rfcall \in [RfProc -> RfCalls \cup {RfIdle}]
      /\ IsFiles(files)
      /\ \A m \in replies : m.seq \in Nat /\ m.seq < rf_seq
  BY DEF RfFilesInv
<1>3. /\ exch # NoExch /\ exch \in RfExch
      /\ RfAsked[p] = exch.req /\ exch.req # RfIdle /\ RfEffects[p] = exch.effect
      /\ \A q \in RfProc : q # p => RfAsked[q] = RfIdle /\ RfEffects[q] = RfIdle
  BY RfExchIs
<1>4. exch.req.op \in {"open", "read", "write"} => exch.req.desc \in Rfl
  BY <1>3 DEF RfFilesInv
<1>5. /\ RfAsked' = [RfAsked EXCEPT ![p] = RfIdle]
      /\ RfEffects' = [RfEffects EXCEPT ![p] = RfIdle]
  <2>1. \A q \in RfProc : RfAsked'[q] = RfIdle /\ RfEffects'[q] = RfIdle
    BY <1>1, RemoteFileAssumption DEF RfAsked, RfEffects, NoExch
  <2>2. /\ RfAsked' = [q \in RfProc |-> RfAsked'[q]] /\ RfAsked = [q \in RfProc |-> RfAsked[q]]
        /\ RfEffects' = [q \in RfProc |-> RfEffects'[q]]
        /\ RfEffects = [q \in RfProc |-> RfEffects[q]]
    BY DEF RfAsked, RfEffects
  <2> QED BY <1>3, <2>1, <2>2
<1>6. CASE a = Failed
  <2>1. ~a.ok /\ a = [ok |-> FALSE, data |-> <<>>]
    BY <1>6 DEF Failed
  <2>2. rfltab' = rfltab /\ RfPositions' = RfPositions
    BY <1>1, <2>1 DEF RfPositions
  <2>3. RF!Fail(p)
    BY <1>1, <1>3, <1>5, <2>1, <2>2 DEF RF!Fail
  <2>4. RfFilesInv'
    BY <1>1, <1>2, <2>2 DEF RfFilesInv
  <2> QED BY <2>3, <2>4
<1>7. CASE exch.effect # RfIdle /\ exch.effect.ok /\ a = exch.effect
  <2>1. PICK c : c = exch.req
    OBVIOUS
  <2>2. a \in RfEffect /\ a.ok /\ c \in RfRequest
    BY <1>3, <1>7, <2>1 DEF RfExch
  <2>3. Len(a.data) \in Nat
    BY <2>2 DEF RfEffect
  <2>4. rfltab' = Updated(c, a)
    BY <1>1, <2>1, <2>2
  <2>5. c.op \in {"open", "read", "write"} => c.desc \in Rfl
    BY <1>4, <2>1
  <2>6. rfltab' \in [Rfl -> RfEntry] /\ RfPositions' = RF!Moved(c.desc, c, a)
    <3>1. CASE c.op = "open"
      <4>1. rfltab' = [rfltab EXCEPT ![c.desc].rfpos = 0, ![c.desc].rfstate = "RF_USED"]
        BY <2>4, <3>1 DEF Updated
      <4>2. /\ rfltab' \in [Rfl -> RfEntry] /\ rfltab'[c.desc].rfpos = 0
            /\ \A d \in Rfl : d # c.desc => rfltab'[d].rfpos = rfltab[d].rfpos
        BY <1>2, <2>5, <3>1, <4>1 DEF RfEntry
      <4>3. RfPositions' = [RfPositions EXCEPT ![c.desc] = 0]
        BY <4>2 DEF RfPositions
      <4>4. RF!Moved(c.desc, c, a) = [RfPositions EXCEPT ![c.desc] = 0]
        BY <3>1 DEF RF!Moved
      <4> QED BY <4>2, <4>3, <4>4
    <3>2. CASE c.op \in {"read", "write"}
      <4>1. rfltab' = [rfltab EXCEPT ![c.desc].rfpos = @ + Len(a.data)]
        BY <2>4, <3>2 DEF Updated
      <4>2. /\ rfltab' \in [Rfl -> RfEntry]
            /\ rfltab'[c.desc].rfpos = rfltab[c.desc].rfpos + Len(a.data)
            /\ \A d \in Rfl : d # c.desc => rfltab'[d].rfpos = rfltab[d].rfpos
        <5>1. c.desc \in Rfl /\ rfltab[c.desc] \in RfEntry
          BY <1>2, <2>5, <3>2
        <5>2. PICK v \in Nat : v = rfltab[c.desc].rfpos + Len(a.data)
          BY <2>3, <5>1 DEF RfEntry
        <5>3. rfltab' = [rfltab EXCEPT ![c.desc].rfpos = v]
          BY <4>1, <5>2
        <5> QED BY <1>2, <5>1, <5>2, <5>3 DEF RfEntry
      <4>3. RfPositions' = [RfPositions EXCEPT ![c.desc] = @ + Len(a.data)]
        BY <2>5, <3>2, <4>2 DEF RfPositions
      <4>4. RF!Moved(c.desc, c, a) = [RfPositions EXCEPT ![c.desc] = @ + Len(a.data)]
        BY <3>2 DEF RF!Moved
      <4> QED BY <4>2, <4>3, <4>4
    <3>3. CASE c.op \notin {"open", "read", "write"}
      <4>1. rfltab' = rfltab
        BY <2>4, <3>3 DEF Updated
      <4>2. RF!Moved(c.desc, c, a) = RfPositions
        BY <3>3 DEF RF!Moved
      <4> QED BY <1>2, <4>1, <4>2 DEF RfPositions
    <3> QED BY <3>1, <3>2, <3>3
  <2>7. RF!Succeed(p)
    BY <1>1, <1>3, <1>5, <1>7, <2>1, <2>2, <2>6 DEF RF!Succeed
  <2>8. rfcall' \in [RfProc -> RfCalls \cup {RfIdle}]
    BY <1>1, <1>2
  <2>9. RfFilesInv'
    BY <1>1, <1>2, <2>6, <2>8 DEF RfFilesInv
  <2> QED BY <2>7, <2>9
<1> QED BY <1>6, <1>7

\* Nobody has answered: the request is sent again, or the call fails.
LEMMA NextTryRefines ==
    ASSUME RfInv, RfFilesInv, NEW p \in RfProc, exch.pid = p, NextTry(p),
           RfCareless = {}, UNCHANGED <<rf_seq, files>>, replies' \subseteq replies
    PROVE  RfFilesInv' /\ (UNCHANGED RF!rfvars \/ RF!Fail(p) \/ RF!Succeed(p))
<1>1. CASE EndWith(p, Failed)
  BY <1>1, EndRefines
<1>2. CASE /\ exch' = [exch EXCEPT !.tries = @ + 1]
           /\ requests' = requests \cup {[seq |-> exch.seq, req |-> exch.req]}
           /\ UNCHANGED <<rfltab, rf_mutex, rfcall, rfret>>
  <2>1. exch # NoExch /\ exch \in RfExch
    BY RfExchIs
  <2>2. /\ exch' \in RfExch /\ exch'.pid = exch.pid /\ exch'.req = exch.req
        /\ exch'.seq = exch.seq /\ exch'.effect = exch.effect
    BY <1>2, <2>1 DEF RfExch
  <2>3. exch' # NoExch
    BY <2>2, RemoteFileAssumption DEF NoExch
  <2>4. RfAsked' = RfAsked /\ RfEffects' = RfEffects /\ RfPositions' = RfPositions
    BY <1>2, <2>2 DEF RfAsked, RfEffects, RfPositions
  <2>5. UNCHANGED RF!rfvars
    BY <1>2, <2>4 DEF RF!rfvars
  <2>6. \A m \in requests' : m = [seq |-> exch'.seq, req |-> exch'.req]
    BY <1>2, <2>2 DEF RfFilesInv
  <2>7. \A m \in replies' :
          /\ m.seq \in Nat /\ m.seq < rf_seq'
          /\ m.seq = exch'.seq =>
                /\ exch'.effect # RfIdle /\ m.op = exch'.req.op
                /\ SameAnswer(exch'.req, m.ok, m.data, exch'.effect)
    BY <2>1, <2>2 DEF RfFilesInv
  <2>8. /\ exch'.seq < rf_seq'
        /\ exch'.req.op \in {"open", "read", "write"} => exch'.req.desc \in Rfl
        /\ exch'.req.op = "size" => exch'.req.name \in DOMAIN files'
        /\ exch'.effect # RfIdle =>
              /\ Settled(files', exch'.req, exch'.effect)
              /\ ~exch'.effect.ok => exch'.effect.data = <<>>
    BY <2>1, <2>2 DEF RfFilesInv
  <2>9. RfFilesInv'
    BY <1>2, <2>2, <2>3, <2>6, <2>7, <2>8 DEF RfFilesInv
  <2> QED BY <2>5, <2>9
<1> QED BY <1>1, <1>2 DEF NextTry

\* An answer with the number of the exchange tells its effect.
LEMMA RfReceiveRefines ==
    ASSUME RfInv, RfFilesInv, NEW p \in RfProc, RfCareless = {},
           RfReceive(p) \/ RfTimeout(p)
    PROVE  RfFilesInv' /\ (UNCHANGED RF!rfvars \/ RF!Fail(p) \/ RF!Succeed(p))
<1>1. CASE RfTimeout(p)
  BY <1>1, NextTryRefines DEF RfTimeout
<1>2. CASE RfReceive(p)
  <2>1. PICK m \in replies :
          /\ replies' = replies \ {m}
          /\ \/ Answers(m) /\ EndWith(p, [ok |-> m.ok \/ m.op = "size", data |-> m.data])
             \/ ~Answers(m) /\ NextTry(p)
    BY <1>2 DEF RfReceive
  <2>2. exch.pid = p /\ UNCHANGED <<rf_seq, files>> /\ replies' \subseteq replies
    BY <1>2, <2>1 DEF RfReceive
  <2>3. CASE NextTry(p)
    BY <2>2, <2>3, NextTryRefines
  <2>4. CASE Answers(m) /\ EndWith(p, [ok |-> m.ok \/ m.op = "size", data |-> m.data])
    <3>1. exch # NoExch /\ exch \in RfExch
      BY <2>2, RfExchIs
    <3>2. PICK c : c = exch.req
      OBVIOUS
    <3>3. PICK e : e = exch.effect
      OBVIOUS
    <3>4. /\ m.seq = exch.seq /\ m.op = c.op
          /\ e # RfIdle /\ SameAnswer(c, m.ok, m.data, e)
          /\ Settled(files, c, e) /\ (~e.ok => e.data = <<>>)
          /\ c.op = "size" => c.name \in DOMAIN files
      BY <2>1, <2>4, <3>1, <3>2, <3>3 DEF RfFilesInv, Answers
    <3>5. e \in RfEffect /\ e = [ok |-> e.ok, data |-> e.data] /\ e.ok \in BOOLEAN
      BY <3>1, <3>3, <3>4 DEF RfExch, RfEffect
    <3>6. c.op = "size" => e.ok /\ m.ok /\ m.data = e.data
      <4> SUFFICES ASSUME c.op = "size" PROVE e.ok /\ m.ok /\ m.data = e.data
        OBVIOUS
      <4>1. Performed(files, c).ok = TRUE
        BY <3>4 DEF Performed
      <4> QED BY <3>4, <4>1 DEF Settled, SameAnswer
    <3>7. PICK a : a = [ok |-> m.ok \/ m.op = "size", data |-> m.data]
      OBVIOUS
    <3>8. a = Failed \/ (e.ok /\ a = e)
      <4>1. CASE c.op = "delete" /\ ~m.ok /\ m.data = <<>>
        BY <3>4, <3>7, <4>1 DEF Failed
      <4>2. CASE m.ok = e.ok /\ m.data = e.data /\ e.ok
        BY <3>5, <3>7, <4>2
      <4>3. CASE m.ok = e.ok /\ m.data = e.data /\ ~e.ok
        BY <3>4, <3>5, <3>6, <3>7, <4>3 DEF Failed
      <4> QED BY <3>4, <4>1, <4>2, <4>3 DEF SameAnswer
    <3>9. EndWith(p, a)
      BY <2>4, <3>7
    <3> QED BY <2>2, <3>3, <3>4, <3>8, <3>9, EndRefines
  <2> QED BY <2>1, <2>3, <2>4
<1> QED BY <1>1, <1>2

\* The first copy that is carried out is the effect; others change nothing.
LEMMA ServeRefines ==
    ASSUME RfInv, RfFilesInv, Serve
    PROVE  RfFilesInv' /\ (UNCHANGED RF!rfvars \/ \E p \in RfProc : RF!TakeEffect(p))
<1>1. PICK m \in requests :
        LET r == Performed(files, m.req)
        IN  /\ requests' = requests \ {m}
            /\ files'    = r.files
            /\ replies'  = replies \cup {[seq |-> m.seq, op |-> m.req.op, ok |-> r.ok, data |-> r.data]}
            /\ exch'     = IF exch # NoExch /\ exch.seq = m.seq /\ exch.effect = RfIdle
                           THEN [exch EXCEPT !.effect = [ok |-> r.ok, data |-> r.data]] ELSE exch
            /\ UNCHANGED <<rfltab, rf_mutex, rf_seq, rfcall, rfret, gone>>
  BY DEF Serve
<1>2. PICK p \in RfProc : exch.pid = p
  BY DEF RfFilesInv, RfInv
<1>3. /\ exch # NoExch /\ exch \in RfExch
      /\ RfAsked[p] = exch.req /\ exch.req # RfIdle /\ RfEffects[p] = exch.effect
      /\ \A q \in RfProc : q # p => RfAsked[q] = RfIdle /\ RfEffects[q] = RfIdle
  BY <1>2, RfExchIs
<1>4. PICK c : c = exch.req
  OBVIOUS
<1>5. PICK e : e = exch.effect
  OBVIOUS
<1>6. PICK r : r = Performed(files, c)
  OBVIOUS
<1>7. PICK x : x = [ok |-> r.ok, data |-> r.data]
  OBVIOUS
<1>8. m.seq = exch.seq /\ m.req = c
  BY <1>1, <1>4 DEF RfFilesInv
<1>9. /\ requests' \subseteq requests
      /\ files' = r.files
      /\ replies' = replies \cup {[seq |-> exch.seq, op |-> c.op, ok |-> r.ok, data |-> r.data]}
      /\ exch' = IF e = RfIdle THEN [exch EXCEPT !.effect = x] ELSE exch
      /\ UNCHANGED <<rfltab, rf_seq, rfcall, rfret>>
  BY <1>1, <1>3, <1>5, <1>6, <1>7, <1>8
<1>10. /\ c \in RfRequest /\ exch.seq \in Nat /\ e \in {RfIdle} \cup RfEffect
       /\ IsFiles(files) /\ exch.seq < rf_seq /\ rf_seq \in Nat
       /\ c.op \in {"open", "read", "write"} => c.desc \in Rfl
       /\ c.op = "size" => c.name \in DOMAIN files
       /\ e # RfIdle => Settled(files, c, e) /\ (~e.ok => e.data = <<>>)
       /\ rfltab \in [Rfl -> RfEntry] /\ rfcall \in [RfProc -> RfCalls \cup {RfIdle}]
       /\ \A a \in requests : a = [seq |-> exch.seq, req |-> c]
       /\ \A a \in replies :
             /\ a.seq \in Nat /\ a.seq < rf_seq
             /\ a.seq = exch.seq => e # RfIdle /\ a.op = c.op /\ SameAnswer(c, a.ok, a.data, e)
  BY <1>3, <1>4, <1>5 DEF RfFilesInv, RfExch
<1>11. /\ IsFiles(r.files) /\ r.ok \in BOOLEAN /\ x \in RfEffect
       /\ Settled(r.files, c, x)
       /\ ~r.ok => r.data = <<>>
       /\ c.op = "size" /\ c.name \in DOMAIN files => c.name \in DOMAIN r.files
  BY <1>6, <1>7, <1>10, PerformedTwice
<1>12. RfPositions' = RfPositions
  BY <1>9 DEF RfPositions
<1>13. PICK y : y = IF e = RfIdle THEN x ELSE e
  OBVIOUS
<1>14. x # RfIdle /\ x.ok = r.ok /\ x.data = r.data
  BY <1>7 DEF RfIdle
<1>15. /\ exch' \in RfExch /\ exch'.pid = p /\ exch'.req = c
       /\ exch'.seq = exch.seq /\ exch'.effect = y /\ y # RfIdle
  <2>1. CASE e = RfIdle
    BY <1>2, <1>3, <1>4, <1>9, <1>11, <1>13, <1>14, <2>1 DEF RfExch
  <2>2. CASE e # RfIdle
    BY <1>2, <1>3, <1>4, <1>5, <1>9, <1>13, <2>2
  <2> QED BY <2>1, <2>2
<1>16. /\ Settled(files', c, y) /\ (~y.ok => y.data = <<>>)
       /\ SameAnswer(c, r.ok, r.data, y)
       /\ e # RfIdle => files' = files
  <2>1. CASE e = RfIdle
    BY <1>9, <1>11, <1>13, <1>14, <2>1 DEF SameAnswer
  <2>2. CASE e # RfIdle
    BY <1>6, <1>9, <1>10, <1>13, <2>2 DEF Settled
  <2> QED BY <2>1, <2>2
<1>17. RfFilesInv'
  <2>1. exch' # NoExch
    BY <1>15, RemoteFileAssumption DEF NoExch
  <2>2. \A a \in replies' :
             /\ a.seq \in Nat /\ a.seq < rf_seq'
             /\ a.seq = exch'.seq => a.op = c.op /\ SameAnswer(c, a.ok, a.data, y)
    <3> SUFFICES ASSUME NEW a \in replies'
                 PROVE  /\ a.seq \in Nat /\ a.seq < rf_seq'
                        /\ a.seq = exch'.seq => a.op = c.op /\ SameAnswer(c, a.ok, a.data, y)
      OBVIOUS
    <3>1. CASE a \in replies
      BY <1>9, <1>10, <1>13, <1>15, <3>1
    <3>2. CASE a = [seq |-> exch.seq, op |-> c.op, ok |-> r.ok, data |-> r.data]
      BY <1>9, <1>10, <1>15, <1>16, <3>2
    <3> QED BY <1>9, <3>1, <3>2
  <2>3. c.op = "size" => c.name \in DOMAIN files'
    BY <1>9, <1>10, <1>11
  <2>4. \A a \in requests' : a = [seq |-> exch'.seq, req |-> exch'.req]
    BY <1>9, <1>10, <1>15
  <2>5. IsFiles(files') /\ exch'.seq < rf_seq' /\ rf_seq' \in Nat
    BY <1>9, <1>10, <1>11, <1>15
  <2>6. rfltab' \in [Rfl -> RfEntry] /\ rfcall' \in [RfProc -> RfCalls \cup {RfIdle}]
    BY <1>9, <1>10
  <2>7. c.op \in {"open", "read", "write"} => c.desc \in Rfl
    BY <1>10
  <2> QED BY <1>15, <1>16, <2>1, <2>2, <2>3, <2>4, <2>5, <2>6, <2>7 DEF RfFilesInv
<1>18. RfAsked' = RfAsked
  BY <1>2, <1>4, <1>15 DEF RfAsked
<1>19. CASE e = RfIdle
  <2>1. RfEffects' = [RfEffects EXCEPT ![p] = x]
    BY <1>2, <1>13, <1>15, <1>19 DEF RfEffects
  <2>2. RF!Performed(files, c) = r
    BY <1>6, SameServer
  <2>3. RF!TakeEffect(p)
    BY <1>3, <1>4, <1>5, <1>7, <1>9, <1>12, <1>18, <1>19, <2>1, <2>2 DEF RF!TakeEffect
  <2> QED BY <1>17, <2>3
<1>20. CASE e # RfIdle
  <2>1. RfEffects' = RfEffects
    BY <1>9, <1>20 DEF RfEffects
  <2>2. UNCHANGED RF!rfvars
    BY <1>9, <1>12, <1>16, <1>18, <1>20, <2>1 DEF RF!rfvars
  <2> QED BY <1>17, <2>2
<1> QED BY <1>19, <1>20

\* A loss, and a kill of a process that does not hold the mutex.
LEMMA RfLossRefines ==
    ASSUME RfInv, RfFilesInv, RfCareless = {},
           RfLose \/ (\E p \in RfProc : KillRf(p)) \/ UNCHANGED rfilevars
    PROVE  RfFilesInv' /\ UNCHANGED RF!rfvars
<1>1. /\ rfltab \in [Rfl -> RfEntry] /\ rfcall \in [RfProc -> RfCalls \cup {RfIdle}]
  BY DEF RfFilesInv
<1>2. CASE RfLose \/ UNCHANGED rfilevars
  <2>1. /\ UNCHANGED <<rfltab, rf_seq, exch, files, rfret, rfcall>>
        /\ requests' \subseteq requests /\ replies' \subseteq replies
    BY <1>2 DEF RfLose, rfilevars, rfnet
  <2>2. RfPositions' = RfPositions
    BY <2>1 DEF RfPositions
  <2>3. RfFilesInv'
    BY <1>1, <2>1, RfFilesFrame
  <2> QED BY <2>1, <2>2, <2>3, RfUnseen
<1>3. ASSUME NEW p \in RfProc, KillRf(p) PROVE RfFilesInv' /\ UNCHANGED RF!rfvars
  <2>1. /\ ~Holds(p)
        /\ UNCHANGED <<rfltab, rf_seq, requests, replies, files, rfret>>
        /\ rfcall' = [rfcall EXCEPT ![p] = RfIdle]
        /\ exch' = IF exch.pid = p THEN NoExch ELSE exch
    BY <1>3 DEF KillRf, rfnet
  <2>2. exch' = exch
    BY <2>1, ExchangeHolds
  <2>3. rfcall' \in [RfProc -> RfCalls \cup {RfIdle}]
    BY <1>1, <2>1
  <2>4. RfPositions' = RfPositions
    BY <2>1 DEF RfPositions
  <2>5. RfFilesInv'
    BY <1>1, <2>1, <2>2, <2>3, RfFilesFrame
  <2> QED BY <2>1, <2>2, <2>4, <2>5, RfUnseen
<1> QED BY <1>2, <1>3

\* At the start there are no files and no exchange.
LEMMA RfFilesInit ==
    ASSUME RfInit
    PROVE  RfFilesInv /\ RF!RFInit
<1>1. /\ rfltab = [d \in Rfl |-> [rfstate |-> "RF_FREE", rfname |-> CHOOSE n \in RfName : TRUE,
                                  rfpos |-> 0]]
      /\ rf_seq = 1 /\ rfcall = [p \in RfProc |-> RfIdle] /\ exch = NoExch
      /\ requests = {} /\ replies = {} /\ files = <<>>
      /\ rfret = [p \in RfProc |-> RfIdle]
  BY DEF RfInit
<1>2. rfltab \in [Rfl -> RfEntry]
  BY <1>1 DEF RfEntry, AnyName
<1>3. IsFiles(files)
  BY <1>1 DEF IsFiles
<1>4. RfFilesInv
  BY <1>1, <1>2, <1>3 DEF RfFilesInv
<1>5. \A p \in RfProc : exch.pid # p
  BY <1>1, RemoteFileAssumption DEF NoExch
<1>6. /\ RfAsked = [p \in RfProc |-> RfIdle] /\ RfEffects = [p \in RfProc |-> RfIdle]
      /\ RfPositions = [d \in Rfl |-> 0]
  BY <1>1, <1>5 DEF RfAsked, RfEffects, RfPositions
<1> QED BY <1>1, <1>4, <1>6 DEF RF!RFInit

\* A request that succeeds has had its effect between its call and its return,
\* once as far as anybody can see, however often it was sent and whichever of
\* its answers came first (rfscomm.c:45-82); one that fails may have had it;
\* and a position moves by what was read or written (rflread.c:96,
\* rflwrite.c:93).  What the code leaves to chance is left out: copies of a
\* request that come after its exchange, the kill of the holder of the mutex,
\* and the size of a file that does not exist.
THEOREM RfImplementsRemoteFiles ==
    ASSUME RfCareless = {}
    PROVE  RfSpec => RemoteFilesRefined
<1>1. RfInit => RfInv /\ RfFilesInv /\ RF!RFInit
  BY RfInitInv, RfFilesInit
<1>2. (RfInv /\ RfFilesInv) /\ [RfNext]_rfilevars
      => (RfInv /\ RfFilesInv)' /\ [RF!RFNext]_(RF!rfvars)
  <2> SUFFICES ASSUME RfInv, RfFilesInv, [RfNext]_rfilevars
               PROVE  RfInv' /\ RfFilesInv' /\ [RF!RFNext]_(RF!rfvars)
    OBVIOUS
  <2>1. ASSUME NEW p \in RfProc, RfLocal(p) \/ \E c \in RfCalls : RfBegin(p, c)
        PROVE  RfInv' /\ RfFilesInv' /\ [RF!RFNext]_(RF!rfvars)
    <3>1. RfInv'
      BY <2>1, RfBeginKeeps, RfStepKeeps
    <3>2. RfFilesInv' /\ (UNCHANGED RF!rfvars \/ \E d \in Rfl : RF!MoveTo(d))
      BY <2>1, RfLocalRefines
    <3> QED BY <3>1, <3>2 DEF RF!RFNext
  <2>2. ASSUME NEW p \in RfProc, RfSend(p)
        PROVE  RfInv' /\ RfFilesInv' /\ [RF!RFNext]_(RF!rfvars)
    <3>1. RfInv' /\ RfFilesInv' /\ RF!Begin(p)
      BY <2>2, RfStepKeeps, RfSendRefines
    <3> QED BY <3>1 DEF RF!RFNext
  <2>3. ASSUME NEW p \in RfProc, RfReceive(p) \/ RfTimeout(p)
        PROVE  RfInv' /\ RfFilesInv' /\ [RF!RFNext]_(RF!rfvars)
    <3>1. RfInv'
      BY <2>3, RfStepKeeps
    <3>2. RfFilesInv' /\ (UNCHANGED RF!rfvars \/ RF!Fail(p) \/ RF!Succeed(p))
      BY <2>3, RfReceiveRefines
    <3> QED BY <3>1, <3>2 DEF RF!RFNext
  <2>4. CASE Serve
    <3>1. RfInv'
      BY <2>4, ServeKeeps
    <3>2. RfFilesInv' /\ (UNCHANGED RF!rfvars \/ \E p \in RfProc : RF!TakeEffect(p))
      BY <2>4, ServeRefines
    <3> QED BY <3>1, <3>2 DEF RF!RFNext
  <2>5. CASE RfLose \/ (\E p \in RfProc : KillRf(p)) \/ UNCHANGED rfilevars
    <3>1. RfInv'
      <4>1. ASSUME NEW p \in RfProc, KillRf(p) PROVE RfInv'
        BY <4>1, RfStepKeeps
      <4>2. CASE RfLose \/ UNCHANGED rfilevars
        <5>1. UNCHANGED <<rf_mutex, rfcall, exch>>
          BY <4>2 DEF RfLose, rfilevars
        <5> QED BY <5>1, MutexFrame DEF RfInv
      <4> QED BY <2>5, <4>1, <4>2
    <3>2. RfFilesInv' /\ UNCHANGED RF!rfvars
      BY <2>5, RfLossRefines
    <3> QED BY <3>1, <3>2
  <2> QED BY <2>1, <2>2, <2>3, <2>4, <2>5 DEF RfNext
<1> QED BY <1>1, <1>2, PTL DEF RfSpec, RemoteFilesRefined, RF!RFSpec
-----------------------------------------------------------------------------
\* Ports.

PortsSpec == PortsInit /\ [][PortsNext]_portvars

PortSem == [count : Int, line : Queue(Proc)]

PortEntry == [ptstate : {"PT_FREE", "PT_LIMBO", "PT_ALLOC"}, ptseq : Nat, ptmaxcnt : Nat,
              msgs : Seq(Msgs), ssem : PortSem, rsem : PortSem]

PortCalls ==
    {Gone, Idle}
    \cup [op : {"send"}, port : Port, seq : Nat, msg : Msgs]
    \cup [op : {"recv"}, port : Port, seq : Nat, msg : {NoMsg}]
    \cup [op : {"dispose", "semreset1", "semreset2"}, port : Port,
          newstate : {"PT_ALLOC", "PT_FREE"}]

Waits(p, op, i)  == ptcall[p].op = op /\ ptcall[p].port = i
Clears(p, i)     == Clearing(p) /\ ptcall[p].port = i
SomebodyGone     == \E q \in Proc : ptcall[q] = Gone

\* Who is in the lines of a port: callers of this port, and if it is allocated,
\* since it was cleared last.
LinesOK(i) ==
    /\ SemOK(porttab[i].ssem, Proc) /\ SemOK(porttab[i].rsem, Proc)
    /\ \A p \in InLine(porttab[i].ssem) : Waits(p, "send", i)
    /\ \A p \in InLine(porttab[i].rsem) : Waits(p, "recv", i)
    /\ porttab[i].ptstate = "PT_ALLOC" =>
          \A p \in InLine(porttab[i].ssem) \cup InLine(porttab[i].rsem) :
              ptcall[p].seq = porttab[i].ptseq
    /\ porttab[i].ptstate = "PT_FREE" =>
          InLine(porttab[i].ssem) = {} /\ InLine(porttab[i].rsem) = {}

\* No call is of a later life of the port, and none of this one while it is
\* being cleared.
SeqsOK(i) ==
    \A p \in Proc :
        InCall(p) /\ ptcall[p].port = i =>
            /\ ptcall[p].seq <= porttab[i].ptseq
            /\ porttab[i].ptstate = "PT_LIMBO" => ptcall[p].seq # porttab[i].ptseq

\* A port in limbo is being cleared by one process, or that was killed; what it
\* has reset stays so.
ClearOK(i) ==
    /\ \A p, q \in Proc : Clears(p, i) /\ Clears(q, i) => p = q
    /\ porttab[i].ptstate = "PT_LIMBO" => SomebodyGone \/ \E p \in Proc : Clears(p, i)
    /\ \A p \in Proc :
          Clears(p, i) =>
              /\ porttab[i].ptstate = "PT_LIMBO"
              /\ ptcall[p].op \in {"semreset1", "semreset2"} =>
                    IF ptcall[p].newstate = "PT_ALLOC"
                    THEN porttab[i].msgs = <<>> /\ porttab[i].ssem = NewSem(porttab[i].ptmaxcnt)
                    ELSE porttab[i].ssem = NewSem(0)
              /\ ptcall[p].op = "semreset2" => porttab[i].rsem = NewSem(0)

PlacesOK(i) ==
    porttab[i].ptstate = "PT_ALLOC" =>
        /\ Units(porttab[i].rsem) + Cardinality(Coming("recv", i)) <= Len(porttab[i].msgs)
        /\ Len(porttab[i].msgs) + Units(porttab[i].ssem) + Cardinality(Coming("send", i))
               <= porttab[i].ptmaxcnt

PortOK(i) == LinesOK(i) /\ SeqsOK(i) /\ ClearOK(i) /\ PlacesOK(i)

PortInv ==
    /\ porttab \in [Port -> PortEntry]
    /\ ptcall \in [Proc -> PortCalls]
    /\ ptnextid \in Port
    /\ \A i \in Port : PortOK(i)

\* Cardinality of sets of processes.
LEMMA ComingCard ==
    ASSUME NEW S, NEW T, S \subseteq Proc, T \subseteq Proc
    PROVE  /\ Cardinality(S) \in Nat
           /\ S \subseteq T => Cardinality(S) <= Cardinality(T)
           /\ \A h : S \subseteq T \cup {h} => Cardinality(S) <= Cardinality(T) + 1
           /\ \A p : p \in T /\ S \subseteq T \ {p} => Cardinality(S) <= Cardinality(T) - 1
  BY PortsAssumption, SubsetCard

\* Who has been let into a port and is still to run, in the terms of the port.
LEMMA ComingIs ==
    ASSUME PortInv, NEW op \in {"send", "recv"}, NEW i \in Port
    PROVE  Coming(op, i) =
              {p \in Proc : /\ Waits(p, op, i)
                            /\ p \notin InLine(porttab[i].ssem) \cup InLine(porttab[i].rsem)
                            /\ porttab[i].ptstate = "PT_ALLOC"
                            /\ ptcall[p].seq = porttab[i].ptseq}
  BY DEF Coming, Released, InCall, Outdated, Waits

\* What a process is doing, by the name of it.
LEMMA PortCallKinds ==
    ASSUME PortInv, NEW p \in Proc
    PROVE  /\ ptcall[p].op \in {"gone", "idle", "send", "recv", "dispose", "semreset1", "semreset2"}
           /\ ptcall[p].op = "gone" => ptcall[p] = Gone
           /\ ptcall[p].op = "idle" => ptcall[p] = Idle
           /\ InCall(p) => /\ ptcall[p].port \in Port /\ ptcall[p].seq \in Nat
                           /\ ptcall[p].op = "send" => ptcall[p].msg \in Msgs
           /\ Clearing(p) => ptcall[p].port \in Port /\ ptcall[p].newstate \in {"PT_ALLOC", "PT_FREE"}
           /\ ptcall[p] = Idle => ~InCall(p) /\ ~Clearing(p) /\ ptcall[p] # Gone
           /\ InCall(p) => ~Clearing(p) /\ ptcall[p] # Gone /\ ptcall[p] # Idle
           /\ Clearing(p) => ptcall[p] # Gone
<1>1. ptcall[p] \in PortCalls
  BY DEF PortInv
<1> QED BY <1>1 DEF PortCalls, Gone, Idle, InCall, Clearing

\* At the start no port is allocated and nobody is in a call.
LEMMA PortsInitInv ==
    ASSUME PortsInit
    PROVE  PortInv
<1> DEFINE e == [ptstate |-> "PT_FREE", ptseq |-> 0, ptmaxcnt |-> 0,
                 msgs |-> <<>>, ssem |-> NewSem(0), rsem |-> NewSem(0)]
<1>1. porttab = [i \in Port |-> e] /\ ptcall = [p \in Proc |-> Idle] /\ ptnextid = 0
  BY DEF PortsInit
<1>2. /\ SemOK(NewSem(0), Proc) /\ InLine(NewSem(0)) = {}
      /\ NewSem(0) \in PortSem
  <2>1. SemOK(NewSem(0), Proc) /\ InLine(NewSem(0)) = {}
    BY NewSemOK
  <2> QED BY <2>1 DEF SemOK, PortSem, NewSem
<1>3. e \in PortEntry
  <2>1. <<>> \in Seq(Msgs)
    OBVIOUS
  <2> QED BY <1>2, <2>1 DEF PortEntry
<1>4. /\ e.ptstate = "PT_FREE" /\ e.ssem = NewSem(0) /\ e.rsem = NewSem(0)
  OBVIOUS
<1> HIDE DEF e
<1>5. \A p \in Proc : ~InCall(p) /\ ~Clearing(p)
  BY <1>1 DEF InCall, Clearing, Idle
<1>6. ASSUME NEW i \in Port PROVE PortOK(i)
  <2>1. porttab[i] = e
    BY <1>1
  <2>2. LinesOK(i)
    BY <1>2, <1>4, <2>1 DEF LinesOK
  <2>3. SeqsOK(i) /\ ClearOK(i) /\ PlacesOK(i)
    BY <1>4, <1>5, <2>1 DEF SeqsOK, ClearOK, PlacesOK, Clears
  <2> QED BY <2>2, <2>3 DEF PortOK
<1>7. 0 \in Port
  BY PortsAssumption DEF Port
<1>8. ptcall \in [Proc -> PortCalls]
  BY <1>1 DEF PortCalls
<1> QED BY <1>1, <1>3, <1>6, <1>7, <1>8 DEF PortInv

\* A step of process p on port i: it changes nothing that other ports see.
PortStep(p, i) ==
    /\ porttab' \in [Port -> PortEntry] /\ ptcall' \in [Proc -> PortCalls]
    /\ ptnextid' \in Port
    /\ \A j \in Port : j # i => porttab'[j] = porttab[j]
    /\ \A q \in Proc : q # p => ptcall'[q] = ptcall[q]
    /\ ptcall[p] # Gone
    /\ InCall(p) \/ Clearing(p) => ptcall[p].port = i
    /\ InCall(p)' \/ Clearing(p)' => ptcall'[p].port = i

\* Such a step keeps the invariant if it does so for the port it is on.
LEMMA OtherPorts ==
    ASSUME PortInv, NEW p \in Proc, NEW i \in Port, PortStep(p, i), PortOK(i)'
    PROVE  PortInv'
<1>1. SomebodyGone => SomebodyGone'
  BY DEF SomebodyGone, PortStep
<1>2. ASSUME NEW j \in Port, j # i PROVE PortOK(j)'
  <2>1. porttab'[j] = porttab[j]
    BY <1>2 DEF PortStep
  <2>2. /\ \A q \in Proc : (Clears(q, j))' <=> Clears(q, j)
        /\ \A q \in Proc : (InCall(q) /\ ptcall[q].port = j)' <=> (InCall(q) /\ ptcall[q].port = j)
        /\ \A q \in Proc : (Waits(q, "send", j))' <=> Waits(q, "send", j)
        /\ \A q \in Proc : (Waits(q, "recv", j))' <=> Waits(q, "recv", j)
        /\ \A q \in Proc : Clears(q, j) \/ (InCall(q) /\ ptcall[q].port = j) => ptcall'[q] = ptcall[q]
    BY <1>2 DEF PortStep, Clears, Clearing, InCall, Waits
  <2>3. PortOK(j)
    BY DEF PortInv
  <2>4. \A q \in InLine(porttab[j].ssem) \cup InLine(porttab[j].rsem) :
           q \in Proc /\ InCall(q) /\ ptcall[q].port = j
    BY <2>3, NobodyInLine DEF PortOK, LinesOK, Waits, InCall
  <2>5. LinesOK(j)'
    BY <2>1, <2>2, <2>3, <2>4 DEF PortOK, LinesOK
  <2>6. SeqsOK(j)'
    BY <2>1, <2>2, <2>3 DEF PortOK, SeqsOK
  <2>7. ClearOK(j)'
    BY <1>1, <2>1, <2>2, <2>3 DEF PortOK, ClearOK
  <2>8. Coming("recv", j)' = Coming("recv", j) /\ Coming("send", j)' = Coming("send", j)
    <3>1. ASSUME NEW q \in Proc, NEW op \in {"send", "recv"}
          PROVE  (ptcall[q].op = op /\ ptcall[q].port = j /\ Released(q) /\ ~Outdated(q))'
                 <=> (ptcall[q].op = op /\ ptcall[q].port = j /\ Released(q) /\ ~Outdated(q))
      <4>1. CASE ptcall'[q] = ptcall[q]
        BY <2>1, <4>1 DEF Released, InCall, Outdated
      <4>2. CASE ptcall'[q] # ptcall[q]
        <5>1. ~((ptcall[q].op = op /\ ptcall[q].port = j)') /\ ~(ptcall[q].op = op /\ ptcall[q].port = j)
          BY <2>2, <4>2 DEF InCall, Waits
        <5> QED BY <5>1
      <4> QED BY <4>1, <4>2
    <3> QED BY <3>1 DEF Coming
  <2>9. PlacesOK(j)'
    BY <2>1, <2>3, <2>8 DEF PortOK, PlacesOK
  <2> QED BY <2>5, <2>6, <2>7, <2>9 DEF PortOK
<1> QED BY <1>2 DEF PortInv, PortStep

\* A semaphore that is in order is one of the values that the table may have.
LEMMA SemRecord ==
    ASSUME NEW s, SemOK(s, Proc)
    PROVE  s \in PortSem
  BY DEF SemOK, PortSem

\* A step on a port that is allocated before and after.
LEMMA AllocStep ==
    ASSUME PortInv, NEW p \in Proc, NEW i \in Port, PortStep(p, i),
           porttab[i].ptstate = "PT_ALLOC", porttab'[i].ptstate = "PT_ALLOC",
           porttab'[i].ptseq = porttab[i].ptseq,
           SemOK(porttab'[i].ssem, Proc), SemOK(porttab'[i].rsem, Proc),
           \A q \in InLine(porttab'[i].ssem) :
               \/ q \in InLine(porttab[i].ssem) /\ ptcall'[q] = ptcall[q]
               \/ q = p /\ Waits(p, "send", i)' /\ ptcall'[p].seq = porttab[i].ptseq,
           \A q \in InLine(porttab'[i].rsem) :
               \/ q \in InLine(porttab[i].rsem) /\ ptcall'[q] = ptcall[q]
               \/ q = p /\ Waits(p, "recv", i)' /\ ptcall'[p].seq = porttab[i].ptseq,
           ~Clearing(p)',
           InCall(p)' => ptcall'[p].seq <= porttab[i].ptseq,
           PlacesOK(i)'
    PROVE  PortInv'
<1>1. PortOK(i)
  BY DEF PortInv
<1>2. LinesOK(i)'
  BY <1>1 DEF PortOK, LinesOK, Waits
<1>3. SeqsOK(i)'
  BY <1>1 DEF PortOK, SeqsOK, InCall, PortStep
<1>4. \A q \in Proc : ~Clears(q, i)
  BY <1>1 DEF PortOK, ClearOK
<1>5. \A q \in Proc : ~Clears(q, i)'
  BY <1>4 DEF Clears, Clearing, PortStep
<1>6. ClearOK(i)'
  BY <1>5 DEF ClearOK
<1> QED BY <1>2, <1>3, <1>6, OtherPorts DEF PortOK

\* The sender that has a place puts its message into it.
LEMMA DepositKeeps ==
    ASSUME PortInv, NEW p \in Proc, NEW i \in Port, NEW msg \in Msgs, NEW w,
           porttab[i].ptstate = "PT_ALLOC",
           SemOK(w, Proc), InLine(w) = InLine(porttab[i].ssem),
           Units(w) <= Units(porttab[i].ssem),
           Len(porttab[i].msgs) + Units(w) + Cardinality(Coming("send", i) \ {p}) + 1
               <= porttab[i].ptmaxcnt,
           ptcall[p] = Idle \/ Waits(p, "send", i),
           p \notin InLine(porttab[i].ssem),
           Deposit(p, i, [porttab[i] EXCEPT !.ssem = w], msg), ptnextid' = ptnextid
    PROVE  PortInv'
<1> DEFINE e == porttab[i]
<1>1. /\ e \in PortEntry /\ PortOK(i) /\ ptnextid \in Port
      /\ porttab \in [Port -> PortEntry] /\ ptcall \in [Proc -> PortCalls]
  BY DEF PortInv
<1>2. /\ SemOK(e.ssem, Proc) /\ SemOK(e.rsem, Proc)
      /\ \A q \in InLine(e.ssem) : Waits(q, "send", i)
      /\ \A q \in InLine(e.rsem) : Waits(q, "recv", i)
      /\ InLine(e.ssem) \subseteq Proc /\ InLine(e.rsem) \subseteq Proc
      /\ Units(e.rsem) + Cardinality(Coming("recv", i)) <= Len(e.msgs)
      /\ Len(e.msgs) + Units(e.ssem) + Cardinality(Coming("send", i)) <= e.ptmaxcnt
      /\ Units(w) \in Nat /\ Units(e.rsem) \in Nat /\ Units(e.ssem) \in Nat
      /\ e.msgs \in Seq(Msgs) /\ Len(e.msgs) \in Nat /\ e.ptmaxcnt \in Nat
  <2>1. LinesOK(i) /\ PlacesOK(i)
    BY <1>1 DEF PortOK
  <2>2. SemOK(e.ssem, Proc) /\ SemOK(e.rsem, Proc)
    BY <2>1 DEF LinesOK
  <2>3. InLine(e.ssem) \subseteq Proc /\ InLine(e.rsem) \subseteq Proc
    BY <2>2, NobodyInLine
  <2>4. Units(w) \in Nat /\ Units(e.rsem) \in Nat /\ Units(e.ssem) \in Nat
    BY <2>2, UnitsAre
  <2>5. e.msgs \in Seq(Msgs) /\ Len(e.msgs) \in Nat /\ e.ptmaxcnt \in Nat
    BY <1>1 DEF PortEntry
  <2> QED BY <2>1, <2>2, <2>3, <2>4, <2>5 DEF LinesOK, PlacesOK
<1>3. p \notin InLine(e.ssem) /\ p \notin InLine(e.rsem)
  BY <1>2, PortCallKinds DEF Waits, Idle
<1>4. \A op \in {"send", "recv"} : Coming(op, i) \subseteq Proc
  BY DEF Coming
<1>5. ~Clearing(p) /\ ptcall[p] # Gone
  BY PortCallKinds DEF Waits, InCall
<1>6. InCall(p) => ptcall[p].seq <= e.ptseq /\ ptcall[p].port = i
  BY <1>1, PortCallKinds DEF PortOK, SeqsOK, Waits
<1>7. CASE panicked' = TRUE /\ porttab' = [porttab EXCEPT ![i] = [e EXCEPT !.ssem = w]]
           /\ ptcall' = ptcall
  <2> DEFINE f == [e EXCEPT !.ssem = w]
  <2>1. /\ f.ptstate = e.ptstate /\ f.ptseq = e.ptseq /\ f.ptmaxcnt = e.ptmaxcnt
        /\ f.msgs = e.msgs /\ f.ssem = w /\ f.rsem = e.rsem
        /\ f \in PortEntry
    <3>1. w \in PortSem
      BY SemRecord
    <3> QED BY <1>1, <3>1 DEF PortEntry
  <2> HIDE DEF f
  <2>2. /\ porttab' \in [Port -> PortEntry] /\ porttab'[i] = f
        /\ \A j \in Port : j # i => porttab'[j] = porttab[j]
    BY <1>1, <1>7, <2>1 DEF f
  <2>3. PortStep(p, i)
    BY <1>1, <1>5, <1>6, <1>7, <2>2 DEF PortStep, InCall, Clearing
  <2>4. Coming("recv", i)' = Coming("recv", i) /\ Coming("send", i)' = Coming("send", i)
    <3>1. \A q \in Proc : Released(q)' /\ ptcall[q].port = i <=> Released(q) /\ ptcall[q].port = i
      BY <1>7, <2>1, <2>2 DEF Released, InCall
    <3>2. \A q \in Proc : ptcall[q].port = i => (Outdated(q)' <=> Outdated(q))
      BY <1>7, <2>1, <2>2 DEF Outdated
    <3> QED BY <1>7, <3>1, <3>2 DEF Coming
  <2>5. Cardinality(Coming("send", i)) \in Nat
    BY <1>4, ComingCard
  <2>6. PlacesOK(i)'
    <3>1. /\ Units(e.rsem) + Cardinality(Coming("recv", i)) <= Len(e.msgs)
          /\ Len(e.msgs) + Units(w) + Cardinality(Coming("send", i)) <= e.ptmaxcnt
      BY <1>2, <2>5, SMTT(60)
    <3>2. /\ Units(f.rsem) + Cardinality(Coming("recv", i)') <= Len(f.msgs)
          /\ Len(f.msgs) + Units(f.ssem) + Cardinality(Coming("send", i)') <= f.ptmaxcnt
      BY <2>1, <2>4, <3>1
    <3> QED BY <2>2, <3>2 DEF PlacesOK
  <2> QED BY <1>2, <1>5, <1>6, <1>7, <2>1, <2>2, <2>3, <2>6, AllocStep DEF Clearing, InCall
<1>8. CASE /\ porttab' = [porttab EXCEPT ![i] = [[e EXCEPT !.ssem = w] EXCEPT
                                 !.msgs = Append(e.msgs, msg), !.rsem = SemSignal(e.rsem)]]
           /\ ptcall' = [ptcall EXCEPT ![p] = Idle]
  <2> DEFINE f == [[e EXCEPT !.ssem = w] EXCEPT !.msgs = Append(e.msgs, msg),
                                                !.rsem = SemSignal(e.rsem)]
  <2>0. SemOK(SemSignal(e.rsem), Proc)
    BY <1>2, SemSignalOK
  <2>1. /\ f.ptstate = e.ptstate /\ f.ptseq = e.ptseq /\ f.ptmaxcnt = e.ptmaxcnt
        /\ f.msgs = Append(e.msgs, msg) /\ f.ssem = w /\ f.rsem = SemSignal(e.rsem)
        /\ f \in PortEntry
    <3>1. w \in PortSem /\ SemSignal(e.rsem) \in PortSem
      BY <2>0, SemRecord
    <3>2. Append(e.msgs, msg) \in Seq(Msgs)
      BY <1>2
    <3> QED BY <1>1, <3>1, <3>2 DEF PortEntry
  <2>2. Len(Append(e.msgs, msg)) = Len(e.msgs) + 1
    BY <1>2
  <2> HIDE DEF f
  <2>3. /\ porttab' \in [Port -> PortEntry] /\ porttab'[i] = f
        /\ \A j \in Port : j # i => porttab'[j] = porttab[j]
    BY <1>1, <1>8, <2>1 DEF f
  <2>4. /\ ptcall' \in [Proc -> PortCalls] /\ ptcall'[p] = Idle
        /\ \A q \in Proc : q # p => ptcall'[q] = ptcall[q]
        /\ ~InCall(p)' /\ ~Clearing(p)'
    BY <1>1, <1>8 DEF PortCalls, InCall, Clearing, Idle
  <2>5. PortStep(p, i)
    BY <1>1, <1>5, <1>6, <2>3, <2>4 DEF PortStep
  <2>6. PICK h : /\ InLine(f.rsem) \subseteq InLine(e.rsem)
                 /\ InLine(e.rsem) \subseteq InLine(f.rsem) \cup {h}
                 /\ \/ Units(f.rsem) = Units(e.rsem)
                    \/ Units(f.rsem) = Units(e.rsem) + 1 /\ InLine(e.rsem) = InLine(f.rsem)
    <3>1. PICK t : t = e.rsem
      OBVIOUS
    <3>2. f.rsem = SemSignal(t) /\ SemOK(t, Proc)
      BY <1>2, <2>1, <3>1
    <3> QED BY <3>1, <3>2, SignalLetsIn
  <2>7. Coming("send", i)' \subseteq Coming("send", i) \ {p}
    <3> SUFFICES ASSUME NEW q \in Coming("send", i)' PROVE q \in Coming("send", i) \ {p}
      OBVIOUS
    <3>1. q \in Proc /\ Waits(q, "send", i)' /\ Released(q)' /\ ~Outdated(q)'
      BY DEF Coming, Waits
    <3>2. q # p /\ ptcall'[q] = ptcall[q] /\ Waits(q, "send", i)
      BY <2>4, <3>1 DEF Waits, Idle
    <3>3. q \notin InLine(w) /\ ptcall[q].seq = e.ptseq
      BY <2>1, <2>3, <3>1, <3>2 DEF Released, Outdated, Waits
    <3>4. q \notin InLine(e.ssem) /\ q \notin InLine(e.rsem)
      BY <1>2, <3>2, <3>3 DEF Waits
    <3> QED BY <3>1, <3>2, <3>3, <3>4, ComingIs
  <2>8. \A q \in Coming("recv", i)' : q \in Coming("recv", i) \/ q \in InLine(e.rsem) \ InLine(f.rsem)
    <3> SUFFICES ASSUME NEW q \in Coming("recv", i)', q \notin InLine(e.rsem)
                 PROVE  q \in Coming("recv", i)
      <4>1. \A q \in Coming("recv", i)' : q \notin InLine(f.rsem)
        BY <2>1, <2>3 DEF Coming, Released
      <4> QED BY <4>1
    <3>1. q \in Proc /\ Waits(q, "recv", i)' /\ Released(q)' /\ ~Outdated(q)'
      BY DEF Coming, Waits
    <3>2. q # p /\ ptcall'[q] = ptcall[q] /\ Waits(q, "recv", i)
      BY <2>4, <3>1 DEF Waits, Idle
    <3>3. ptcall[q].seq = e.ptseq
      BY <2>1, <2>3, <3>1, <3>2 DEF Outdated, Waits
    <3>4. q \notin InLine(e.ssem)
      BY <1>2, <3>2 DEF Waits
    <3> QED BY <3>1, <3>2, <3>3, <3>4, ComingIs
  <2>9. Units(f.rsem) + Cardinality(Coming("recv", i)') <= Len(f.msgs)
    <3>1. Coming("recv", i)' \subseteq Proc /\ Coming("recv", i) \subseteq Proc
      BY DEF Coming
    <3>2. /\ Cardinality(Coming("recv", i)') \in Nat /\ Cardinality(Coming("recv", i)) \in Nat
      BY <3>1, ComingCard
    <3>3. CASE Units(f.rsem) = Units(e.rsem)
      <4>1. Coming("recv", i)' \subseteq Coming("recv", i) \cup {h}
        BY <2>6, <2>8
      <4>2. Cardinality(Coming("recv", i)') <= Cardinality(Coming("recv", i)) + 1
        BY <3>1, <4>1, ComingCard
      <4> QED BY <1>2, <2>1, <2>2, <3>2, <3>3, <4>2
    <3>4. CASE Units(f.rsem) = Units(e.rsem) + 1 /\ InLine(e.rsem) = InLine(f.rsem)
      <4>1. Coming("recv", i)' \subseteq Coming("recv", i)
        BY <2>8, <3>4
      <4>2. Cardinality(Coming("recv", i)') <= Cardinality(Coming("recv", i))
        BY <3>1, <4>1, ComingCard
      <4> QED BY <1>2, <2>1, <2>2, <3>2, <3>4, <4>2
    <3> QED BY <2>6, <3>3, <3>4
  <2>10. Len(f.msgs) + Units(f.ssem) + Cardinality(Coming("send", i)') <= f.ptmaxcnt
    <3>1. Coming("send", i)' \subseteq Proc /\ Coming("send", i) \ {p} \subseteq Proc
      BY DEF Coming
    <3>2. /\ Cardinality(Coming("send", i)') \in Nat /\ Cardinality(Coming("send", i) \ {p}) \in Nat
          /\ Cardinality(Coming("send", i)') <= Cardinality(Coming("send", i) \ {p})
      BY <2>7, <3>1, ComingCard
    <3>3. Len(f.msgs) = Len(e.msgs) + 1 /\ Units(f.ssem) = Units(w) /\ f.ptmaxcnt = e.ptmaxcnt
      BY <2>1, <2>2
    <3>4. Len(e.msgs) \in Nat /\ Units(w) \in Nat /\ e.ptmaxcnt \in Nat
      BY <1>2
    <3> HIDE DEF e
    <3>5. Len(e.msgs) + Units(w) + Cardinality(Coming("send", i) \ {p}) + 1 <= e.ptmaxcnt
      BY DEF e
    <3> QED BY <3>2, <3>3, <3>4, <3>5, SMTT(60)
  <2>11. PlacesOK(i)'
    BY <2>1, <2>3, <2>9, <2>10 DEF PlacesOK
  <2>12. \A q \in InLine(f.ssem) : q \in InLine(e.ssem) /\ ptcall'[q] = ptcall[q]
    BY <1>2, <1>3, <2>1, <2>4
  <2>13. \A q \in InLine(f.rsem) : q \in InLine(e.rsem) /\ ptcall'[q] = ptcall[q]
    BY <1>2, <1>3, <2>4, <2>6
  <2> QED BY <2>0, <2>1, <2>3, <2>4, <2>5, <2>11, <2>12, <2>13, AllocStep
<1>9. [e EXCEPT !.ssem = w].msgs = e.msgs /\ [e EXCEPT !.ssem = w].rsem = e.rsem
  BY <1>1 DEF PortEntry
<1> QED BY <1>7, <1>8, <1>9 DEF Deposit
\* The receiver that has a message takes it.
LEMMA TakeKeeps ==
    ASSUME PortInv, NEW p \in Proc, NEW i \in Port, NEW w,
           porttab[i].ptstate = "PT_ALLOC",
           SemOK(w, Proc), InLine(w) = InLine(porttab[i].rsem),
           Units(w) + Cardinality(Coming("recv", i) \ {p}) + 1 <= Len(porttab[i].msgs),
           ptcall[p] = Idle \/ Waits(p, "recv", i),
           p \notin InLine(porttab[i].rsem),
           Take(p, i, [porttab[i] EXCEPT !.rsem = w]), ptnextid' = ptnextid
    PROVE  PortInv'
<1> DEFINE e == porttab[i]
<1>1. /\ e \in PortEntry /\ PortOK(i) /\ ptnextid \in Port
      /\ porttab \in [Port -> PortEntry] /\ ptcall \in [Proc -> PortCalls]
  BY DEF PortInv
<1>2. /\ SemOK(e.ssem, Proc) /\ SemOK(e.rsem, Proc)
      /\ \A q \in InLine(e.ssem) : Waits(q, "send", i)
      /\ \A q \in InLine(e.rsem) : Waits(q, "recv", i)
      /\ InLine(e.ssem) \subseteq Proc /\ InLine(e.rsem) \subseteq Proc
      /\ Len(e.msgs) + Units(e.ssem) + Cardinality(Coming("send", i)) <= e.ptmaxcnt
      /\ Units(w) \in Nat /\ Units(e.rsem) \in Nat /\ Units(e.ssem) \in Nat
      /\ e.msgs \in Seq(Msgs) /\ Len(e.msgs) \in Nat /\ e.ptmaxcnt \in Nat
  <2>1. LinesOK(i) /\ PlacesOK(i)
    BY <1>1 DEF PortOK
  <2>2. SemOK(e.ssem, Proc) /\ SemOK(e.rsem, Proc)
    BY <2>1 DEF LinesOK
  <2>3. InLine(e.ssem) \subseteq Proc /\ InLine(e.rsem) \subseteq Proc
    BY <2>2, NobodyInLine
  <2>4. Units(w) \in Nat /\ Units(e.rsem) \in Nat /\ Units(e.ssem) \in Nat
    BY <2>2, UnitsAre
  <2>5. e.msgs \in Seq(Msgs) /\ Len(e.msgs) \in Nat /\ e.ptmaxcnt \in Nat
    BY <1>1 DEF PortEntry
  <2> QED BY <2>1, <2>2, <2>3, <2>4, <2>5 DEF LinesOK, PlacesOK
<1>3. p \notin InLine(e.ssem) /\ p \notin InLine(e.rsem)
  BY <1>2, PortCallKinds DEF Waits, Idle
<1>4. Cardinality(Coming("recv", i) \ {p}) \in Nat
  <2>1. Coming("recv", i) \ {p} \subseteq Proc
    BY DEF Coming
  <2> QED BY <2>1, ComingCard
<1>5. ~Clearing(p) /\ ptcall[p] # Gone
  BY PortCallKinds DEF Waits, InCall
<1>6. InCall(p) => ptcall[p].seq <= e.ptseq /\ ptcall[p].port = i
  BY <1>1, PortCallKinds DEF PortOK, SeqsOK, Waits
<1>7. Len(e.msgs) >= 1
  BY <1>2, <1>4
<1>8. [e EXCEPT !.rsem = w].msgs = e.msgs /\ [e EXCEPT !.rsem = w].ssem = e.ssem
  BY <1>1 DEF PortEntry
<1>9. /\ porttab' = [porttab EXCEPT ![i] = [[e EXCEPT !.rsem = w] EXCEPT
                         !.msgs = Tail(e.msgs), !.ssem = SemSignal(e.ssem)]]
      /\ ptcall' = [ptcall EXCEPT ![p] = Idle]
  BY <1>8 DEF Take
<1> DEFINE f == [[e EXCEPT !.rsem = w] EXCEPT !.msgs = Tail(e.msgs),
                                              !.ssem = SemSignal(e.ssem)]
<1>10. SemOK(SemSignal(e.ssem), Proc)
  BY <1>2, SemSignalOK
<1>11. /\ f.ptstate = e.ptstate /\ f.ptseq = e.ptseq /\ f.ptmaxcnt = e.ptmaxcnt
       /\ f.msgs = Tail(e.msgs) /\ f.rsem = w /\ f.ssem = SemSignal(e.ssem)
       /\ f \in PortEntry
  <2>1. w \in PortSem /\ SemSignal(e.ssem) \in PortSem
    BY <1>10, SemRecord
  <2>2. Tail(e.msgs) \in Seq(Msgs)
    <3>1. PICK m \in Seq(Msgs) : m = e.msgs
      BY <1>2
    <3>2. m # <<>>
      BY <1>7, <3>1
    <3> QED BY <3>1, <3>2
  <2> QED BY <1>1, <2>1, <2>2 DEF PortEntry
<1>12. Len(Tail(e.msgs)) = Len(e.msgs) - 1
  BY <1>2, <1>7
<1> HIDE DEF f
<1>13. /\ porttab' \in [Port -> PortEntry] /\ porttab'[i] = f
       /\ \A j \in Port : j # i => porttab'[j] = porttab[j]
  BY <1>1, <1>9, <1>11 DEF f
<1>14. /\ ptcall' \in [Proc -> PortCalls] /\ ptcall'[p] = Idle
       /\ \A q \in Proc : q # p => ptcall'[q] = ptcall[q]
       /\ ~InCall(p)' /\ ~Clearing(p)'
  BY <1>1, <1>9 DEF PortCalls, InCall, Clearing, Idle
<1>15. PortStep(p, i)
  <2>1. InCall(p) \/ Clearing(p) => ptcall[p].port = i
    BY <1>5, <1>6
  <2>2. ~(InCall(p)' \/ Clearing(p)')
    BY <1>14
  <2> HIDE DEF e
  <2> QED BY <1>1, <1>5, <1>13, <1>14, <2>1, <2>2 DEF PortStep
<1>16. PICK h : /\ InLine(f.ssem) \subseteq InLine(e.ssem)
                /\ InLine(e.ssem) \subseteq InLine(f.ssem) \cup {h}
                /\ \/ Units(f.ssem) = Units(e.ssem)
                   \/ Units(f.ssem) = Units(e.ssem) + 1 /\ InLine(e.ssem) = InLine(f.ssem)
  <2>1. PICK t : t = e.ssem
    OBVIOUS
  <2>2. f.ssem = SemSignal(t) /\ SemOK(t, Proc)
    BY <1>2, <1>11, <2>1
  <2> QED BY <2>1, <2>2, SignalLetsIn, SMTT(60)
<1>17. Coming("recv", i)' \subseteq Coming("recv", i) \ {p}
  <2> SUFFICES ASSUME NEW q \in Coming("recv", i)' PROVE q \in Coming("recv", i) \ {p}
    OBVIOUS
  <2>1. q \in Proc /\ Waits(q, "recv", i)' /\ Released(q)' /\ ~Outdated(q)'
    BY DEF Coming, Waits
  <2>2. q # p /\ ptcall'[q] = ptcall[q] /\ Waits(q, "recv", i)
    BY <1>14, <2>1 DEF Waits, Idle
  <2>3. q \notin InLine(w) /\ ptcall[q].seq = e.ptseq
    BY <1>11, <1>13, <2>1, <2>2 DEF Released, Outdated, Waits
  <2>4. q \notin InLine(e.rsem) /\ q \notin InLine(e.ssem)
    BY <1>2, <2>2, <2>3 DEF Waits
  <2> QED BY <2>1, <2>2, <2>3, <2>4, ComingIs
<1>18. \A q \in Coming("send", i)' : q \in Coming("send", i) \/ q \in InLine(e.ssem) \ InLine(f.ssem)
  <2> SUFFICES ASSUME NEW q \in Coming("send", i)', q \notin InLine(e.ssem)
               PROVE  q \in Coming("send", i)
    <3>1. \A q \in Coming("send", i)' : q \notin InLine(f.ssem)
      BY <1>11, <1>13 DEF Coming, Released
    <3> QED BY <3>1
  <2>1. q \in Proc /\ Waits(q, "send", i)' /\ Released(q)' /\ ~Outdated(q)'
    BY DEF Coming, Waits
  <2>2. q # p /\ ptcall'[q] = ptcall[q] /\ Waits(q, "send", i)
    BY <1>14, <2>1 DEF Waits, Idle
  <2>3. ptcall[q].seq = e.ptseq
    BY <1>11, <1>13, <2>1, <2>2 DEF Outdated, Waits
  <2>4. q \notin InLine(e.rsem)
    BY <1>2, <2>2 DEF Waits
  <2> QED BY <2>1, <2>2, <2>3, <2>4, ComingIs
<1>19. Len(f.msgs) + Units(f.ssem) + Cardinality(Coming("send", i)') <= f.ptmaxcnt
  <2>1. Coming("send", i)' \subseteq Proc /\ Coming("send", i) \subseteq Proc
    BY DEF Coming
  <2>2. /\ Cardinality(Coming("send", i)') \in Nat /\ Cardinality(Coming("send", i)) \in Nat
    BY <2>1, ComingCard
  <2>5. /\ Len(e.msgs) + Units(e.ssem) + Cardinality(Coming("send", i)) <= e.ptmaxcnt
        /\ Units(e.ssem) \in Nat /\ Len(e.msgs) \in Nat /\ e.ptmaxcnt \in Nat
    BY <1>2
  <2> HIDE DEF e
  <2>3. CASE Units(f.ssem) = Units(e.ssem)
    <3>1. Coming("send", i)' \subseteq Coming("send", i) \cup {h}
      BY <1>16, <1>18
    <3>2. Cardinality(Coming("send", i)') <= Cardinality(Coming("send", i)) + 1
      BY <2>1, <3>1, ComingCard
    <3>3. /\ Len(f.msgs) = Len(e.msgs) - 1 /\ f.ptmaxcnt = e.ptmaxcnt
          /\ Units(f.ssem) = Units(e.ssem)
      BY <1>11, <1>12, <2>3
    <3>4. (Len(e.msgs) - 1) + Units(e.ssem) + Cardinality(Coming("send", i)') <= e.ptmaxcnt
      BY <2>2, <2>5, <3>2, SMTT(60)
    <3> QED BY <3>3, <3>4
  <2>4. CASE Units(f.ssem) = Units(e.ssem) + 1 /\ InLine(e.ssem) = InLine(f.ssem)
    <3>1. Coming("send", i)' \subseteq Coming("send", i)
      BY <1>18, <2>4
    <3>2. Cardinality(Coming("send", i)') <= Cardinality(Coming("send", i))
      BY <2>1, <3>1, ComingCard
    <3>3. /\ Len(f.msgs) = Len(e.msgs) - 1 /\ f.ptmaxcnt = e.ptmaxcnt
          /\ Units(f.ssem) = Units(e.ssem) + 1
      BY <1>11, <1>12, <2>4
    <3>4. (Len(e.msgs) - 1) + (Units(e.ssem) + 1) + Cardinality(Coming("send", i)') <= e.ptmaxcnt
      BY <2>2, <2>5, <3>2, SMTT(60)
    <3> QED BY <3>3, <3>4
  <2> QED BY <1>16, <2>3, <2>4
<1>20. Units(f.rsem) + Cardinality(Coming("recv", i)') <= Len(f.msgs)
  <2>1. Coming("recv", i)' \subseteq Proc /\ Coming("recv", i) \ {p} \subseteq Proc
    BY DEF Coming
  <2>2. /\ Cardinality(Coming("recv", i)') \in Nat /\ Cardinality(Coming("recv", i) \ {p}) \in Nat
        /\ Cardinality(Coming("recv", i)') <= Cardinality(Coming("recv", i) \ {p})
    BY <1>17, <2>1, ComingCard
  <2>3. Len(f.msgs) = Len(e.msgs) - 1 /\ Units(f.rsem) = Units(w)
    BY <1>11, <1>12
  <2>4. Len(e.msgs) \in Nat /\ Units(w) \in Nat
    BY <1>2
  <2> HIDE DEF e
  <2>5. Units(w) + Cardinality(Coming("recv", i) \ {p}) + 1 <= Len(e.msgs)
    BY DEF e
  <2> QED BY <2>2, <2>3, <2>4, <2>5
<1>21. PlacesOK(i)'
  BY <1>11, <1>13, <1>19, <1>20 DEF PlacesOK
<1>22. \A q \in InLine(f.rsem) : q \in InLine(e.rsem) /\ ptcall'[q] = ptcall[q]
  BY <1>2, <1>3, <1>11, <1>14
<1>23. \A q \in InLine(f.ssem) : q \in InLine(e.ssem) /\ ptcall'[q] = ptcall[q]
  BY <1>2, <1>3, <1>14, <1>16
<1>24. /\ porttab[i].ptstate = "PT_ALLOC" /\ porttab'[i].ptstate = "PT_ALLOC"
       /\ porttab'[i].ptseq = porttab[i].ptseq
       /\ porttab'[i].rsem = f.rsem /\ porttab'[i].ssem = f.ssem
       /\ SemOK(f.rsem, Proc) /\ SemOK(f.ssem, Proc)
  BY <1>10, <1>11, <1>13
<1> HIDE DEF e
<1>25. /\ \A q \in InLine(porttab'[i].rsem) : q \in InLine(porttab[i].rsem) /\ ptcall'[q] = ptcall[q]
       /\ \A q \in InLine(porttab'[i].ssem) : q \in InLine(porttab[i].ssem) /\ ptcall'[q] = ptcall[q]
  BY <1>22, <1>23, <1>24 DEF e
<1> QED BY <1>14, <1>15, <1>21, <1>24, <1>25, AllocStep
\* What is known of a port that is allocated and of a process that is about to
\* call it.
LEMMA AllocFacts ==
    ASSUME PortInv, NEW i \in Port, porttab[i].ptstate = "PT_ALLOC"
    PROVE  /\ porttab[i] \in PortEntry
           /\ SemOK(porttab[i].ssem, Proc) /\ SemOK(porttab[i].rsem, Proc)
           /\ Units(porttab[i].rsem) + Cardinality(Coming("recv", i)) <= Len(porttab[i].msgs)
           /\ Len(porttab[i].msgs) + Units(porttab[i].ssem) + Cardinality(Coming("send", i))
                  <= porttab[i].ptmaxcnt
           /\ Units(porttab[i].rsem) \in Nat /\ Units(porttab[i].ssem) \in Nat
           /\ Len(porttab[i].msgs) \in Nat /\ porttab[i].ptmaxcnt \in Nat
           /\ Cardinality(Coming("recv", i)) \in Nat /\ Cardinality(Coming("send", i)) \in Nat
           /\ \A q \in Proc : ptcall[q] = Idle =>
                 q \notin InLine(porttab[i].ssem) /\ q \notin InLine(porttab[i].rsem)
<1>1. porttab[i] \in PortEntry /\ LinesOK(i) /\ PlacesOK(i)
  BY DEF PortInv, PortOK
<1>2. SemOK(porttab[i].ssem, Proc) /\ SemOK(porttab[i].rsem, Proc)
  BY <1>1 DEF LinesOK
<1>3. Units(porttab[i].rsem) \in Nat /\ Units(porttab[i].ssem) \in Nat
  BY <1>2, UnitsAre
<1>4. Len(porttab[i].msgs) \in Nat /\ porttab[i].ptmaxcnt \in Nat
  BY <1>1 DEF PortEntry
<1>5. Coming("recv", i) \subseteq Proc /\ Coming("send", i) \subseteq Proc
  BY DEF Coming
<1>6. Cardinality(Coming("recv", i)) \in Nat /\ Cardinality(Coming("send", i)) \in Nat
  BY <1>5, ComingCard
<1>7. \A q \in Proc : ptcall[q] = Idle =>
         q \notin InLine(porttab[i].ssem) /\ q \notin InLine(porttab[i].rsem)
  BY <1>1 DEF LinesOK, Waits, Idle
<1> QED BY <1>1, <1>2, <1>3, <1>4, <1>6, <1>7 DEF PlacesOK

\* A call that has to wait: nobody comes in and nothing is given or taken.
LEMMA WaitKeeps ==
    ASSUME PortInv, NEW p \in Proc, NEW i \in Port, NEW op \in {"send", "recv"}, NEW c,
           porttab[i].ptstate = "PT_ALLOC", ptcall[p] = Idle,
           c \in PortCalls, c.op = op, c.port = i, c.seq = porttab[i].ptseq,
           ptcall' = [ptcall EXCEPT ![p] = c],
           porttab' \in [Port -> PortEntry], ptnextid' = ptnextid,
           \A j \in Port : j # i => porttab'[j] = porttab[j],
           porttab'[i].ptstate = "PT_ALLOC", porttab'[i].ptseq = porttab[i].ptseq,
           porttab'[i].ptmaxcnt = porttab[i].ptmaxcnt, porttab'[i].msgs = porttab[i].msgs,
           SemOK(porttab'[i].ssem, Proc), SemOK(porttab'[i].rsem, Proc),
           InLine(porttab'[i].ssem)
               = IF op = "send" THEN InLine(porttab[i].ssem) \cup {p} ELSE InLine(porttab[i].ssem),
           InLine(porttab'[i].rsem)
               = IF op = "recv" THEN InLine(porttab[i].rsem) \cup {p} ELSE InLine(porttab[i].rsem),
           Units(porttab'[i].ssem) = Units(porttab[i].ssem),
           Units(porttab'[i].rsem) = Units(porttab[i].rsem)
    PROVE  PortInv'
<1>1. /\ ptcall' \in [Proc -> PortCalls] /\ ptcall'[p] = c
      /\ \A q \in Proc : q # p => ptcall'[q] = ptcall[q]
      /\ ptnextid' \in Port
  BY DEF PortInv
<1>2. PortStep(p, i)
  BY <1>1 DEF PortStep, Idle, Gone, InCall, Clearing
<1>3. p \notin InLine(porttab[i].ssem) /\ p \notin InLine(porttab[i].rsem)
  BY AllocFacts
<1>4. ASSUME NEW o \in {"send", "recv"} PROVE Coming(o, i)' = Coming(o, i)
  <2>1. ASSUME NEW q \in Proc
        PROVE  (ptcall[q].op = o /\ ptcall[q].port = i /\ Released(q) /\ ~Outdated(q))'
               <=> (ptcall[q].op = o /\ ptcall[q].port = i /\ Released(q) /\ ~Outdated(q))
    <3>1. CASE q = p
      <4>1. ptcall[q].op # o
        BY <3>1 DEF Idle
      <4>2. ptcall'[q].op = op /\ ptcall'[q].port = i /\ ~Released(q)'
        BY <1>1, <3>1 DEF Released
      <4> QED BY <4>1, <4>2
    <3>2. CASE q # p
      <4>1. ptcall'[q] = ptcall[q]
        BY <1>1, <3>2
      <4>2. /\ q \in InLine(porttab'[i].ssem) <=> q \in InLine(porttab[i].ssem)
            /\ q \in InLine(porttab'[i].rsem) <=> q \in InLine(porttab[i].rsem)
        BY <3>2
      <4> QED BY <4>1, <4>2 DEF Released, Outdated, InCall
    <3> QED BY <3>1, <3>2
  <2> QED BY <2>1 DEF Coming
<1>5. PlacesOK(i)'
  BY <1>4, AllocFacts DEF PlacesOK
<1>6. /\ \A q \in InLine(porttab'[i].ssem) :
            \/ q \in InLine(porttab[i].ssem) /\ ptcall'[q] = ptcall[q]
            \/ q = p /\ Waits(p, "send", i)' /\ ptcall'[p].seq = porttab[i].ptseq
      /\ \A q \in InLine(porttab'[i].rsem) :
            \/ q \in InLine(porttab[i].rsem) /\ ptcall'[q] = ptcall[q]
            \/ q = p /\ Waits(p, "recv", i)' /\ ptcall'[p].seq = porttab[i].ptseq
  <2>1. InLine(porttab[i].ssem) \subseteq Proc /\ InLine(porttab[i].rsem) \subseteq Proc
    BY AllocFacts, NobodyInLine
  <2> QED BY <1>1, <1>3, <2>1 DEF Waits
<1>7. ~Clearing(p)' /\ ptcall'[p].seq <= porttab[i].ptseq
  <2>1. porttab[i].ptseq \in Nat
    BY AllocFacts DEF PortEntry
  <2> QED BY <1>1, <2>1 DEF Clearing
<1> QED BY <1>2, <1>5, <1>6, <1>7, AllocStep

\* ptsend takes a place at once, or gets in line for one.
LEMMA PtsendKeeps ==
    ASSUME PortInv, NEW p \in Proc, NEW i \in Port, NEW msg \in Msgs, Ptsend(p, i, msg)
    PROVE  PortInv'
<1> DEFINE w == SemWait(porttab[i].ssem, p)
           pt == [porttab[i] EXCEPT !.ssem = w]
<1>1. /\ ptcall[p] = Idle /\ porttab[i].ptstate = "PT_ALLOC"
      /\ \/ /\ p \in InLine(pt.ssem)
            /\ porttab' = [porttab EXCEPT ![i] = pt]
            /\ ptcall'  = [ptcall EXCEPT ![p] = Call("send", i, pt.ptseq, msg)]
         \/ /\ p \notin InLine(pt.ssem)
            /\ Deposit(p, i, pt, msg)
      /\ ptnextid' = ptnextid
  BY DEF Ptsend, PortCall
<1>2. /\ porttab[i] \in PortEntry
      /\ SemOK(porttab[i].ssem, Proc) /\ SemOK(porttab[i].rsem, Proc)
      /\ p \notin InLine(porttab[i].ssem)
      /\ porttab[i].ssem.count \in Int
  BY <1>1, AllocFacts DEF SemOK
<1>3. /\ SemOK(w, Proc) /\ w.count = porttab[i].ssem.count - 1
      /\ InLine(w) = IF porttab[i].ssem.count <= 0 THEN InLine(porttab[i].ssem) \cup {p} ELSE {}
  BY <1>2, SemWaitOK
<1> HIDE DEF w
<1>4. /\ pt.ssem = w /\ pt.rsem = porttab[i].rsem /\ pt.msgs = porttab[i].msgs
      /\ pt.ptseq = porttab[i].ptseq /\ pt.ptmaxcnt = porttab[i].ptmaxcnt
      /\ pt.ptstate = "PT_ALLOC" /\ pt \in PortEntry
  <2>1. w \in PortSem
    BY <1>3, SemRecord
  <2> QED BY <1>1, <1>2, <2>1 DEF PortEntry
<1>5. CASE p \in InLine(w)
  <2>1. porttab[i].ssem.count <= 0 /\ InLine(w) = InLine(porttab[i].ssem) \cup {p}
    BY <1>3, <1>5
  <2>2. Units(w) = Units(porttab[i].ssem)
    BY <1>2, <1>3, <2>1, UnitsAre
  <2> DEFINE c == Call("send", i, porttab[i].ptseq, msg)
  <2>3. c \in PortCalls /\ c.op = "send" /\ c.port = i /\ c.seq = porttab[i].ptseq
    <3>1. porttab[i].ptseq \in Nat
      BY <1>2 DEF PortEntry
    <3> QED BY <3>1 DEF Call, PortCalls
  <2>4. ptcall' = [ptcall EXCEPT ![p] = c] /\ porttab' = [porttab EXCEPT ![i] = pt]
    BY <1>1, <1>4, <1>5
  <2> HIDE DEF c, pt
  <2>5. /\ porttab' \in [Port -> PortEntry] /\ porttab'[i] = pt
        /\ \A j \in Port : j # i => porttab'[j] = porttab[j]
    BY <1>4, <2>4 DEF PortInv
  <2>6. /\ SemOK(porttab'[i].ssem, Proc) /\ SemOK(porttab'[i].rsem, Proc)
        /\ InLine(porttab'[i].ssem) = InLine(porttab[i].ssem) \cup {p}
        /\ InLine(porttab'[i].rsem) = InLine(porttab[i].rsem)
        /\ Units(porttab'[i].ssem) = Units(porttab[i].ssem)
        /\ Units(porttab'[i].rsem) = Units(porttab[i].rsem)
    BY <1>2, <1>3, <1>4, <2>1, <2>2, <2>5
  <2>7. PICK op \in {"send", "recv"} : op = "send"
    OBVIOUS
  <2> QED BY <1>1, <1>4, <2>3, <2>4, <2>5, <2>6, <2>7, WaitKeeps, ZenonT(60)
<1>6. CASE p \notin InLine(w)
  <2>1. porttab[i].ssem.count > 0
    BY <1>2, <1>3, <1>6
  <2>2. InLine(porttab[i].ssem) = {} /\ InLine(w) = {}
    BY <1>2, <1>3, <2>1, NobodyInLine
  <2>3. Units(w) = Units(porttab[i].ssem) - 1
    <3>1. Units(porttab[i].ssem) = porttab[i].ssem.count
      BY <1>2, <2>1, UnitsAre
    <3>2. Units(w) = w.count
      BY <1>2, <1>3, <2>1, UnitsAre
    <3> QED BY <1>2, <1>3, <3>1, <3>2
  <2>4. /\ Cardinality(Coming("send", i) \ {p}) \in Nat
        /\ Cardinality(Coming("send", i) \ {p}) <= Cardinality(Coming("send", i))
    <3>1. Coming("send", i) \subseteq Proc /\ Coming("send", i) \ {p} \subseteq Proc
      BY DEF Coming
    <3> QED BY <3>1, ComingCard
  <2>5. /\ Len(porttab[i].msgs) + Units(porttab[i].ssem) + Cardinality(Coming("send", i))
               <= porttab[i].ptmaxcnt
        /\ Units(porttab[i].ssem) \in Nat /\ Len(porttab[i].msgs) \in Nat
        /\ porttab[i].ptmaxcnt \in Nat /\ Cardinality(Coming("send", i)) \in Nat
    BY <1>1, AllocFacts
  <2>6. Units(w) <= Units(porttab[i].ssem)
    BY <2>3, <2>5
  <2>7. Len(porttab[i].msgs) + Units(w) + Cardinality(Coming("send", i) \ {p}) + 1
            <= porttab[i].ptmaxcnt
    <3>1. Len(porttab[i].msgs) + (Units(porttab[i].ssem) - 1)
              + Cardinality(Coming("send", i) \ {p}) + 1 <= porttab[i].ptmaxcnt
      BY <2>4, <2>5, SMTT(60)
    <3> QED BY <2>3, <3>1
  <2>8. Deposit(p, i, pt, msg)
    BY <1>1, <1>4, <1>6
  <2> QED BY <1>1, <1>2, <1>3, <2>2, <2>6, <2>7, <2>8, DepositKeeps
<1> QED BY <1>5, <1>6

\* ptrecv takes a message at once, or gets in line for one.
LEMMA PtrecvKeeps ==
    ASSUME PortInv, NEW p \in Proc, NEW i \in Port, Ptrecv(p, i)
    PROVE  PortInv'
<1> DEFINE w == SemWait(porttab[i].rsem, p)
           pt == [porttab[i] EXCEPT !.rsem = w]
<1>1. /\ ptcall[p] = Idle /\ porttab[i].ptstate = "PT_ALLOC"
      /\ \/ /\ p \in InLine(pt.rsem)
            /\ porttab' = [porttab EXCEPT ![i] = pt]
            /\ ptcall'  = [ptcall EXCEPT ![p] = Call("recv", i, pt.ptseq, NoMsg)]
         \/ /\ p \notin InLine(pt.rsem)
            /\ Take(p, i, pt)
      /\ ptnextid' = ptnextid
  BY DEF Ptrecv, PortCall
<1>2. /\ porttab[i] \in PortEntry
      /\ SemOK(porttab[i].rsem, Proc) /\ SemOK(porttab[i].ssem, Proc)
      /\ p \notin InLine(porttab[i].rsem)
      /\ porttab[i].rsem.count \in Int
  BY <1>1, AllocFacts DEF SemOK
<1>3. /\ SemOK(w, Proc) /\ w.count = porttab[i].rsem.count - 1
      /\ InLine(w) = IF porttab[i].rsem.count <= 0 THEN InLine(porttab[i].rsem) \cup {p} ELSE {}
  BY <1>2, SemWaitOK
<1> HIDE DEF w
<1>4. /\ pt.rsem = w /\ pt.ssem = porttab[i].ssem /\ pt.msgs = porttab[i].msgs
      /\ pt.ptseq = porttab[i].ptseq /\ pt.ptmaxcnt = porttab[i].ptmaxcnt
      /\ pt.ptstate = "PT_ALLOC" /\ pt \in PortEntry
  <2>1. w \in PortSem
    BY <1>3, SemRecord
  <2> QED BY <1>1, <1>2, <2>1 DEF PortEntry
<1>5. CASE p \in InLine(w)
  <2>1. porttab[i].rsem.count <= 0 /\ InLine(w) = InLine(porttab[i].rsem) \cup {p}
    BY <1>3, <1>5
  <2>2. Units(w) = Units(porttab[i].rsem)
    BY <1>2, <1>3, <2>1, UnitsAre
  <2> DEFINE c == Call("recv", i, porttab[i].ptseq, NoMsg)
  <2>3. c \in PortCalls /\ c.op = "recv" /\ c.port = i /\ c.seq = porttab[i].ptseq
    <3>1. porttab[i].ptseq \in Nat
      BY <1>2 DEF PortEntry
    <3> QED BY <3>1 DEF Call, PortCalls
  <2>4. ptcall' = [ptcall EXCEPT ![p] = c] /\ porttab' = [porttab EXCEPT ![i] = pt]
    BY <1>1, <1>4, <1>5
  <2> HIDE DEF c, pt
  <2>5. /\ porttab' \in [Port -> PortEntry] /\ porttab'[i] = pt
        /\ \A j \in Port : j # i => porttab'[j] = porttab[j]
    BY <1>4, <2>4 DEF PortInv
  <2>6. /\ SemOK(porttab'[i].rsem, Proc) /\ SemOK(porttab'[i].ssem, Proc)
        /\ InLine(porttab'[i].rsem) = InLine(porttab[i].rsem) \cup {p}
        /\ InLine(porttab'[i].ssem) = InLine(porttab[i].ssem)
        /\ Units(porttab'[i].rsem) = Units(porttab[i].rsem)
        /\ Units(porttab'[i].ssem) = Units(porttab[i].ssem)
    BY <1>2, <1>3, <1>4, <2>1, <2>2, <2>5
  <2>7. PICK op \in {"send", "recv"} : op = "recv"
    OBVIOUS
  <2> QED BY <1>1, <1>4, <2>3, <2>4, <2>5, <2>6, <2>7, WaitKeeps, ZenonT(60)
<1>6. CASE p \notin InLine(w)
  <2>1. porttab[i].rsem.count > 0
    BY <1>2, <1>3, <1>6
  <2>2. InLine(porttab[i].rsem) = {} /\ InLine(w) = {}
    BY <1>2, <1>3, <2>1, NobodyInLine
  <2>3. Units(w) = Units(porttab[i].rsem) - 1
    <3>1. Units(porttab[i].rsem) = porttab[i].rsem.count
      BY <1>2, <2>1, UnitsAre
    <3>2. Units(w) = w.count
      BY <1>2, <1>3, <2>1, UnitsAre
    <3> QED BY <1>2, <1>3, <3>1, <3>2
  <2>4. /\ Cardinality(Coming("recv", i) \ {p}) \in Nat
        /\ Cardinality(Coming("recv", i) \ {p}) <= Cardinality(Coming("recv", i))
    <3>1. Coming("recv", i) \subseteq Proc /\ Coming("recv", i) \ {p} \subseteq Proc
      BY DEF Coming
    <3> QED BY <3>1, ComingCard
  <2>5. /\ Units(porttab[i].rsem) + Cardinality(Coming("recv", i)) <= Len(porttab[i].msgs)
        /\ Units(porttab[i].rsem) \in Nat /\ Len(porttab[i].msgs) \in Nat
        /\ Cardinality(Coming("recv", i)) \in Nat
    BY <1>1, AllocFacts
  <2>7. Units(w) + Cardinality(Coming("recv", i) \ {p}) + 1 <= Len(porttab[i].msgs)
    <3>1. (Units(porttab[i].rsem) - 1) + Cardinality(Coming("recv", i) \ {p}) + 1
              <= Len(porttab[i].msgs)
      BY <2>4, <2>5
    <3> QED BY <2>3, <3>1
  <2>8. Take(p, i, pt)
    BY <1>1, <1>4, <1>6
  <2> QED BY <1>1, <1>2, <1>3, <2>2, <2>7, <2>8, TakeKeeps
<1> QED BY <1>5, <1>6

\* There are messages and places for those who come in when there are not more
\* of them and nothing else has changed.
LEMMA FewerComing ==
    ASSUME PortInv, NEW i \in Port, porttab[i].ptstate = "PT_ALLOC",
           porttab'[i].ptmaxcnt = porttab[i].ptmaxcnt, porttab'[i].msgs = porttab[i].msgs,
           Units(porttab'[i].rsem) = Units(porttab[i].rsem),
           Units(porttab'[i].ssem) = Units(porttab[i].ssem),
           \A o \in {"send", "recv"} :
               /\ Cardinality(Coming(o, i)) \in Nat /\ Cardinality(Coming(o, i)') \in Nat
               /\ Cardinality(Coming(o, i)') <= Cardinality(Coming(o, i))
    PROVE  PlacesOK(i)'
<1>1. /\ Units(porttab[i].rsem) + Cardinality(Coming("recv", i)) <= Len(porttab[i].msgs)
      /\ Len(porttab[i].msgs) + Units(porttab[i].ssem) + Cardinality(Coming("send", i))
             <= porttab[i].ptmaxcnt
      /\ Units(porttab[i].rsem) \in Nat /\ Units(porttab[i].ssem) \in Nat
      /\ Len(porttab[i].msgs) \in Nat /\ porttab[i].ptmaxcnt \in Nat
  BY AllocFacts
<1>2. /\ Cardinality(Coming("recv", i)) \in Nat /\ Cardinality(Coming("recv", i)') \in Nat
      /\ Cardinality(Coming("recv", i)') <= Cardinality(Coming("recv", i))
      /\ Cardinality(Coming("send", i)) \in Nat /\ Cardinality(Coming("send", i)') \in Nat
      /\ Cardinality(Coming("send", i)') <= Cardinality(Coming("send", i))
  OBVIOUS
<1>3. Units(porttab[i].rsem) + Cardinality(Coming("recv", i)') <= Len(porttab[i].msgs)
  BY <1>1, <1>2
<1>4. Len(porttab[i].msgs) + Units(porttab[i].ssem) + Cardinality(Coming("send", i)')
          <= porttab[i].ptmaxcnt
  <2>1. \A a, b, c, d, e \in Nat : a + b + c <= e /\ d <= c => a + b + d <= e
    OBVIOUS
  <2> QED BY <1>1, <1>2, <2>1
<1> QED BY <1>3, <1>4 DEF PlacesOK

\* A process that finds the port cleared returns, and changes nothing else.
LEMMA ReturnsKeeps ==
    ASSUME PortInv, NEW p \in Proc, InCall(p), Released(p),
           ptcall' = [ptcall EXCEPT ![p] = Idle], porttab' = porttab, ptnextid' = ptnextid
    PROVE  PortInv'
<1>1. PICK i \in Port : i = ptcall[p].port
  BY PortCallKinds
<1>2. /\ ptcall' \in [Proc -> PortCalls] /\ ptcall'[p] = Idle
      /\ \A q \in Proc : q # p => ptcall'[q] = ptcall[q]
      /\ ~InCall(p)' /\ ~Clearing(p)'
  BY DEF PortInv, PortCalls, InCall, Clearing, Idle
<1>3. /\ ptcall[p] # Gone /\ ~Clearing(p)
      /\ p \notin InLine(porttab[i].ssem) /\ p \notin InLine(porttab[i].rsem)
  BY <1>1, PortCallKinds DEF Released
<1>4. PortStep(p, i)
  BY <1>1, <1>2, <1>3 DEF PortStep, PortInv
<1>5. PortOK(i)
  BY DEF PortInv
<1>6. InLine(porttab[i].ssem) \subseteq Proc /\ InLine(porttab[i].rsem) \subseteq Proc
  BY <1>5, NobodyInLine DEF PortOK, LinesOK
<1>7. LinesOK(i)'
  BY <1>2, <1>3, <1>5, <1>6 DEF PortOK, LinesOK, Waits
<1>8. SeqsOK(i)'
  BY <1>2, <1>5 DEF PortOK, SeqsOK, InCall
<1>9. ClearOK(i)'
  <2>1. \A q \in Proc : Clears(q, i)' <=> Clears(q, i)
    BY <1>2, <1>3 DEF Clears, Clearing
  <2>2. \A q \in Proc : Clears(q, i) => ptcall'[q] = ptcall[q]
    BY <1>2, <1>3 DEF Clears
  <2>3. SomebodyGone => SomebodyGone'
    BY <1>2, <1>3 DEF SomebodyGone
  <2> QED BY <1>5, <2>1, <2>2, <2>3 DEF PortOK, ClearOK
<1>10. ASSUME NEW o \in {"send", "recv"}
       PROVE  /\ Cardinality(Coming(o, i)) \in Nat /\ Cardinality(Coming(o, i)') \in Nat
              /\ Cardinality(Coming(o, i)') <= Cardinality(Coming(o, i))
  <2>1. Coming(o, i)' \subseteq Coming(o, i)
    <3> SUFFICES ASSUME NEW q \in Coming(o, i)' PROVE q \in Coming(o, i)
      OBVIOUS
    <3>1. q \in Proc /\ ptcall'[q].op = o /\ ptcall'[q].port = i /\ Released(q)' /\ ~Outdated(q)'
      BY DEF Coming
    <3>2. ptcall'[q] = ptcall[q]
      BY <1>2, <3>1 DEF Idle
    <3> QED BY <3>1, <3>2 DEF Coming, Released, Outdated, InCall
  <2>2. Coming(o, i)' \subseteq Proc /\ Coming(o, i) \subseteq Proc
    BY DEF Coming
  <2> QED BY <2>1, <2>2, ComingCard
<1>11. PlacesOK(i)'
  <2>1. CASE porttab'[i].ptstate = "PT_ALLOC"
    <3>1. /\ porttab[i].ptstate = "PT_ALLOC"
          /\ porttab'[i].ptmaxcnt = porttab[i].ptmaxcnt /\ porttab'[i].msgs = porttab[i].msgs
          /\ Units(porttab'[i].rsem) = Units(porttab[i].rsem)
          /\ Units(porttab'[i].ssem) = Units(porttab[i].ssem)
      BY <2>1
    <3> QED BY <1>10, <3>1, FewerComing
  <2> QED BY <2>1 DEF PlacesOK
<1> QED BY <1>4, <1>7, <1>8, <1>9, <1>11, OtherPorts DEF PortOK

\* A sender or receiver that was let in goes on.
LEMMA PortEndsKeep ==
    ASSUME PortInv, NEW p \in Proc, PtsendEnd(p) \/ PtrecvEnd(p)
    PROVE  PortInv'
<1>1. InCall(p) /\ Released(p) /\ ptnextid' = ptnextid
  BY DEF PtsendEnd, PtrecvEnd, Released
<1>2. PICK i \in Port : i = ptcall[p].port
  BY <1>1, PortCallKinds
<1>3. CASE ptcall' = [ptcall EXCEPT ![p] = Idle] /\ porttab' = porttab
  BY <1>1, <1>3, ReturnsKeeps
<1>4. /\ p \notin InLine(porttab[i].ssem) /\ p \notin InLine(porttab[i].rsem)
      /\ porttab[i] \in PortEntry
  BY <1>1, <1>2 DEF Released, PortInv
<1>5. ASSUME NEW o \in {"send", "recv"}, ptcall[p].op = o, ~Outdated(p)
      PROVE  /\ porttab[i].ptstate = "PT_ALLOC" /\ Waits(p, o, i)
             /\ Cardinality(Coming(o, i) \ {p}) \in Nat
             /\ Cardinality(Coming(o, i) \ {p}) <= Cardinality(Coming(o, i)) - 1
  <2>1. p \in Coming(o, i)
    BY <1>1, <1>2, <1>5 DEF Coming
  <2>2. Coming(o, i) \subseteq Proc /\ Coming(o, i) \ {p} \subseteq Proc
    BY DEF Coming
  <2> QED BY <1>2, <1>5, <2>1, <2>2, ComingCard DEF Outdated, Waits
<1>6. CASE /\ ptcall[p].op = "send" /\ ~Outdated(p)
           /\ Deposit(p, i, porttab[i], ptcall[p].msg)
  <2>1. /\ porttab[i].ptstate = "PT_ALLOC" /\ Waits(p, "send", i)
        /\ Cardinality(Coming("send", i) \ {p}) \in Nat
        /\ Cardinality(Coming("send", i) \ {p}) <= Cardinality(Coming("send", i)) - 1
    BY <1>5, <1>6
  <2>2. PICK msg \in Msgs : msg = ptcall[p].msg
    BY <1>1, <1>6, PortCallKinds
  <2>3. PICK w : w = porttab[i].ssem
    OBVIOUS
  <2>4. /\ Len(porttab[i].msgs) + Units(w) + Cardinality(Coming("send", i)) <= porttab[i].ptmaxcnt
        /\ Units(w) \in Nat /\ Len(porttab[i].msgs) \in Nat
        /\ porttab[i].ptmaxcnt \in Nat /\ Cardinality(Coming("send", i)) \in Nat
        /\ SemOK(w, Proc)
    BY <2>1, <2>3, AllocFacts
  <2>5. Len(porttab[i].msgs) + Units(w) + Cardinality(Coming("send", i) \ {p}) + 1
            <= porttab[i].ptmaxcnt
    BY <2>1, <2>4, SMTT(60)
  <2>6. porttab[i] = [porttab[i] EXCEPT !.ssem = w]
    BY <1>4, <2>3 DEF PortEntry
  <2>7. Deposit(p, i, [porttab[i] EXCEPT !.ssem = w], msg)
    BY <1>6, <2>2, <2>6
  <2>8. Units(w) <= Units(porttab[i].ssem)
    BY <2>3, <2>4
  <2> QED BY <1>1, <1>4, <2>1, <2>3, <2>4, <2>5, <2>7, <2>8, DepositKeeps
<1>7. CASE /\ ptcall[p].op = "recv" /\ ~Outdated(p)
           /\ Take(p, i, porttab[i])
  <2>1. /\ porttab[i].ptstate = "PT_ALLOC" /\ Waits(p, "recv", i)
        /\ Cardinality(Coming("recv", i) \ {p}) \in Nat
        /\ Cardinality(Coming("recv", i) \ {p}) <= Cardinality(Coming("recv", i)) - 1
    BY <1>5, <1>7
  <2>3. PICK w : w = porttab[i].rsem
    OBVIOUS
  <2>4. /\ Units(w) + Cardinality(Coming("recv", i)) <= Len(porttab[i].msgs)
        /\ Units(w) \in Nat /\ Len(porttab[i].msgs) \in Nat
        /\ Cardinality(Coming("recv", i)) \in Nat
        /\ SemOK(w, Proc)
    BY <2>1, <2>3, AllocFacts
  <2>5. Units(w) + Cardinality(Coming("recv", i) \ {p}) + 1 <= Len(porttab[i].msgs)
    BY <2>1, <2>4
  <2>6. porttab[i] = [porttab[i] EXCEPT !.rsem = w]
    BY <1>4, <2>3 DEF PortEntry
  <2>7. Take(p, i, [porttab[i] EXCEPT !.rsem = w])
    BY <1>7, <2>6
  <2> QED BY <1>1, <1>4, <2>1, <2>3, <2>4, <2>5, <2>7, TakeKeeps
<1>8. CASE PtsendEnd(p)
  BY <1>2, <1>3, <1>6, <1>8 DEF PtsendEnd
<1>9. CASE PtrecvEnd(p)
  BY <1>2, <1>3, <1>7, <1>9 DEF PtrecvEnd
<1> QED BY <1>8, <1>9

\* Whoever is in a call on a port of another sequence number is let in nowhere.
LEMMA NoneComing ==
    ASSUME NEW i \in Port,
           \A q \in Proc : InCall(q)' /\ ptcall'[q].port = i => ptcall'[q].seq # porttab'[i].ptseq
    PROVE  /\ Coming("send", i)' = {} /\ Cardinality(Coming("send", i)') = 0
           /\ Coming("recv", i)' = {} /\ Cardinality(Coming("recv", i)') = 0
<1>1. Coming("send", i)' = {} /\ Coming("recv", i)' = {}
  BY DEF Coming, InCall, Outdated
<1> QED BY <1>1, FS_EmptySet

\* A port that starts a life, empty and with nobody on his way into it.
LEMMA FreshPort ==
    ASSUME NEW i \in Port, NEW count \in Nat,
           \A q \in Proc : InCall(q)' /\ ptcall'[q].port = i => ptcall'[q].seq # porttab'[i].ptseq,
           porttab'[i].msgs = <<>>, porttab'[i].ptmaxcnt = count,
           porttab'[i].ssem = NewSem(count), porttab'[i].rsem = NewSem(0)
    PROVE  PlacesOK(i)'
<1>1. /\ SemOK(NewSem(0), Proc) /\ NewSem(0).count = 0
      /\ SemOK(NewSem(count), Proc) /\ NewSem(count).count = count
  BY NewSemOK
<1>2. Units(porttab'[i].rsem) = 0
  BY <1>1, UnitsAre
<1>3. Units(porttab'[i].ssem) = count
  BY <1>1, UnitsAre
<1>4. Len(porttab'[i].msgs) = 0
  <2>1. Len(<<>>) = 0
    OBVIOUS
  <2> QED BY <2>1
<1>5. Cardinality(Coming("send", i)') = 0 /\ Cardinality(Coming("recv", i)') = 0
  BY NoneComing
<1>6. 0 + 0 <= 0 /\ 0 + count + 0 <= count
  OBVIOUS
<1> QED BY <1>2, <1>3, <1>4, <1>5, <1>6 DEF PlacesOK

\* ptcreate takes an entry that is free, and nobody is in a call of its next life.
LEMMA PtcreateKeeps ==
    ASSUME PortInv, NEW p \in Proc, NEW count \in MaxCounts, Ptcreate(p, count)
    PROVE  PortInv'
<1>1. PICK i : i = (ptnextid + Min(FreePorts)) % NPORTS
  OBVIOUS
<1>2. /\ ptcall[p] = Idle /\ FreePorts # {}
      /\ porttab'  = [porttab EXCEPT ![i] = Created(@, count)]
      /\ ptnextid' = (i + 1) % NPORTS
      /\ ptcall' = ptcall
  BY <1>1 DEF Ptcreate, PortCall
<1>3. Min(FreePorts) \in FreePorts
  <2>1. FreePorts \subseteq Nat
    BY PortsAssumption DEF FreePorts
  <2> QED BY <1>2, <2>1, MinNat
<1>4. i \in Port /\ porttab[i].ptstate = "PT_FREE" /\ (i + 1) % NPORTS \in Port
  <2>1. Min(FreePorts) \in Nat /\ porttab[i].ptstate = "PT_FREE"
    <3>1. PICK k : k = Min(FreePorts)
      OBVIOUS
    <3>2. k \in Nat /\ porttab[(ptnextid + k) % NPORTS].ptstate = "PT_FREE"
      BY <1>3, <3>1, PortsAssumption DEF FreePorts
    <3> QED BY <1>1, <3>1, <3>2
  <2>2. ptnextid \in Nat /\ NPORTS \in Nat \ {0}
    BY PortsAssumption DEF PortInv, Port
  <2>3. i \in 0 .. NPORTS-1
    BY <1>1, <2>1, <2>2
  <2>4. (i + 1) % NPORTS \in 0 .. NPORTS-1
    BY <2>2, <2>3
  <2> QED BY <2>1, <2>3, <2>4 DEF Port
<1>5. /\ porttab \in [Port -> PortEntry] /\ porttab[i] \in PortEntry /\ PortOK(i)
      /\ porttab[i].ptseq \in Nat
  BY <1>4 DEF PortInv, PortEntry
<1>6. count \in Nat
  BY PortsAssumption
<1> DEFINE e == Created(porttab[i], count)
<1>7. /\ e.ptstate = "PT_ALLOC" /\ e.ptseq = porttab[i].ptseq + 1 /\ e.ptmaxcnt = count
      /\ e.msgs = <<>> /\ e.ssem = NewSem(count) /\ e.rsem = NewSem(0)
      /\ e \in PortEntry
  <2>1. NewSem(0) \in PortSem /\ NewSem(count) \in PortSem
    BY <1>6, NewSemOK, SemRecord
  <2>2. <<>> \in Seq(Msgs)
    OBVIOUS
  <2> QED BY <1>5, <1>6, <2>1, <2>2 DEF Created, PortEntry
<1> HIDE DEF e
<1>8. /\ porttab' \in [Port -> PortEntry] /\ porttab'[i] = e
      /\ \A j \in Port : j # i => porttab'[j] = porttab[j]
  <2>1. porttab' = [porttab EXCEPT ![i] = e]
    BY <1>2 DEF e
  <2> QED BY <1>4, <1>5, <1>7, <2>1
<1>9. PortStep(p, i)
  BY <1>2, <1>4, <1>8, PortCallKinds DEF PortStep, PortInv, InCall, Clearing
<1>10. InLine(NewSem(count)) = {} /\ InLine(NewSem(0)) = {}
       /\ SemOK(NewSem(count), Proc) /\ SemOK(NewSem(0), Proc)
  BY <1>6, NewSemOK
<1>11. LinesOK(i)'
  BY <1>7, <1>8, <1>10 DEF LinesOK
<1>12. \A q \in Proc : InCall(q)' /\ ptcall'[q].port = i =>
          InCall(q) /\ ptcall[q].port = i /\ ptcall'[q].seq = ptcall[q].seq
                    /\ ptcall[q].seq \in Nat /\ ptcall[q].seq <= porttab[i].ptseq
  BY <1>2, <1>5, PortCallKinds DEF PortOK, SeqsOK, InCall
<1>13. \A q \in Proc : InCall(q)' /\ ptcall'[q].port = i =>
          ptcall'[q].seq <= porttab'[i].ptseq /\ ptcall'[q].seq # porttab'[i].ptseq
  BY <1>5, <1>7, <1>8, <1>12
<1>14. SeqsOK(i)'
  BY <1>13 DEF SeqsOK
<1>15. ClearOK(i)'
  <2>1. \A q \in Proc : ~Clears(q, i)
    BY <1>4, <1>5 DEF PortOK, ClearOK
  <2>2. \A q \in Proc : ~Clears(q, i)'
    BY <1>2, <2>1 DEF Clears, Clearing
  <2> QED BY <1>7, <1>8, <2>2 DEF ClearOK
<1>16. PlacesOK(i)'
  BY <1>4, <1>6, <1>7, <1>8, <1>13, FreshPort
<1> QED BY <1>4, <1>9, <1>11, <1>14, <1>15, <1>16, OtherPorts DEF PortOK

\* ptreset and ptdelete begin: nobody is in a call of the life that begins.
LEMMA PtclearKeeps ==
    ASSUME PortInv, NEW p \in Proc, NEW i \in Port, NEW newstate \in {"PT_ALLOC", "PT_FREE"},
           Ptclear(p, i, newstate)
    PROVE  PortInv'
<1> DEFINE e == Limbo(porttab[i])
           c == Clear("dispose", i, newstate)
<1>1. /\ ptcall[p] = Idle /\ porttab[i].ptstate = "PT_ALLOC"
      /\ porttab' = [porttab EXCEPT ![i] = e]
      /\ ptcall'  = [ptcall EXCEPT ![p] = c]
      /\ ptnextid' = ptnextid
  BY DEF Ptclear, PortCall
<1>2. /\ porttab \in [Port -> PortEntry] /\ porttab[i] \in PortEntry /\ PortOK(i)
      /\ porttab[i].ptseq \in Nat /\ ptcall \in [Proc -> PortCalls] /\ ptnextid \in Port
  BY DEF PortInv, PortEntry
<1>3. /\ e.ptstate = "PT_LIMBO" /\ e.ptseq = porttab[i].ptseq + 1
      /\ e.ptmaxcnt = porttab[i].ptmaxcnt
      /\ e.msgs = porttab[i].msgs /\ e.ssem = porttab[i].ssem /\ e.rsem = porttab[i].rsem
      /\ e \in PortEntry
  <2>1. e = [porttab[i] EXCEPT !.ptstate = "PT_LIMBO", !.ptseq = porttab[i].ptseq + 1]
    BY DEF Limbo
  <2>2. porttab[i].ptseq + 1 \in Nat
    BY <1>2
  <2> HIDE DEF e
  <2>3. PICK n \in Nat : n = porttab[i].ptseq + 1
    BY <2>2
  <2>4. e = [porttab[i] EXCEPT !.ptstate = "PT_LIMBO", !.ptseq = n]
    BY <2>1, <2>3
  <2>5. /\ e.ptstate = "PT_LIMBO" /\ e.ptseq = n
        /\ e.ptmaxcnt = porttab[i].ptmaxcnt
        /\ e.msgs = porttab[i].msgs /\ e.ssem = porttab[i].ssem /\ e.rsem = porttab[i].rsem
        /\ e \in PortEntry
    BY <1>2, <2>4 DEF PortEntry
  <2> QED BY <2>3, <2>5
<1>4. c \in PortCalls /\ c.op = "dispose" /\ c.port = i
  BY DEF Clear, PortCalls
<1> HIDE DEF e, c
<1>5. /\ porttab' \in [Port -> PortEntry] /\ porttab'[i] = e
      /\ \A j \in Port : j # i => porttab'[j] = porttab[j]
      /\ ptcall' \in [Proc -> PortCalls] /\ ptcall'[p] = c
      /\ \A q \in Proc : q # p => ptcall'[q] = ptcall[q]
  BY <1>1, <1>2, <1>3, <1>4
<1>6. PortStep(p, i)
  BY <1>1, <1>2, <1>4, <1>5, PortCallKinds DEF PortStep
<1>7. /\ SemOK(porttab[i].ssem, Proc) /\ SemOK(porttab[i].rsem, Proc)
      /\ InLine(porttab[i].ssem) \subseteq Proc /\ InLine(porttab[i].rsem) \subseteq Proc
      /\ p \notin InLine(porttab[i].ssem) /\ p \notin InLine(porttab[i].rsem)
  BY <1>1, AllocFacts, NobodyInLine
<1>8. LinesOK(i)'
  BY <1>2, <1>3, <1>5, <1>7 DEF PortOK, LinesOK, Waits
<1>9. ASSUME NEW q \in Proc, InCall(q)', ptcall'[q].port = i
      PROVE  ptcall'[q].seq <= porttab'[i].ptseq /\ ptcall'[q].seq # porttab'[i].ptseq
  <2>1. q # p
    BY <1>4, <1>5, <1>9 DEF InCall
  <2>2. InCall(q) /\ ptcall[q].port = i /\ ptcall'[q].seq = ptcall[q].seq
    BY <1>5, <1>9, <2>1 DEF InCall
  <2>3. ptcall[q].seq \in Nat /\ ptcall[q].seq <= porttab[i].ptseq
    BY <1>2, <2>2, PortCallKinds DEF PortOK, SeqsOK
  <2> QED BY <1>2, <1>3, <1>5, <2>2, <2>3
<1>10. SeqsOK(i)'
  BY <1>9 DEF SeqsOK
<1>11. ClearOK(i)'
  <2>1. \A q \in Proc : ~Clears(q, i)
    BY <1>1, <1>2 DEF PortOK, ClearOK
  <2>2. \A q \in Proc : Clears(q, i)' <=> q = p
    BY <1>4, <1>5, <2>1 DEF Clears, Clearing
  <2> QED BY <1>3, <1>4, <1>5, <2>2 DEF ClearOK
<1>12. PlacesOK(i)'
  BY <1>3, <1>5 DEF PlacesOK
<1> QED BY <1>6, <1>8, <1>10, <1>11, <1>12, OtherPorts DEF PortOK

\* A step of the process p that clears port i: calls of other processes stay as
\* they are, and the port stays in limbo.
LEMMA ClearStep ==
    ASSUME PortInv, NEW p \in Proc, NEW i \in Port, Clears(p, i),
           PortStep(p, i), Clears(p, i)',
           porttab'[i].ptstate = "PT_LIMBO", porttab'[i].ptseq = porttab[i].ptseq,
           SemOK(porttab'[i].ssem, Proc), SemOK(porttab'[i].rsem, Proc),
           InLine(porttab'[i].ssem) \subseteq InLine(porttab[i].ssem),
           InLine(porttab'[i].rsem) \subseteq InLine(porttab[i].rsem),
           ptcall'[p].op \in {"semreset1", "semreset2"} =>
               IF ptcall'[p].newstate = "PT_ALLOC"
               THEN porttab'[i].msgs = <<>> /\ porttab'[i].ssem = NewSem(porttab'[i].ptmaxcnt)
               ELSE porttab'[i].ssem = NewSem(0),
           ptcall'[p].op = "semreset2" => porttab'[i].rsem = NewSem(0)
    PROVE  PortInv'
<1>1. /\ LinesOK(i) /\ SeqsOK(i) /\ ClearOK(i)
      /\ porttab[i].ptstate = "PT_LIMBO"
  BY DEF PortInv, PortOK, ClearOK
<1>2. \A q \in Proc : q # p => ptcall'[q] = ptcall[q]
  BY DEF PortStep
<1>3. /\ ~InCall(p) /\ ~InCall(p)'
  BY DEF Clears, Clearing, InCall
<1>4. LinesOK(i)'
  <2>1. \A q \in InLine(porttab[i].ssem) : Waits(q, "send", i) /\ q \in Proc /\ InCall(q)
    BY <1>1, NobodyInLine DEF LinesOK, Waits, InCall
  <2>2. \A q \in InLine(porttab[i].rsem) : Waits(q, "recv", i) /\ q \in Proc /\ InCall(q)
    BY <1>1, NobodyInLine DEF LinesOK, Waits, InCall
  <2>3. \A q \in InLine(porttab'[i].ssem) : Waits(q, "send", i)'
    BY <1>2, <1>3, <2>1 DEF Waits
  <2>4. \A q \in InLine(porttab'[i].rsem) : Waits(q, "recv", i)'
    BY <1>2, <1>3, <2>2 DEF Waits
  <2> QED BY <2>3, <2>4 DEF LinesOK
<1>5. SeqsOK(i)'
  BY <1>1, <1>2, <1>3 DEF SeqsOK, InCall
<1>6. ClearOK(i)'
  <2>1. \A q \in Proc : Clears(q, i) => q = p
    BY <1>1 DEF ClearOK
  <2>2. \A q \in Proc : Clears(q, i)' => q = p
    BY <1>2, <2>1 DEF Clears, Clearing
  <2> QED BY <2>2 DEF ClearOK
<1>7. PlacesOK(i)'
  BY DEF PlacesOK
<1> QED BY <1>4, <1>5, <1>6, <1>7, OtherPorts DEF PortOK

\* The senders are released, and the messages are gone if the port goes on.
LEMMA PtclearSendersKeeps ==
    ASSUME PortInv, NEW p \in Proc, PtclearSenders(p)
    PROVE  PortInv'
<1>1. Clearing(p) /\ ptcall[p].op = "dispose"
  BY DEF PtclearSenders, Clearing
<1>2. PICK i \in Port : i = ptcall[p].port
  BY <1>1, PortCallKinds
<1>3. PICK ns \in {"PT_ALLOC", "PT_FREE"} : ns = ptcall[p].newstate
  BY <1>1, PortCallKinds
<1>4. /\ porttab \in [Port -> PortEntry] /\ porttab[i] \in PortEntry /\ PortOK(i)
      /\ ptcall \in [Proc -> PortCalls] /\ ptnextid \in Port
      /\ porttab[i].ptstate = "PT_LIMBO" /\ Clears(p, i)
  BY <1>1, <1>2 DEF PortInv, PortOK, ClearOK, Clears
<1>5. PICK n \in Nat : n = IF ns = "PT_ALLOC" THEN porttab[i].ptmaxcnt ELSE 0
  BY <1>4 DEF PortEntry
<1>6. PICK m \in Seq(Msgs) : m = IF ns = "PT_ALLOC" THEN <<>> ELSE porttab[i].msgs
  <2>1. <<>> \in Seq(Msgs)
    OBVIOUS
  <2>2. porttab[i].msgs \in Seq(Msgs)
    BY <1>4 DEF PortEntry
  <2> QED BY <2>1, <2>2
<1>7. PICK w \in PortSem : w = NewSem(n) /\ SemOK(w, Proc) /\ InLine(w) = {}
  BY NewSemOK, SemRecord
<1>8. PICK e : e = [porttab[i] EXCEPT !.ssem = w, !.msgs = m]
  OBVIOUS
<1>9. /\ porttab' = [porttab EXCEPT ![i] = e]
      /\ ptcall' = [ptcall EXCEPT ![p].op = "semreset1"]
      /\ ptnextid' = ptnextid
  <2>1. /\ Emptied(i, ns) /\ ptnextid' = ptnextid
        /\ ptcall' = [ptcall EXCEPT ![p].op = "semreset1"]
    BY <1>2, <1>3 DEF PtclearSenders
  <2>2. porttab' = [porttab EXCEPT ![i].ssem = SemReset(IF ns = "PT_ALLOC"
                                                       THEN porttab[i].ptmaxcnt ELSE 0),
                                   ![i].msgs = IF ns = "PT_ALLOC" THEN <<>> ELSE @]
    BY <2>1 DEF Emptied
  <2>3. porttab' = [porttab EXCEPT ![i].ssem = w, ![i].msgs = m]
    BY <1>4, <1>5, <1>6, <1>7, <2>2 DEF SemReset
  <2>4. porttab' = [porttab EXCEPT ![i] = e]
    BY <1>4, <1>8, <2>3
  <2> QED BY <2>1, <2>4
<1>10. /\ e.ptstate = "PT_LIMBO" /\ e.ptseq = porttab[i].ptseq
       /\ e.ptmaxcnt = porttab[i].ptmaxcnt
       /\ e.msgs = m /\ e.ssem = w /\ e.rsem = porttab[i].rsem
       /\ e \in PortEntry
  BY <1>4, <1>8 DEF PortEntry
<1>11. PICK c : c = [op |-> "semreset1", port |-> i, newstate |-> ns]
  OBVIOUS
<1>12. c \in PortCalls /\ c.op = "semreset1" /\ c.port = i /\ c.newstate = ns
  BY <1>11 DEF PortCalls
<1>13. ptcall' = [ptcall EXCEPT ![p] = c]
  <2>1. ptcall[p] \in PortCalls
    BY <1>4
  <2>2. ptcall[p] = [op |-> "dispose", port |-> i, newstate |-> ns]
    BY <1>1, <1>2, <1>3, <2>1 DEF PortCalls, Gone, Idle
  <2>3. [ptcall[p] EXCEPT !.op = "semreset1"] = c
    BY <1>11, <2>2
  <2>4. ptcall' = [ptcall EXCEPT ![p] = [ptcall[p] EXCEPT !.op = "semreset1"]]
    BY <1>9
  <2> QED BY <2>3, <2>4
<1>14. /\ porttab' \in [Port -> PortEntry] /\ porttab'[i] = e
       /\ \A j \in Port : j # i => porttab'[j] = porttab[j]
       /\ ptcall' \in [Proc -> PortCalls] /\ ptcall'[p] = c
       /\ \A q \in Proc : q # p => ptcall'[q] = ptcall[q]
  BY <1>4, <1>9, <1>10, <1>12, <1>13
<1>15. PortStep(p, i) /\ Clears(p, i)'
  BY <1>1, <1>2, <1>4, <1>9, <1>12, <1>14, PortCallKinds DEF PortStep, Clears, Clearing
<1>16. SemOK(porttab[i].rsem, Proc)
  BY <1>4 DEF PortOK, LinesOK
<1>17. IF c.newstate = "PT_ALLOC" THEN e.msgs = <<>> /\ e.ssem = NewSem(e.ptmaxcnt)
                                  ELSE e.ssem = NewSem(0)
  BY <1>5, <1>6, <1>7, <1>10, <1>12
<1> QED BY <1>4, <1>7, <1>10, <1>12, <1>14, <1>15, <1>16, <1>17, ClearStep

\* The receivers are released.
LEMMA PtclearReceiversKeeps ==
    ASSUME PortInv, NEW p \in Proc, PtclearReceivers(p)
    PROVE  PortInv'
<1>1. Clearing(p) /\ ptcall[p].op = "semreset1"
  BY DEF PtclearReceivers, Clearing
<1>2. PICK i \in Port : i = ptcall[p].port
  BY <1>1, PortCallKinds
<1>3. PICK ns \in {"PT_ALLOC", "PT_FREE"} : ns = ptcall[p].newstate
  BY <1>1, PortCallKinds
<1>4. /\ porttab \in [Port -> PortEntry] /\ porttab[i] \in PortEntry /\ PortOK(i)
      /\ ptcall \in [Proc -> PortCalls] /\ ptnextid \in Port
      /\ porttab[i].ptstate = "PT_LIMBO" /\ Clears(p, i)
      /\ IF ns = "PT_ALLOC"
         THEN porttab[i].msgs = <<>> /\ porttab[i].ssem = NewSem(porttab[i].ptmaxcnt)
         ELSE porttab[i].ssem = NewSem(0)
  BY <1>1, <1>2, <1>3 DEF PortInv, PortOK, ClearOK, Clears
<1>5. PICK w \in PortSem : w = NewSem(0) /\ SemOK(w, Proc) /\ InLine(w) = {}
  BY NewSemOK, SemRecord
<1>6. PICK e : e = [porttab[i] EXCEPT !.rsem = w]
  OBVIOUS
<1>7. /\ porttab' = [porttab EXCEPT ![i] = e]
      /\ ptcall' = [ptcall EXCEPT ![p].op = "semreset2"]
      /\ ptnextid' = ptnextid
  <2>1. porttab' = [porttab EXCEPT ![i].rsem = w]
    BY <1>2, <1>5 DEF PtclearReceivers, SemReset
  <2> QED BY <1>4, <1>6, <2>1 DEF PtclearReceivers
<1>8. /\ e.ptstate = "PT_LIMBO" /\ e.ptseq = porttab[i].ptseq
      /\ e.ptmaxcnt = porttab[i].ptmaxcnt
      /\ e.msgs = porttab[i].msgs /\ e.ssem = porttab[i].ssem /\ e.rsem = w
      /\ e \in PortEntry
  BY <1>4, <1>6 DEF PortEntry
<1>9. PICK c : c = [op |-> "semreset2", port |-> i, newstate |-> ns]
  OBVIOUS
<1>10. c \in PortCalls /\ c.op = "semreset2" /\ c.port = i /\ c.newstate = ns
  BY <1>9 DEF PortCalls
<1>11. ptcall' = [ptcall EXCEPT ![p] = c]
  <2>1. ptcall[p] \in PortCalls
    BY <1>4
  <2>2. ptcall[p] = [op |-> "semreset1", port |-> i, newstate |-> ns]
    BY <1>1, <1>2, <1>3, <2>1 DEF PortCalls, Gone, Idle
  <2>3. [ptcall[p] EXCEPT !.op = "semreset2"] = c
    BY <1>9, <2>2
  <2>4. ptcall' = [ptcall EXCEPT ![p] = [ptcall[p] EXCEPT !.op = "semreset2"]]
    BY <1>7
  <2> QED BY <2>3, <2>4
<1>12. /\ porttab' \in [Port -> PortEntry] /\ porttab'[i] = e
       /\ \A j \in Port : j # i => porttab'[j] = porttab[j]
       /\ ptcall' \in [Proc -> PortCalls] /\ ptcall'[p] = c
       /\ \A q \in Proc : q # p => ptcall'[q] = ptcall[q]
  BY <1>4, <1>7, <1>8, <1>10, <1>11
<1>13. PortStep(p, i) /\ Clears(p, i)'
  BY <1>1, <1>2, <1>4, <1>7, <1>10, <1>12, PortCallKinds DEF PortStep, Clears, Clearing
<1>14. SemOK(porttab[i].ssem, Proc)
  BY <1>4 DEF PortOK, LinesOK
<1>15. IF c.newstate = "PT_ALLOC" THEN e.msgs = <<>> /\ e.ssem = NewSem(e.ptmaxcnt)
                                  ELSE e.ssem = NewSem(0)
  BY <1>4, <1>8, <1>10
<1> QED BY <1>4, <1>5, <1>8, <1>10, <1>12, <1>13, <1>14, <1>15, ClearStep

\* The end of ptreset and ptdelete: the port begins a life or is free, and those
\* who were in a call of an earlier life are outdated.
LEMMA PtclearEndKeeps ==
    ASSUME PortInv, NEW p \in Proc, PtclearEnd(p)
    PROVE  PortInv'
<1>1. Clearing(p) /\ ptcall[p].op = "semreset2"
  BY DEF PtclearEnd, Clearing
<1>2. PICK i \in Port : i = ptcall[p].port
  BY <1>1, PortCallKinds
<1>3. PICK ns \in {"PT_ALLOC", "PT_FREE"} : ns = ptcall[p].newstate
  BY <1>1, PortCallKinds
<1>4. /\ porttab \in [Port -> PortEntry] /\ porttab[i] \in PortEntry /\ PortOK(i)
      /\ ptcall \in [Proc -> PortCalls] /\ ptnextid \in Port
      /\ porttab[i].ptstate = "PT_LIMBO" /\ Clears(p, i)
      /\ IF ns = "PT_ALLOC"
         THEN porttab[i].msgs = <<>> /\ porttab[i].ssem = NewSem(porttab[i].ptmaxcnt)
         ELSE porttab[i].ssem = NewSem(0)
      /\ porttab[i].rsem = NewSem(0)
  BY <1>1, <1>2, <1>3 DEF PortInv, PortOK, ClearOK, Clears
<1>5. PICK e : e = [porttab[i] EXCEPT !.ptstate = ns]
  OBVIOUS
<1>6. /\ e.ptstate = ns /\ e.ptseq = porttab[i].ptseq
      /\ e.ptmaxcnt = porttab[i].ptmaxcnt
      /\ e.msgs = porttab[i].msgs /\ e.ssem = porttab[i].ssem /\ e.rsem = porttab[i].rsem
      /\ e \in PortEntry
  BY <1>4, <1>5 DEF PortEntry
<1>7. /\ porttab' = [porttab EXCEPT ![i] = e]
      /\ ptcall' = [ptcall EXCEPT ![p] = Idle]
      /\ ptnextid' \in Port
  <2>1. porttab' = [porttab EXCEPT ![i].ptstate = ns]
    BY <1>2, <1>3 DEF PtclearEnd
  <2> QED BY <1>2, <1>4, <1>5, <2>1 DEF PtclearEnd
<1>8. /\ porttab' \in [Port -> PortEntry] /\ porttab'[i] = e
      /\ \A j \in Port : j # i => porttab'[j] = porttab[j]
      /\ ptcall' \in [Proc -> PortCalls] /\ ptcall'[p] = Idle
      /\ \A q \in Proc : q # p => ptcall'[q] = ptcall[q]
  BY <1>4, <1>6, <1>7 DEF PortCalls
<1>9. ~InCall(p) /\ ~InCall(p)' /\ ~Clearing(p)' /\ ptcall[p] # Gone
  BY <1>1, <1>8, PortCallKinds DEF InCall, Clearing, Idle
<1>10. PortStep(p, i)
  BY <1>1, <1>2, <1>7, <1>8, <1>9 DEF PortStep
<1>11. PICK n \in Nat : n = porttab[i].ptmaxcnt
  BY <1>4 DEF PortEntry
<1>12. /\ SemOK(porttab[i].ssem, Proc) /\ SemOK(porttab[i].rsem, Proc)
       /\ InLine(porttab[i].ssem) = {} /\ InLine(porttab[i].rsem) = {}
  <2>1. InLine(NewSem(0)) = {} /\ InLine(NewSem(n)) = {}
    BY NewSemOK
  <2> QED BY <1>3, <1>4, <1>11, <2>1 DEF PortOK, LinesOK
<1>13. LinesOK(i)'
  BY <1>6, <1>8, <1>12 DEF LinesOK
<1>14. \A q \in Proc : InCall(q)' /\ ptcall'[q].port = i =>
          ptcall'[q].seq <= porttab'[i].ptseq /\ ptcall'[q].seq # porttab'[i].ptseq
  BY <1>4, <1>6, <1>8, <1>9 DEF PortOK, SeqsOK, InCall
<1>15. SeqsOK(i)'
  BY <1>14 DEF SeqsOK
<1>16. ClearOK(i)'
  <2>1. \A q \in Proc : Clears(q, i) => q = p
    BY <1>4 DEF PortOK, ClearOK
  <2>2. \A q \in Proc : ~Clears(q, i)'
    BY <1>8, <1>9, <2>1 DEF Clears, Clearing
  <2> QED BY <1>6, <1>8, <2>2 DEF ClearOK
<1>17. PlacesOK(i)'
  <2>1. CASE ns = "PT_ALLOC"
    BY <1>4, <1>6, <1>8, <1>11, <1>14, <2>1, FreshPort
  <2>2. CASE ns = "PT_FREE"
    BY <1>6, <1>8, <2>2 DEF PlacesOK
  <2> QED BY <2>1, <2>2
<1> QED BY <1>10, <1>13, <1>15, <1>16, <1>17, OtherPorts DEF PortOK

\* A process in line that is killed leaves the line and its place in the count,
\* one that has been let in takes nothing; a port it was clearing stays in limbo.
LEMMA PortKillKeeps ==
    ASSUME PortInv, NEW p \in Proc, PortKill(p)
    PROVE  PortInv'
<1>1. InCall(p) \/ Clearing(p)
  BY PortsAssumption, PortCallKinds DEF PortKill, InCall, Clearing
<1>2. PICK i \in Port : i = ptcall[p].port
  BY <1>1, PortCallKinds
<1>3. /\ porttab \in [Port -> PortEntry] /\ porttab[i] \in PortEntry /\ PortOK(i)
      /\ ptcall \in [Proc -> PortCalls] /\ ptnextid \in Port
      /\ SemOK(porttab[i].ssem, Proc) /\ SemOK(porttab[i].rsem, Proc)
  BY DEF PortInv, PortOK, LinesOK
<1>4. PICK v : v = SemKill(porttab[i].ssem, p)
  OBVIOUS
<1>5. PICK w : w = SemKill(porttab[i].rsem, p)
  OBVIOUS
<1>6. /\ SemOK(v, Proc) /\ InLine(v) = InLine(porttab[i].ssem) \ {p}
      /\ p \in InLine(porttab[i].ssem) =>
            v.count = porttab[i].ssem.count + 1 /\ porttab[i].ssem.count < 0
      /\ p \notin InLine(porttab[i].ssem) => v = porttab[i].ssem
  BY <1>3, <1>4, SemKillOK
<1>7. /\ SemOK(w, Proc) /\ InLine(w) = InLine(porttab[i].rsem) \ {p}
      /\ p \in InLine(porttab[i].rsem) =>
            w.count = porttab[i].rsem.count + 1 /\ porttab[i].rsem.count < 0
      /\ p \notin InLine(porttab[i].rsem) => w = porttab[i].rsem
  BY <1>3, <1>5, SemKillOK
<1>8. Units(v) = Units(porttab[i].ssem)
  <2>1. porttab[i].ssem.count \in Int
    BY <1>3 DEF SemOK
  <2> QED BY <1>3, <1>6, <2>1, UnitsAre
<1>9. Units(w) = Units(porttab[i].rsem)
  <2>1. porttab[i].rsem.count \in Int
    BY <1>3 DEF SemOK
  <2> QED BY <1>3, <1>7, <2>1, UnitsAre
<1>10. PICK e : e = [porttab[i] EXCEPT !.ssem = v, !.rsem = w]
  OBVIOUS
<1>11. /\ e.ptstate = porttab[i].ptstate /\ e.ptseq = porttab[i].ptseq
       /\ e.ptmaxcnt = porttab[i].ptmaxcnt
       /\ e.msgs = porttab[i].msgs /\ e.ssem = v /\ e.rsem = w
       /\ e \in PortEntry
  <2>1. v \in PortSem /\ w \in PortSem
    BY <1>6, <1>7, SemRecord
  <2> QED BY <1>3, <1>10, <2>1 DEF PortEntry
<1>12. /\ porttab' = [porttab EXCEPT ![i] = e]
       /\ ptcall' = [ptcall EXCEPT ![p] = Gone]
       /\ ptnextid' = ptnextid
  <2>1. porttab' = [porttab EXCEPT ![i].ssem = SemKill(@, p), ![i].rsem = SemKill(@, p)]
    BY <1>2 DEF PortKill
  <2>2. porttab' = [porttab EXCEPT ![i].ssem = v, ![i].rsem = w]
    BY <1>3, <1>4, <1>5, <2>1 DEF PortEntry
  <2>3. porttab' = [porttab EXCEPT ![i] = e]
    BY <1>3, <1>10, <2>2
  <2> QED BY <2>3 DEF PortKill
<1>13. /\ porttab' \in [Port -> PortEntry] /\ porttab'[i] = e
       /\ \A j \in Port : j # i => porttab'[j] = porttab[j]
       /\ ptcall' \in [Proc -> PortCalls] /\ ptcall'[p] = Gone
       /\ \A q \in Proc : q # p => ptcall'[q] = ptcall[q]
  BY <1>3, <1>11, <1>12 DEF PortCalls
<1>14. ~InCall(p)' /\ ~Clearing(p)' /\ ptcall[p] # Gone /\ SomebodyGone'
  BY <1>1, <1>13, PortCallKinds DEF InCall, Clearing, Gone, SomebodyGone
<1>15. PortStep(p, i)
  BY <1>1, <1>2, <1>3, <1>12, <1>13, <1>14 DEF PortStep
<1>16. LinesOK(i)'
  <2>1. InLine(porttab[i].ssem) \subseteq Proc /\ InLine(porttab[i].rsem) \subseteq Proc
    BY <1>3, NobodyInLine
  <2>2. ASSUME NEW q \in InLine(v) PROVE q \in InLine(porttab[i].ssem) /\ ptcall'[q] = ptcall[q]
    BY <1>6, <1>13, <2>1
  <2>3. ASSUME NEW q \in InLine(w) PROVE q \in InLine(porttab[i].rsem) /\ ptcall'[q] = ptcall[q]
    BY <1>7, <1>13, <2>1
  <2>4. LinesOK(i)
    BY <1>3 DEF PortOK
  <2>5. \A q \in InLine(v) : Waits(q, "send", i)'
    BY <2>2, <2>4 DEF LinesOK, Waits
  <2>6. \A q \in InLine(w) : Waits(q, "recv", i)'
    BY <2>3, <2>4 DEF LinesOK, Waits
  <2>7. porttab[i].ptstate = "PT_ALLOC" =>
           \A q \in InLine(v) \cup InLine(w) : ptcall'[q].seq = porttab[i].ptseq
    BY <2>2, <2>3, <2>4 DEF LinesOK
  <2>8. porttab[i].ptstate = "PT_FREE" => InLine(v) = {} /\ InLine(w) = {}
    BY <2>2, <2>3, <2>4 DEF LinesOK
  <2> QED BY <1>6, <1>7, <1>11, <1>13, <2>5, <2>6, <2>7, <2>8 DEF LinesOK
<1>17. SeqsOK(i)'
  BY <1>3, <1>11, <1>13, <1>14 DEF PortOK, SeqsOK, InCall
<1>18. ClearOK(i)'
  <2>1. CASE InCall(p)
    <3>1. ~Clearing(p)
      BY <2>1, PortCallKinds
    <3>2. \A q \in Proc : Clears(q, i)' => Clears(q, i) /\ ptcall'[q] = ptcall[q]
      BY <1>13, <1>14 DEF Clears, Clearing
    <3>3. \A q \in Proc : Clears(q, i) =>
             /\ porttab[i].ptstate = "PT_LIMBO"
             /\ ptcall[q].op \in {"semreset1", "semreset2"} => InLine(porttab[i].ssem) = {}
             /\ ptcall[q].op = "semreset2" => InLine(porttab[i].rsem) = {}
      <4>1. PICK n \in Nat : n = porttab[i].ptmaxcnt
        BY <1>3 DEF PortEntry
      <4>2. InLine(NewSem(0)) = {} /\ InLine(NewSem(n)) = {}
        BY NewSemOK
      <4> QED BY <1>3, <4>1, <4>2 DEF PortOK, ClearOK
    <3>4. ASSUME NEW q \in Proc, Clears(q, i)'
          PROVE  /\ porttab'[i].ptstate = "PT_LIMBO"
                 /\ ptcall'[q].op \in {"semreset1", "semreset2"} =>
                       IF ptcall'[q].newstate = "PT_ALLOC"
                       THEN porttab'[i].msgs = <<>> /\ porttab'[i].ssem = NewSem(porttab'[i].ptmaxcnt)
                       ELSE porttab'[i].ssem = NewSem(0)
                 /\ ptcall'[q].op = "semreset2" => porttab'[i].rsem = NewSem(0)
      <4>1. /\ porttab[i].ptstate = "PT_LIMBO" /\ ptcall'[q] = ptcall[q]
            /\ ptcall[q].op \in {"semreset1", "semreset2"} => v = porttab[i].ssem
            /\ ptcall[q].op = "semreset2" => w = porttab[i].rsem
        BY <1>6, <1>7, <3>2, <3>3, <3>4
      <4>2. /\ ptcall[q].op \in {"semreset1", "semreset2"} =>
                       IF ptcall[q].newstate = "PT_ALLOC"
                       THEN porttab[i].msgs = <<>> /\ porttab[i].ssem = NewSem(porttab[i].ptmaxcnt)
                       ELSE porttab[i].ssem = NewSem(0)
            /\ ptcall[q].op = "semreset2" => porttab[i].rsem = NewSem(0)
        BY <1>3, <3>2, <3>4 DEF PortOK, ClearOK
      <4> QED BY <1>11, <1>13, <4>1, <4>2
    <3>5. \A q, r \in Proc : Clears(q, i)' /\ Clears(r, i)' => q = r
      BY <1>3, <3>2 DEF PortOK, ClearOK
    <3> QED BY <1>14, <3>4, <3>5 DEF ClearOK
  <2>2. CASE Clearing(p)
    <3>1. \A q \in Proc : Clears(q, i) => q = p
      BY <1>2, <1>3, <2>2 DEF PortOK, ClearOK, Clears
    <3>2. \A q \in Proc : ~Clears(q, i)'
      BY <1>13, <1>14, <3>1 DEF Clears, Clearing
    <3> QED BY <1>14, <3>2 DEF ClearOK
  <2> QED BY <1>1, <2>1, <2>2
<1>19. ASSUME NEW o \in {"send", "recv"}
       PROVE  /\ Cardinality(Coming(o, i)) \in Nat /\ Cardinality(Coming(o, i)') \in Nat
              /\ Cardinality(Coming(o, i)') <= Cardinality(Coming(o, i))
  <2>1. Coming(o, i)' \subseteq Coming(o, i)
    <3> SUFFICES ASSUME NEW q \in Coming(o, i)' PROVE q \in Coming(o, i)
      OBVIOUS
    <3>1. q \in Proc /\ ptcall'[q].op = o /\ ptcall'[q].port = i /\ Released(q)' /\ ~Outdated(q)'
      BY DEF Coming
    <3>2. ptcall'[q] = ptcall[q] /\ q # p
      BY <1>13, <3>1 DEF Gone
    <3>3. q \notin InLine(v) /\ q \notin InLine(w)
      BY <1>11, <1>13, <3>1 DEF Released
    <3>4. q \notin InLine(porttab[i].ssem) /\ q \notin InLine(porttab[i].rsem)
      BY <1>6, <1>7, <3>2, <3>3
    <3>5. Released(q)
      BY <3>1, <3>2, <3>4 DEF Released, InCall
    <3>6. ~Outdated(q)
      BY <1>11, <1>13, <3>1, <3>2 DEF Outdated
    <3> QED BY <3>1, <3>2, <3>5, <3>6 DEF Coming
  <2>2. Coming(o, i)' \subseteq Proc /\ Coming(o, i) \subseteq Proc
    BY DEF Coming
  <2> QED BY <2>1, <2>2, ComingCard
<1>20. PlacesOK(i)'
  <2>1. CASE porttab'[i].ptstate = "PT_ALLOC"
    BY <1>8, <1>9, <1>11, <1>13, <1>19, <2>1, FewerComing
  <2> QED BY <2>1 DEF PlacesOK
<1> QED BY <1>15, <1>16, <1>17, <1>18, <1>20, OtherPorts DEF PortOK

\* Every step keeps the invariant of the ports.
LEMMA PortsNextInv ==
    ASSUME PortInv, [PortsNext]_portvars
    PROVE  PortInv'
<1>1. ASSUME NEW p \in Proc, NEW count \in MaxCounts, Ptcreate(p, count) PROVE PortInv'
  BY <1>1, PtcreateKeeps
<1>2. ASSUME NEW p \in Proc, NEW i \in Port, NEW msg \in Msgs, Ptsend(p, i, msg) PROVE PortInv'
  BY <1>2, PtsendKeeps
<1>3. ASSUME NEW p \in Proc, NEW i \in Port, Ptrecv(p, i) PROVE PortInv'
  BY <1>3, PtrecvKeeps
<1>4. ASSUME NEW p \in Proc, NEW i \in Port, Ptreset(p, i) \/ Ptdelete(p, i) PROVE PortInv'
  <2>1. PICK ns \in {"PT_ALLOC", "PT_FREE"} : Ptclear(p, i, ns)
    BY <1>4 DEF Ptreset, Ptdelete
  <2> QED BY <2>1, PtclearKeeps
<1>5. ASSUME NEW p \in Proc, PortGoesOn(p) PROVE PortInv'
  BY <1>5, PortEndsKeep, PtclearSendersKeeps, PtclearReceiversKeeps, PtclearEndKeeps
     DEF PortGoesOn
<1>6. ASSUME NEW p \in Proc, PortKill(p) PROVE PortInv'
  BY <1>6, PortKillKeeps
<1>7. CASE UNCHANGED portvars
  <2>1. porttab' = porttab /\ ptcall' = ptcall /\ ptnextid' = ptnextid
    BY <1>7 DEF portvars
  <2>2. ASSUME NEW i \in Port PROVE PortOK(i)'
    <3>1. PortOK(i)
      BY DEF PortInv
    <3>2. LinesOK(i)'
      BY <2>1, <3>1 DEF PortOK, LinesOK, Waits
    <3>3. SeqsOK(i)'
      BY <2>1, <3>1 DEF PortOK, SeqsOK, InCall
    <3>4. ClearOK(i)'
      BY <2>1, <3>1 DEF PortOK, ClearOK, Clears, Clearing, SomebodyGone
    <3>5. \A o \in {"send", "recv"} : Coming(o, i)' = Coming(o, i)
      BY <2>1 DEF Coming, Released, Outdated, InCall
    <3>6. PlacesOK(i)'
      BY <2>1, <3>1, <3>5 DEF PortOK, PlacesOK
    <3> QED BY <3>2, <3>3, <3>4, <3>6 DEF PortOK
  <2> QED BY <2>1, <2>2 DEF PortInv
<1> QED BY <1>1, <1>2, <1>3, <1>4, <1>5, <1>6, <1>7 DEF PortsNext

\* The two promises of a port follow from the invariant.
LEMMA PortInvServes ==
    ASSUME PortInv
    PROVE  ClearedCallersGetOut /\ PlacesAndMessages
<1>1. PlacesAndMessages
  BY DEF PortInv, PortOK, PlacesOK, PlacesAndMessages
<1>2. ASSUME NEW p \in Proc, InCall(p), Outdated(p), ~Released(p)
      PROVE  /\ porttab[ptcall[p].port].ptstate = "PT_LIMBO"
             /\ \E q \in Proc : \/ ptcall[q] = Gone
                                \/ Clearing(q) /\ ptcall[q].port = ptcall[p].port
  <2>1. PICK i \in Port : i = ptcall[p].port
    BY <1>2, PortCallKinds
  <2>2. PortOK(i) /\ porttab[i] \in PortEntry
    BY DEF PortInv
  <2>3. p \in InLine(porttab[i].ssem) \cup InLine(porttab[i].rsem)
    BY <1>2, <2>1 DEF Released
  <2>4. porttab[i].ptstate # "PT_FREE" /\ porttab[i].ptstate # "PT_ALLOC"
    BY <1>2, <2>1, <2>2, <2>3 DEF PortOK, LinesOK, Outdated
  <2>5. porttab[i].ptstate = "PT_LIMBO"
    BY <2>2, <2>4 DEF PortEntry
  <2> QED BY <2>1, <2>2, <2>5 DEF PortOK, ClearOK, SomebodyGone, Clears
<1> QED BY <1>1, <1>2 DEF ClearedCallersGetOut

\* Whoever waits in a port that is cleared gets out of it (ptclear.c:41-46), a
\* receiver that is let in finds a message and a sender finds a place
\* (ptsend.c:33-42, ptrecv.c:29), for any number of processes and ports and
\* wherever they are killed.
THEOREM PortsServe == PortsSpec => [](ClearedCallersGetOut /\ PlacesAndMessages)
<1>1. PortsInit => PortInv
  BY PortsInitInv
<1>2. PortInv /\ [PortsNext]_portvars => PortInv'
  BY PortsNextInv
<1>3. PortInv => ClearedCallersGetOut /\ PlacesAndMessages
  BY PortInvServes
<1> QED BY <1>1, <1>2, <1>3, PTL DEF PortsSpec
-----------------------------------------------------------------------------
\* Ports: nodes and counts.

\* Unless somebody was killed on his way in, every message has a unit of the
\* semaphore or a receiver that was let in.
MessagesAnnounced(i) ==
    porttab[i].ptstate = "PT_ALLOC" /\ ~SomebodyGone =>
        Len(porttab[i].msgs) <= Units(porttab[i].rsem) + Cardinality(Coming("recv", i))

PortCountsInv ==
    /\ ptfree \in Nat /\ IsFiniteSet(NodesInUse) /\ NodesConserved
    /\ received \in [Proc -> Msgs \cup {NoMsg}] /\ panicked \in BOOLEAN
    /\ \A i \in Port : /\ porttab[i].ptseq <= MaxSeq
                       /\ porttab[i].ptmaxcnt \in {0} \cup MaxCounts
                       /\ MessagesAnnounced(i)

\* The number of pairs in a row.
LEMMA RowCard ==
    ASSUME NEW i, NEW n \in Nat
    PROVE  IsFiniteSet({i} \X (1 .. n)) /\ Cardinality({i} \X (1 .. n)) = n
<1>1. IsFiniteSet({i}) /\ Cardinality({i}) = 1
  BY FS_Singleton
<1>2. IsFiniteSet(1 .. n) /\ Cardinality(1 .. n) = n
  BY FS_Interval
<1>3. /\ IsFiniteSet({i} \X (1 .. n))
      /\ Cardinality({i} \X (1 .. n)) = Cardinality({i}) * Cardinality(1 .. n)
  BY <1>1, <1>2, FS_Product
<1> QED BY <1>1, <1>2, <1>3

\* If one port gains or loses nodes, so does the system.
LEMMA NodesStep ==
    ASSUME NEW i \in Port, Nodes(i) \in Nat, Nodes(i)' \in Nat,
           \A j \in Port \ {i} : Nodes(j)' = Nodes(j), IsFiniteSet(NodesInUse)
    PROVE  /\ IsFiniteSet(NodesInUse')
           /\ Cardinality(NodesInUse) \in Nat
           /\ Cardinality(NodesInUse') = Cardinality(NodesInUse) - Nodes(i) + Nodes(i)'
<1> DEFINE old == {i} \X (1 .. Nodes(i))
           new == {i} \X (1 .. Nodes(i)')
           others == UNION {{j} \X (1 .. Nodes(j)) : j \in Port \ {i}}
<1>1. NodesInUse = old \cup others
  BY DEF NodesInUse
<1>2. NodesInUse' = new \cup others
  <2>1. NodesInUse' = new \cup UNION {{j} \X (1 .. Nodes(j)') : j \in Port \ {i}}
    BY DEF NodesInUse
  <2>2. UNION {{j} \X (1 .. Nodes(j)') : j \in Port \ {i}} = others
    OBVIOUS
  <2> QED BY <2>1, <2>2
<1>3. old \cap others = {} /\ new \cap others = {}
  OBVIOUS
<1>4. IsFiniteSet(old) /\ Cardinality(old) = Nodes(i)
  BY RowCard
<1>5. IsFiniteSet(new) /\ Cardinality(new) = Nodes(i)'
  BY RowCard
<1> HIDE DEF old, new, others
<1>6. IsFiniteSet(others)
  BY <1>1, FS_Subset
<1>7. /\ Cardinality(old \cup others) = Cardinality(old) + Cardinality(others)
      /\ Cardinality(new \cup others) = Cardinality(new) + Cardinality(others)
      /\ IsFiniteSet(new \cup others)
  <2>1. Cardinality({}) = 0
    BY FS_EmptySet
  <2>2. Cardinality(old \cup others) = Cardinality(old) + Cardinality(others) - Cardinality(old \cap others)
    BY <1>4, <1>6, FS_Union
  <2>3. /\ IsFiniteSet(new \cup others)
        /\ Cardinality(new \cup others) = Cardinality(new) + Cardinality(others) - Cardinality(new \cap others)
    BY <1>5, <1>6, FS_Union
  <2>4. Cardinality(others) \in Nat
    BY <1>6, FS_CardinalityType
  <2>5. Cardinality(old) \in Nat /\ Cardinality(new) \in Nat
    BY <1>4, <1>5
  <2>6. Cardinality(old \cap others) = 0 /\ Cardinality(new \cap others) = 0
    BY <1>3, <2>1
  <2> QED BY <2>2, <2>3, <2>4, <2>5, <2>6
<1>8. Cardinality(others) \in Nat
  BY <1>6, FS_CardinalityType
<1> QED BY <1>1, <1>2, <1>4, <1>5, <1>7, <1>8

\* A port has as many nodes as messages, or none while they are disposed of.
LEMMA NodesNat ==
    ASSUME PortInv, NEW i \in Port
    PROVE  Nodes(i) \in Nat
<1>1. Len(porttab[i].msgs) \in Nat
  BY DEF PortInv, PortEntry
<1> QED BY <1>1 DEF Nodes

\* What a step of another port leaves alone.
LEMMA OthersStay ==
    ASSUME PortInv, NEW p \in Proc, NEW i \in Port, PortStep(p, i), NEW j \in Port, j # i
    PROVE  /\ Nodes(j)' = Nodes(j)
           /\ \A o \in {"send", "recv"} : Coming(o, j)' = Coming(o, j)
<1>1. porttab'[j] = porttab[j]
  BY DEF PortStep
<1>2. \A q \in Proc :
         \/ ptcall'[q] = ptcall[q]
         \/ /\ ~((InCall(q) \/ Clearing(q)) /\ ptcall[q].port = j)
            /\ ~((InCall(q)' \/ Clearing(q)') /\ ptcall'[q].port = j)
  BY DEF PortStep
<1>3. Nodes(j)' = Nodes(j)
  BY <1>1, <1>2 DEF Nodes, Clearing
<1>4. ASSUME NEW o \in {"send", "recv"}, NEW q \in Proc
      PROVE  (ptcall[q].op = o /\ ptcall[q].port = j /\ Released(q) /\ ~Outdated(q))'
             <=> (ptcall[q].op = o /\ ptcall[q].port = j /\ Released(q) /\ ~Outdated(q))
  BY <1>1, <1>2 DEF Released, InCall, Outdated
<1>5. ASSUME NEW o \in {"send", "recv"} PROVE Coming(o, j)' = Coming(o, j)
  BY <1>4, <1>5 DEF Coming
<1> QED BY <1>3, <1>5

\* A step on port i keeps the counts if it does so for that port.
LEMMA PortCountsStep ==
    ASSUME PortInv, PortInv', PortCountsInv, NEW p \in Proc, NEW i \in Port, PortStep(p, i),
           ptfree' \in Nat, ptfree' + Nodes(i)' = ptfree + Nodes(i),
           received' \in [Proc -> Msgs \cup {NoMsg}], panicked' \in BOOLEAN,
           porttab'[i].ptseq <= MaxSeq, porttab'[i].ptmaxcnt \in {0} \cup MaxCounts,
           MessagesAnnounced(i)'
    PROVE  PortCountsInv'
<1>1. Nodes(i) \in Nat
  BY NodesNat
<1>2. Nodes(i)' \in Nat
  <2>1. porttab'[i] \in PortEntry
    BY DEF PortInv
  <2>2. Len(porttab'[i].msgs) \in Nat
    BY <2>1 DEF PortEntry
  <2> QED BY <2>2 DEF Nodes
<1>3. \A j \in Port \ {i} : Nodes(j)' = Nodes(j)
  BY OthersStay
<1>4. /\ IsFiniteSet(NodesInUse') /\ Cardinality(NodesInUse) \in Nat
      /\ Cardinality(NodesInUse') = Cardinality(NodesInUse) - Nodes(i) + Nodes(i)'
  BY <1>1, <1>2, <1>3, NodesStep DEF PortCountsInv
<1>5. NodesConserved'
  BY <1>1, <1>2, <1>4 DEF NodesConserved, PortCountsInv
<1>6. ASSUME NEW j \in Port, j # i PROVE MessagesAnnounced(j)'
  <2>1. Coming("recv", j)' = Coming("recv", j)
    BY <1>6, OthersStay
  <2>2. SomebodyGone => SomebodyGone'
    BY DEF SomebodyGone, PortStep
  <2>3. porttab'[j] = porttab[j] /\ MessagesAnnounced(j)
    BY <1>6 DEF PortStep, PortCountsInv
  <2> QED BY <2>1, <2>2, <2>3 DEF MessagesAnnounced
<1>7. \A j \in Port : j # i => porttab'[j].ptseq <= MaxSeq /\ porttab'[j].ptmaxcnt \in {0} \cup MaxCounts
  BY DEF PortStep, PortCountsInv
<1> QED BY <1>4, <1>5, <1>6, <1>7 DEF PortCountsInv

\* The shape of a step: one entry of the table, one call.
LEMMA IsPortStep ==
    ASSUME PortInv, PortInv', NEW p \in Proc, NEW i \in Port, NEW e, NEW c,
           porttab' = [porttab EXCEPT ![i] = e], ptcall' = [ptcall EXCEPT ![p] = c],
           ptcall[p] # Gone, InCall(p) \/ Clearing(p) => ptcall[p].port = i,
           c \in {Idle, Gone} \/ c.port = i
    PROVE  /\ PortStep(p, i) /\ porttab'[i] = e /\ ptcall'[p] = c
           /\ e \in PortEntry
<1>1. /\ porttab \in [Port -> PortEntry] /\ ptcall \in [Proc -> PortCalls]
      /\ porttab' \in [Port -> PortEntry] /\ ptcall' \in [Proc -> PortCalls]
      /\ ptnextid' \in Port
  BY DEF PortInv
<1>2. /\ porttab'[i] = e /\ \A j \in Port : j # i => porttab'[j] = porttab[j]
      /\ ptcall'[p] = c /\ \A q \in Proc : q # p => ptcall'[q] = ptcall[q]
  BY <1>1
<1>3. InCall(p)' \/ Clearing(p)' => ptcall'[p].port = i
  BY <1>2 DEF InCall, Clearing, Idle, Gone
<1> QED BY <1>1, <1>2, <1>3 DEF PortStep

\* An allocated port has the nodes of its messages.
LEMMA AllocNodes ==
    ASSUME PortInv, NEW i \in Port, porttab[i].ptstate = "PT_ALLOC"
    PROVE  Nodes(i) = Len(porttab[i].msgs)
<1>1. ClearOK(i)
  BY DEF PortInv, PortOK
<1>2. \A q \in Proc : ~Clears(q, i)
  BY <1>1 DEF ClearOK
<1> QED BY <1>2 DEF Nodes, Clears, Clearing

LEMMA AllocNodesAfter ==
    ASSUME PortInv', NEW i \in Port, porttab'[i].ptstate = "PT_ALLOC"
    PROVE  Nodes(i)' = Len(porttab'[i].msgs)
<1>1. ClearOK(i)'
  BY DEF PortInv, PortOK
<1>2. \A q \in Proc : ~Clears(q, i)'
  BY <1>1 DEF ClearOK
<1> QED BY <1>2 DEF Nodes, Clears, Clearing

\* A step on an allocated port loses no receiver that was let in but the one
\* whose step it is, and lets those in who leave the line.
LEMMA ComingStays ==
    ASSUME PortInv, PortInv', NEW p \in Proc, NEW i \in Port, PortStep(p, i),
           porttab[i].ptstate = "PT_ALLOC", porttab'[i].ptstate = "PT_ALLOC",
           porttab'[i].ptseq = porttab[i].ptseq,
           InLine(porttab'[i].rsem) \subseteq InLine(porttab[i].rsem) \cup {p}
    PROVE  /\ Coming("recv", i) \ {p} \subseteq Coming("recv", i)'
           /\ (InLine(porttab[i].rsem) \ InLine(porttab'[i].rsem)) \ {p}
                  \subseteq Coming("recv", i)'
           /\ InLine(porttab[i].rsem) \cap Coming("recv", i) = {}
           /\ Cardinality(Coming("recv", i)') \in Nat
           /\ Cardinality(Coming("recv", i) \ {p}) \in Nat
           /\ Coming("recv", i)' \subseteq Proc
<1>1. /\ LinesOK(i) /\ LinesOK(i)'
  BY DEF PortInv, PortOK
<1>2. /\ \A q \in InLine(porttab[i].rsem) :
            q \in Proc /\ Waits(q, "recv", i) /\ ptcall[q].seq = porttab[i].ptseq
      /\ \A q \in InLine(porttab[i].ssem) : Waits(q, "send", i)
      /\ \A q \in InLine(porttab'[i].ssem) : Waits(q, "send", i)'
  BY <1>1, NobodyInLine DEF LinesOK
<1>3. ASSUME NEW q \in Proc \ {p}, Waits(q, "recv", i), ptcall[q].seq = porttab[i].ptseq,
             q \notin InLine(porttab'[i].rsem)
      PROVE  q \in Coming("recv", i)'
  <2>1. ptcall'[q] = ptcall[q]
    BY DEF PortStep
  <2>2. q \notin InLine(porttab'[i].ssem)
    BY <1>2, <1>3, <2>1 DEF Waits
  <2> QED BY <1>3, <2>1, <2>2 DEF Coming, Released, InCall, Outdated, Waits
<1>4. ASSUME NEW q \in Coming("recv", i)
      PROVE  /\ q \in Proc /\ Waits(q, "recv", i) /\ ptcall[q].seq = porttab[i].ptseq
             /\ q \notin InLine(porttab[i].rsem)
  BY DEF Coming, Released, InCall, Outdated, Waits
<1>5. Coming("recv", i) \ {p} \subseteq Coming("recv", i)'
  BY <1>3, <1>4
<1>6. (InLine(porttab[i].rsem) \ InLine(porttab'[i].rsem)) \ {p} \subseteq Coming("recv", i)'
  BY <1>2, <1>3
<1>7. Coming("recv", i)' \subseteq Proc /\ Coming("recv", i) \ {p} \subseteq Proc
  BY DEF Coming
<1>8. Cardinality(Coming("recv", i)') \in Nat /\ Cardinality(Coming("recv", i) \ {p}) \in Nat
  BY <1>7, ComingCard
<1> QED BY <1>4, <1>5, <1>6, <1>7, <1>8

\* The messages stay announced if there are enough units and receivers without
\* the process whose step it is.
LEMMA StillAnnounced ==
    ASSUME PortInv, PortInv', PortCountsInv, NEW p \in Proc, NEW i \in Port, PortStep(p, i),
           porttab[i].ptstate = "PT_ALLOC", porttab'[i].ptstate = "PT_ALLOC",
           porttab'[i].ptseq = porttab[i].ptseq,
           InLine(porttab'[i].rsem) \subseteq InLine(porttab[i].rsem) \cup {p},
           ~SomebodyGone => Len(porttab'[i].msgs)
               <= Units(porttab'[i].rsem) + Cardinality(Coming("recv", i) \ {p})
    PROVE  MessagesAnnounced(i)'
<1>1. SomebodyGone => SomebodyGone'
  BY DEF SomebodyGone, PortStep
<1>2. /\ Coming("recv", i) \ {p} \subseteq Coming("recv", i)'
      /\ Cardinality(Coming("recv", i)') \in Nat
      /\ Cardinality(Coming("recv", i) \ {p}) \in Nat
      /\ Coming("recv", i)' \subseteq Proc
  BY ComingStays
<1>3. Coming("recv", i) \ {p} \subseteq Proc
  BY DEF Coming
<1>4. Cardinality(Coming("recv", i) \ {p}) <= Cardinality(Coming("recv", i)')
  BY <1>2, <1>3, ComingCard
<1>5. Units(porttab'[i].rsem) \in Nat /\ Len(porttab'[i].msgs) \in Nat
  <2>1. porttab'[i] \in PortEntry /\ LinesOK(i)'
    BY DEF PortInv, PortOK
  <2>2. SemOK(porttab'[i].rsem, Proc)
    BY <2>1 DEF LinesOK
  <2> QED BY <2>1, <2>2, UnitsAre DEF PortEntry
<1> QED BY <1>1, <1>2, <1>4, <1>5 DEF MessagesAnnounced

\* A message that is deposited has a unit or lets a receiver in.
LEMMA DepositAnnounced ==
    ASSUME PortInv, PortInv', PortCountsInv, NEW p \in Proc, NEW i \in Port, PortStep(p, i),
           porttab[i].ptstate = "PT_ALLOC", porttab'[i].ptstate = "PT_ALLOC",
           porttab'[i].ptseq = porttab[i].ptseq,
           p \notin InLine(porttab[i].rsem), p \notin Coming("recv", i),
           porttab'[i].rsem = SemSignal(porttab[i].rsem),
           Len(porttab'[i].msgs) = Len(porttab[i].msgs) + 1
    PROVE  MessagesAnnounced(i)'
<1>0. PICK s : s = porttab[i].rsem
  OBVIOUS
<1>1. SemOK(s, Proc) /\ Units(s) \in Nat /\ Len(porttab[i].msgs) \in Nat
      /\ s.count \in Int
      /\ Cardinality(Coming("recv", i)) \in Nat
  BY <1>0, AllocFacts DEF SemOK
<1>2. /\ SemOK(SemSignal(s), Proc) /\ SemSignal(s).count = s.count + 1
      /\ s.count >= 0 => InLine(SemSignal(s)) = InLine(s)
      /\ s.count < 0 => \E h \in InLine(s) : InLine(SemSignal(s)) = InLine(s) \ {h}
  BY <1>1, SemSignalOK
<1>3. InLine(porttab'[i].rsem) \subseteq InLine(porttab[i].rsem)
  BY <1>0, <1>1, <1>2
<1>4. /\ Coming("recv", i) \subseteq Coming("recv", i)'
      /\ InLine(s) \ InLine(SemSignal(s)) \subseteq Coming("recv", i)'
      /\ InLine(s) \cap Coming("recv", i) = {}
      /\ Cardinality(Coming("recv", i)') \in Nat
      /\ Coming("recv", i)' \subseteq Proc
  BY <1>0, <1>3, ComingStays
<1>5. Coming("recv", i) \subseteq Proc
  BY DEF Coming
<1>6. Units(s) + Cardinality(Coming("recv", i)) + 1
          <= Units(SemSignal(s)) + Cardinality(Coming("recv", i)')
  <2>1. CASE s.count >= 0
    <3>1. Units(SemSignal(s)) = Units(s) + 1
      BY <1>1, <1>2, <2>1, UnitsAre
    <3>2. Cardinality(Coming("recv", i)) <= Cardinality(Coming("recv", i)')
      BY <1>4, <1>5, ComingCard
    <3> QED BY <1>1, <1>4, <3>1, <3>2
  <2>2. CASE s.count < 0
    <3>1. PICK h \in InLine(s) : InLine(SemSignal(s)) = InLine(s) \ {h}
      BY <1>2, <2>2
    <3>2. h \in Coming("recv", i)' /\ Coming("recv", i) \subseteq Coming("recv", i)' \ {h}
      BY <1>4, <3>1
    <3>3. Cardinality(Coming("recv", i)) <= Cardinality(Coming("recv", i)') - 1
      BY <1>4, <1>5, <3>2, ComingCard
    <3>4. Units(SemSignal(s)) = 0 /\ Units(s) = 0
      BY <1>1, <1>2, <2>2, UnitsAre
    <3> QED BY <1>1, <1>4, <3>3, <3>4
  <2> QED BY <1>1, <2>1, <2>2
<1>7. SomebodyGone => SomebodyGone'
  BY DEF SomebodyGone, PortStep
<1>8. ~SomebodyGone => Len(porttab[i].msgs) <= Units(s) + Cardinality(Coming("recv", i))
  BY <1>0 DEF PortCountsInv, MessagesAnnounced
<1>9. Units(SemSignal(s)) \in Nat
  BY <1>2, UnitsAre
<1> QED BY <1>0, <1>1, <1>4, <1>6, <1>7, <1>8, <1>9 DEF MessagesAnnounced

\* A message that is deposited takes a node and is announced.
LEMMA DepositCounts ==
    ASSUME PortInv, PortInv', PortCountsInv, NEW p \in Proc, NEW i \in Port, NEW msg, NEW w,
           porttab[i].ptstate = "PT_ALLOC",
           ptcall[p] = Idle \/ Waits(p, "send", i),
           Deposit(p, i, [porttab[i] EXCEPT !.ssem = w], msg), received' = received
    PROVE  PortCountsInv'
<1> DEFINE e == porttab[i]
           pt == [porttab[i] EXCEPT !.ssem = w]
<1>1. /\ e \in PortEntry /\ SemOK(e.rsem, Proc) /\ Len(e.msgs) \in Nat
      /\ LinesOK(i) /\ Units(e.rsem) \in Nat
      /\ Cardinality(Coming("recv", i)) \in Nat
  BY AllocFacts DEF PortInv, PortOK
<1>2. p \notin InLine(e.rsem) /\ p \notin Coming("recv", i)
  BY <1>1 DEF LinesOK, Waits, Idle, Coming
<1>3. ptcall[p] # Gone /\ (InCall(p) \/ Clearing(p) => ptcall[p].port = i)
  BY DEF Waits, Idle, Gone, InCall, Clearing
<1>4. /\ pt.ptstate = "PT_ALLOC" /\ pt.ptseq = e.ptseq /\ pt.ptmaxcnt = e.ptmaxcnt
      /\ pt.msgs = e.msgs /\ pt.rsem = e.rsem
  BY <1>1 DEF PortEntry
<1>5. /\ ptfree \in Nat /\ e.ptseq <= MaxSeq /\ e.ptmaxcnt \in {0} \cup MaxCounts
      /\ received' \in [Proc -> Msgs \cup {NoMsg}] /\ panicked \in BOOLEAN
      /\ MessagesAnnounced(i)
  BY DEF PortCountsInv
<1>6. Nodes(i) = Len(e.msgs)
  BY AllocNodes
<1>7. CASE ptfree = 0 /\ panicked' = TRUE /\ porttab' = [porttab EXCEPT ![i] = pt]
           /\ UNCHANGED <<ptfree, ptcall>>
  <2>1. ptcall' = [ptcall EXCEPT ![p] = ptcall[p]]
    BY <1>7 DEF PortInv
  <2>2. PICK f : f = pt
    OBVIOUS
  <2>3. PortStep(p, i) /\ porttab'[i] = pt
    <3>1. porttab' = [porttab EXCEPT ![i] = f]
      BY <1>7, <2>2
    <3>2. ptcall[p] \in {Idle, Gone} \/ ptcall[p].port = i
      BY DEF Waits
    <3>3. PortStep(p, i) /\ porttab'[i] = f
      BY <1>3, <2>1, <3>1, <3>2, IsPortStep
    <3> QED BY <2>2, <3>3
  <2>4. Nodes(i)' = Len(e.msgs)
    BY <1>4, <2>3, AllocNodesAfter
  <2>5. MessagesAnnounced(i)'
    <3>1. Coming("recv", i) \ {p} = Coming("recv", i)
      BY <1>2
    <3>2. ~SomebodyGone => Len(pt.msgs) <= Units(pt.rsem) + Cardinality(Coming("recv", i) \ {p})
      BY <1>4, <1>5, <3>1 DEF MessagesAnnounced
    <3>3. InLine(pt.rsem) \subseteq InLine(e.rsem) \cup {p}
      BY <1>4
    <3> QED BY <1>4, <2>3, <3>2, <3>3, StillAnnounced
  <2> QED BY <1>4, <1>5, <1>6, <1>7, <2>3, <2>4, <2>5, PortCountsStep
<1>8. CASE /\ ptfree > 0 /\ ptfree' = ptfree - 1 /\ UNCHANGED panicked
           /\ porttab' = [porttab EXCEPT ![i] = [pt EXCEPT !.msgs = Append(pt.msgs, msg),
                                                           !.rsem = SemSignal(pt.rsem)]]
           /\ ptcall' = [ptcall EXCEPT ![p] = Idle]
  <2> DEFINE f == [pt EXCEPT !.msgs = Append(pt.msgs, msg), !.rsem = SemSignal(pt.rsem)]
  <2>1. /\ f.ptstate = "PT_ALLOC" /\ f.ptseq = e.ptseq /\ f.ptmaxcnt = e.ptmaxcnt
        /\ f.msgs = Append(e.msgs, msg) /\ f.rsem = SemSignal(e.rsem)
    BY <1>1, <1>4 DEF PortEntry
  <2>2. Len(f.msgs) = Len(e.msgs) + 1
    <3>1. e.msgs \in Seq(Msgs)
      BY <1>1 DEF PortEntry
    <3> QED BY <2>1, <3>1
  <2> HIDE DEF f
  <2>3. porttab' = [porttab EXCEPT ![i] = f] /\ ptcall' = [ptcall EXCEPT ![p] = Idle]
    BY <1>8 DEF f
  <2>4. PortStep(p, i) /\ porttab'[i] = f
    BY <1>3, <2>3, IsPortStep
  <2>5. Nodes(i)' = Len(e.msgs) + 1
    BY <2>1, <2>2, <2>4, AllocNodesAfter
  <2>6. MessagesAnnounced(i)'
    BY <1>2, <2>1, <2>2, <2>4, DepositAnnounced
  <2>7. ptfree' \in Nat /\ ptfree' + Nodes(i)' = ptfree + Nodes(i)
    BY <1>1, <1>5, <1>6, <1>8, <2>5, SMTT(60)
  <2> QED BY <1>5, <1>8, <2>1, <2>4, <2>6, <2>7, PortCountsStep
<1> QED BY <1>7, <1>8 DEF Deposit

\* The message that is taken gives its node back.
LEMMA TakeCounts ==
    ASSUME PortInv, PortInv', PortCountsInv, NEW p \in Proc, NEW i \in Port, NEW w,
           porttab[i].ptstate = "PT_ALLOC",
           SemOK(w, Proc), InLine(w) = InLine(porttab[i].rsem),
           Len(porttab[i].msgs) >= 1,
           ~SomebodyGone => Len(porttab[i].msgs)
               <= Units(w) + Cardinality(Coming("recv", i) \ {p}) + 1,
           ptcall[p] = Idle \/ Waits(p, "recv", i),
           Take(p, i, [porttab[i] EXCEPT !.rsem = w]), panicked' = panicked
    PROVE  PortCountsInv'
<1> DEFINE e == porttab[i]
           pt == [porttab[i] EXCEPT !.rsem = w]
           f == [pt EXCEPT !.msgs = Tail(pt.msgs), !.ssem = SemSignal(pt.ssem)]
<1>1. /\ e \in PortEntry /\ e.msgs \in Seq(Msgs)
  BY AllocFacts DEF PortEntry
<1>2. ptcall[p] # Gone /\ (InCall(p) \/ Clearing(p) => ptcall[p].port = i)
  BY DEF Waits, Idle, Gone, InCall, Clearing
<1>3. /\ f.ptstate = "PT_ALLOC" /\ f.ptseq = e.ptseq /\ f.ptmaxcnt = e.ptmaxcnt
      /\ f.msgs = Tail(e.msgs) /\ f.rsem = w /\ pt.msgs = e.msgs
  BY <1>1 DEF PortEntry
<1>4. Len(Tail(e.msgs)) = Len(e.msgs) - 1 /\ Head(e.msgs) \in Msgs /\ Len(e.msgs) \in Nat
  BY <1>1
<1>5. /\ received' = [received EXCEPT ![p] = Head(pt.msgs)]
      /\ porttab' = [porttab EXCEPT ![i] = f]
      /\ ptfree' = ptfree + 1
      /\ ptcall' = [ptcall EXCEPT ![p] = Idle]
  BY DEF Take
<1> HIDE DEF f
<1>6. PortStep(p, i) /\ porttab'[i] = f
  BY <1>2, <1>5, IsPortStep
<1>7. /\ ptfree \in Nat /\ e.ptseq <= MaxSeq /\ e.ptmaxcnt \in {0} \cup MaxCounts
      /\ received \in [Proc -> Msgs \cup {NoMsg}] /\ panicked \in BOOLEAN
  BY DEF PortCountsInv
<1>8. received' \in [Proc -> Msgs \cup {NoMsg}]
  BY <1>3, <1>4, <1>5, <1>7
<1>9. Nodes(i)' = Len(e.msgs) - 1 /\ Nodes(i) = Len(e.msgs)
  BY <1>3, <1>4, <1>6, AllocNodes, AllocNodesAfter
<1>10. MessagesAnnounced(i)'
  <2>1. Units(w) \in Nat
    BY UnitsAre
  <2>2. Coming("recv", i) \ {p} \subseteq Proc
    BY DEF Coming
  <2>3. Cardinality(Coming("recv", i) \ {p}) \in Nat
    BY <2>2, ComingCard
  <2>4. ~SomebodyGone => Len(f.msgs) <= Units(f.rsem) + Cardinality(Coming("recv", i) \ {p})
    BY <1>3, <1>4, <2>1, <2>3
  <2> QED BY <1>3, <1>6, <2>4, StillAnnounced
<1>11. ptfree' \in Nat /\ ptfree' + Nodes(i)' = ptfree + Nodes(i)
  BY <1>4, <1>5, <1>7, <1>9, SMTT(60)
<1> QED BY <1>3, <1>6, <1>7, <1>8, <1>10, <1>11, PortCountsStep

\* A call that gets in line, and one that returns with nothing done.
LEMMA IdleCounts ==
    ASSUME PortInv, PortInv', PortCountsInv, NEW p \in Proc, NEW i \in Port, NEW e, NEW c,
           porttab' = [porttab EXCEPT ![i] = e], ptcall' = [ptcall EXCEPT ![p] = c],
           ptcall[p] = Idle \/ (InCall(p) /\ ptcall[p].port = i), c = Idle \/ c.port = i,
           c = Idle \/ c.op \in {"send", "recv"},
           p \notin Coming("recv", i),
           e.ptstate = porttab[i].ptstate, e.ptseq = porttab[i].ptseq,
           e.ptmaxcnt = porttab[i].ptmaxcnt, e.msgs = porttab[i].msgs,
           InLine(e.rsem) \subseteq InLine(porttab[i].rsem) \cup {p},
           Units(e.rsem) = Units(porttab[i].rsem),
           UNCHANGED <<ptfree, received, panicked>>
    PROVE  PortCountsInv'
<1>1. ptcall[p] # Gone /\ (InCall(p) \/ Clearing(p) => ptcall[p].port = i) /\ ~Clearing(p)
  BY DEF Idle, Gone, InCall, Clearing
<1>2. PortStep(p, i) /\ porttab'[i] = e /\ ptcall'[p] = c
  <2>1. c \in {Idle, Gone} \/ c.port = i
    OBVIOUS
  <2>2. /\ porttab' = [porttab EXCEPT ![i] = e] /\ ptcall' = [ptcall EXCEPT ![p] = c]
        /\ ptcall[p] # Gone /\ (InCall(p) \/ Clearing(p) => ptcall[p].port = i)
    BY <1>1
  <2>3. PortStep(p, i)
    BY <2>1, <2>2, IsPortStep, ZenonT(60)
  <2>4. porttab'[i] = e /\ ptcall'[p] = c
    BY <2>2 DEF PortInv
  <2> QED BY <2>3, <2>4
<1>3. \A q \in Proc : q # p => ptcall'[q] = ptcall[q]
  BY <1>2 DEF PortStep
<1>4. ~Clearing(p)'
  BY <1>2 DEF Clearing, Idle
<1>5. Nodes(i)' = Nodes(i)
  BY <1>1, <1>2, <1>3, <1>4 DEF Nodes, Clearing
<1>6. Nodes(i) \in Nat
  BY NodesNat
<1>7. /\ ptfree \in Nat /\ porttab[i].ptseq <= MaxSeq /\ porttab[i].ptmaxcnt \in {0} \cup MaxCounts
      /\ received \in [Proc -> Msgs \cup {NoMsg}] /\ panicked \in BOOLEAN
      /\ MessagesAnnounced(i)
  BY DEF PortCountsInv
<1>8. MessagesAnnounced(i)'
  <2>1. CASE e.ptstate = "PT_ALLOC"
    <3>1. Coming("recv", i) \ {p} = Coming("recv", i)
      OBVIOUS
    <3>2. ~SomebodyGone => Len(e.msgs) <= Units(e.rsem) + Cardinality(Coming("recv", i) \ {p})
      BY <1>7, <2>1, <3>1 DEF MessagesAnnounced
    <3> QED BY <1>2, <2>1, <3>2, StillAnnounced
  <2>2. CASE e.ptstate # "PT_ALLOC"
    BY <1>2, <2>2 DEF MessagesAnnounced
  <2> QED BY <2>1, <2>2
<1> QED BY <1>2, <1>5, <1>6, <1>7, <1>8, PortCountsStep

\* ptsend and ptrecv, up to their wait or past it.
LEMMA PtsendCounts ==
    ASSUME PortInv, PortInv', PortCountsInv, NEW p \in Proc, NEW i \in Port, NEW msg \in Msgs,
           Ptsend(p, i, msg)
    PROVE  PortCountsInv'
<1>1. PICK w : w = SemWait(porttab[i].ssem, p)
  OBVIOUS
<1> DEFINE pt == [porttab[i] EXCEPT !.ssem = w]
<1>2. /\ ptcall[p] = Idle /\ porttab[i].ptstate = "PT_ALLOC" /\ received' = received
      /\ \/ /\ porttab' = [porttab EXCEPT ![i] = pt]
            /\ ptcall'  = [ptcall EXCEPT ![p] = Call("send", i, pt.ptseq, msg)]
            /\ UNCHANGED <<ptfree, panicked>>
         \/ Deposit(p, i, pt, msg)
  BY <1>1 DEF Ptsend, PortCall
<1>3. /\ pt.ptstate = porttab[i].ptstate /\ pt.ptseq = porttab[i].ptseq
      /\ pt.ptmaxcnt = porttab[i].ptmaxcnt /\ pt.msgs = porttab[i].msgs
      /\ pt.rsem = porttab[i].rsem
  BY <1>2, AllocFacts DEF PortEntry
<1>4. p \notin Coming("recv", i)
  BY <1>2 DEF Coming, Idle
<1>5. CASE Deposit(p, i, pt, msg)
  BY <1>2, <1>5, DepositCounts
<1>6. CASE /\ porttab' = [porttab EXCEPT ![i] = pt]
           /\ ptcall'  = [ptcall EXCEPT ![p] = Call("send", i, pt.ptseq, msg)]
           /\ UNCHANGED <<ptfree, panicked>>
  <2>1. PICK c : c = Call("send", i, pt.ptseq, msg)
    OBVIOUS
  <2>2. c.op = "send" /\ c.port = i
    BY <2>1 DEF Call
  <2>3. PICK e : e = pt
    OBVIOUS
  <2> HIDE DEF pt
  <2> QED BY <1>2, <1>3, <1>4, <1>6, <2>1, <2>2, <2>3, IdleCounts
<1> QED BY <1>2, <1>5, <1>6

LEMMA PtrecvCounts ==
    ASSUME PortInv, PortInv', PortCountsInv, NEW p \in Proc, NEW i \in Port, Ptrecv(p, i)
    PROVE  PortCountsInv'
<1>1. PICK w : w = SemWait(porttab[i].rsem, p)
  OBVIOUS
<1> DEFINE pt == [porttab[i] EXCEPT !.rsem = w]
<1>2. /\ ptcall[p] = Idle /\ porttab[i].ptstate = "PT_ALLOC" /\ panicked' = panicked
      /\ \/ /\ p \in InLine(pt.rsem)
            /\ porttab' = [porttab EXCEPT ![i] = pt]
            /\ ptcall'  = [ptcall EXCEPT ![p] = Call("recv", i, pt.ptseq, NoMsg)]
            /\ UNCHANGED <<ptfree, received>>
         \/ /\ p \notin InLine(pt.rsem)
            /\ Take(p, i, pt)
  BY <1>1 DEF Ptrecv, PortCall
<1>3. /\ pt.ptstate = porttab[i].ptstate /\ pt.ptseq = porttab[i].ptseq
      /\ pt.ptmaxcnt = porttab[i].ptmaxcnt /\ pt.msgs = porttab[i].msgs
      /\ pt.rsem = w
  BY <1>2, AllocFacts DEF PortEntry
<1>4. p \notin Coming("recv", i)
  BY <1>2 DEF Coming, Idle
<1>5. PICK s : s = porttab[i].rsem
  OBVIOUS
<1>6. /\ SemOK(s, Proc) /\ p \notin InLine(s) /\ s.count \in Int
      /\ Units(s) \in Nat /\ Cardinality(Coming("recv", i)) \in Nat
      /\ Len(porttab[i].msgs) \in Nat
      /\ Units(s) + Cardinality(Coming("recv", i)) <= Len(porttab[i].msgs)
  BY <1>2, <1>5, AllocFacts DEF SemOK
<1>7. /\ SemOK(w, Proc) /\ w.count = s.count - 1
      /\ InLine(w) = IF s.count <= 0 THEN InLine(s) \cup {p} ELSE {}
  BY <1>1, <1>5, <1>6, SemWaitOK
<1>8. CASE /\ p \in InLine(w)
           /\ porttab' = [porttab EXCEPT ![i] = pt]
           /\ ptcall'  = [ptcall EXCEPT ![p] = Call("recv", i, pt.ptseq, NoMsg)]
           /\ UNCHANGED <<ptfree, received>>
  <2>1. PICK c : c = Call("recv", i, pt.ptseq, NoMsg)
    OBVIOUS
  <2>2. c.op = "recv" /\ c.port = i
    BY <2>1 DEF Call
  <2>3. Units(w) = Units(s) /\ InLine(w) = InLine(s) \cup {p}
    BY <1>6, <1>7, <1>8, UnitsAre
  <2>4. PICK e : e = pt
    OBVIOUS
  <2> HIDE DEF pt
  <2> QED BY <1>2, <1>3, <1>4, <1>5, <1>8, <2>1, <2>2, <2>3, <2>4, IdleCounts
<1>9. CASE p \notin InLine(w) /\ Take(p, i, pt)
  <2>1. s.count > 0 /\ InLine(w) = {} /\ InLine(s) = {}
    BY <1>6, <1>7, <1>9, NobodyInLine
  <2>2. Units(w) + 1 = Units(s)
    BY <1>6, <1>7, <2>1, UnitsAre
  <2>3. Len(porttab[i].msgs) >= 1
    BY <1>6, <1>7, <2>2, UnitsAre
  <2>4. Coming("recv", i) \ {p} = Coming("recv", i)
    BY <1>4
  <2>5. ~SomebodyGone => Len(porttab[i].msgs) <= Units(s) + Cardinality(Coming("recv", i))
    BY <1>2, <1>5 DEF PortCountsInv, MessagesAnnounced
  <2>6. Units(w) \in Nat
    BY <1>7, UnitsAre
  <2>7. ~SomebodyGone => Len(porttab[i].msgs)
            <= Units(w) + Cardinality(Coming("recv", i) \ {p}) + 1
    <3>1. Cardinality(Coming("recv", i) \ {p}) = Cardinality(Coming("recv", i))
      BY <2>4
    <3>2. Units(s) + Cardinality(Coming("recv", i)) = Units(w) + Cardinality(Coming("recv", i)) + 1
      BY <1>6, <2>2, <2>6
    <3> QED BY <2>5, <3>1, <3>2
  <2>8. InLine(w) = InLine(porttab[i].rsem)
    BY <1>5, <2>1
  <2> QED BY <1>2, <1>7, <1>9, <2>3, <2>7, <2>8, TakeCounts
<1> QED BY <1>2, <1>3, <1>8, <1>9

\* What follows the wait.
LEMMA PortEndsCount ==
    ASSUME PortInv, PortInv', PortCountsInv, NEW p \in Proc, PtsendEnd(p) \/ PtrecvEnd(p)
    PROVE  PortCountsInv'
<1>1. InCall(p) /\ Released(p)
  BY DEF PtsendEnd, PtrecvEnd, Released
<1>2. PICK i \in Port : i = ptcall[p].port
  BY <1>1, PortCallKinds
<1>3. porttab[i] \in PortEntry
  BY DEF PortInv
<1>4. CASE /\ Outdated(p) /\ ptcall' = [ptcall EXCEPT ![p] = Idle] /\ porttab' = porttab
           /\ UNCHANGED <<ptfree, received, panicked>>
  <2>1. PICK e : e = porttab[i]
    OBVIOUS
  <2>2. porttab' = [porttab EXCEPT ![i] = e]
    BY <1>4, <2>1 DEF PortInv
  <2>3. p \notin Coming("recv", i)
    BY <1>4 DEF Coming
  <2> QED BY <1>1, <1>2, <1>4, <2>1, <2>2, <2>3, IdleCounts
<1>5. CASE /\ ptcall[p].op = "send" /\ ~Outdated(p) /\ received' = received
           /\ Deposit(p, i, porttab[i], ptcall[p].msg)
  <2>1. PICK w : w = porttab[i].ssem
    OBVIOUS
  <2>2. porttab[i] = [porttab[i] EXCEPT !.ssem = w]
    BY <1>3, <2>1 DEF PortEntry
  <2>3. PICK msg : msg = ptcall[p].msg
    OBVIOUS
  <2>4. Deposit(p, i, [porttab[i] EXCEPT !.ssem = w], msg)
    BY <1>5, <2>2, <2>3
  <2>5. porttab[i].ptstate = "PT_ALLOC" /\ Waits(p, "send", i)
    BY <1>2, <1>5 DEF Outdated, Waits
  <2> QED BY <1>5, <2>4, <2>5, DepositCounts
<1>6. CASE /\ ptcall[p].op = "recv" /\ ~Outdated(p) /\ panicked' = panicked
           /\ Take(p, i, porttab[i])
  <2>1. PICK w : w = porttab[i].rsem
    OBVIOUS
  <2>2. porttab[i] = [porttab[i] EXCEPT !.rsem = w]
    BY <1>3, <2>1 DEF PortEntry
  <2>3. Take(p, i, [porttab[i] EXCEPT !.rsem = w])
    BY <1>6, <2>2
  <2>4. porttab[i].ptstate = "PT_ALLOC" /\ Waits(p, "recv", i)
    BY <1>2, <1>6 DEF Outdated, Waits
  <2>5. p \in Coming("recv", i)
    BY <1>1, <1>2, <1>6 DEF Coming
  <2>6. /\ SemOK(w, Proc) /\ InLine(w) = InLine(porttab[i].rsem) /\ Units(w) \in Nat
        /\ Cardinality(Coming("recv", i)) \in Nat /\ Len(porttab[i].msgs) \in Nat
        /\ Units(w) + Cardinality(Coming("recv", i)) <= Len(porttab[i].msgs)
    BY <2>1, <2>4, AllocFacts
  <2>7. Coming("recv", i) \subseteq Proc /\ Coming("recv", i) \ {p} \subseteq Proc
    BY DEF Coming
  <2>8. /\ Cardinality(Coming("recv", i)) <= Cardinality(Coming("recv", i) \ {p}) + 1
        /\ Cardinality(Coming("recv", i) \ {p}) <= Cardinality(Coming("recv", i)) - 1
        /\ Cardinality(Coming("recv", i) \ {p}) \in Nat
    <3>1. Coming("recv", i) \subseteq (Coming("recv", i) \ {p}) \cup {p}
      OBVIOUS
    <3> QED BY <2>5, <2>7, <3>1, ComingCard
  <2>9. Len(porttab[i].msgs) >= 1
    BY <2>6, <2>8
  <2>10. ~SomebodyGone => Len(porttab[i].msgs) <= Units(w) + Cardinality(Coming("recv", i))
    BY <2>1, <2>4 DEF PortCountsInv, MessagesAnnounced
  <2>11. ~SomebodyGone => Len(porttab[i].msgs)
             <= Units(w) + Cardinality(Coming("recv", i) \ {p}) + 1
    BY <2>6, <2>8, <2>10
  <2> QED BY <1>6, <2>3, <2>4, <2>6, <2>9, <2>11, TakeCounts
<1>7. CASE PtsendEnd(p)
  BY <1>2, <1>4, <1>5, <1>7 DEF PtsendEnd
<1>8. CASE PtrecvEnd(p)
  BY <1>2, <1>4, <1>6, <1>8 DEF PtrecvEnd
<1> QED BY <1>7, <1>8

\* A port without messages has nothing to announce.
LEMMA NothingToAnnounce ==
    ASSUME PortInv', NEW i \in Port, porttab'[i].msgs = <<>>
    PROVE  MessagesAnnounced(i)'
<1>1. LinesOK(i)'
  BY DEF PortInv, PortOK
<1>2. SemOK(porttab'[i].rsem, Proc)
  BY <1>1 DEF LinesOK
<1>3. Units(porttab'[i].rsem) \in Nat
  BY <1>2, UnitsAre
<1>4. Coming("recv", i)' \subseteq Proc
  BY DEF Coming
<1>5. Cardinality(Coming("recv", i)') \in Nat
  BY <1>4, ComingCard
<1>6. Len(porttab'[i].msgs) = 0
  OBVIOUS
<1> QED BY <1>3, <1>5, <1>6 DEF MessagesAnnounced

LEMMA PtcreateCounts ==
    ASSUME PortInv, PortInv', PortCountsInv, NEW p \in Proc, NEW count \in MaxCounts,
           Ptcreate(p, count)
    PROVE  PortCountsInv'
<1>1. PICK i : i = (ptnextid + Min(FreePorts)) % NPORTS
  OBVIOUS
<1>2. /\ ptcall[p] = Idle /\ FreePorts # {} /\ porttab[i].ptseq < MaxSeq
      /\ porttab'  = [porttab EXCEPT ![i] = Created(@, count)]
      /\ ptcall' = ptcall /\ UNCHANGED <<ptfree, received, panicked>>
  BY <1>1 DEF Ptcreate, PortCall
<1>3. i \in Port /\ porttab[i].ptstate = "PT_FREE"
  <2>1. FreePorts \subseteq Nat
    BY PortsAssumption DEF FreePorts
  <2>2. PICK k : k = Min(FreePorts)
    OBVIOUS
  <2>3. k \in FreePorts
    BY <1>2, <2>1, <2>2, MinNat
  <2>4. k \in Nat /\ porttab[i].ptstate = "PT_FREE"
    <3>1. k \in Nat /\ porttab[(ptnextid + k) % NPORTS].ptstate = "PT_FREE"
      BY <2>3, PortsAssumption DEF FreePorts
    <3> QED BY <1>1, <2>2, <3>1
  <2>5. ptnextid \in Nat /\ NPORTS \in Nat \ {0}
    BY PortsAssumption DEF PortInv, Port
  <2>6. i \in 0 .. NPORTS-1
    BY <1>1, <2>2, <2>4, <2>5
  <2> QED BY <2>4, <2>6 DEF Port
<1>4. PICK e : e = Created(porttab[i], count)
  OBVIOUS
<1>5. /\ e.ptstate = "PT_ALLOC" /\ e.ptseq = porttab[i].ptseq + 1 /\ e.ptmaxcnt = count
      /\ e.msgs = <<>>
  BY <1>4 DEF Created
<1>6. porttab' = [porttab EXCEPT ![i] = e] /\ ptcall' = [ptcall EXCEPT ![p] = Idle]
  BY <1>2, <1>4 DEF PortInv
<1>7. ptcall[p] # Gone /\ (InCall(p) \/ Clearing(p) => ptcall[p].port = i)
  BY <1>2 DEF Idle, Gone, InCall, Clearing
<1>8. PortStep(p, i) /\ porttab'[i] = e
  BY <1>3, <1>6, <1>7, IsPortStep
<1>9. Nodes(i) = 0 /\ Nodes(i)' = 0
  <2>1. Len(e.msgs) = 0
    BY <1>5
  <2>2. Nodes(i)' = Len(porttab'[i].msgs)
    BY <1>3, <1>5, <1>8, AllocNodesAfter
  <2> QED BY <1>3, <1>8, <2>1, <2>2 DEF Nodes
<1>10. MessagesAnnounced(i)'
  BY <1>3, <1>5, <1>8, NothingToAnnounce
<1>11. e.ptseq <= MaxSeq
  <2>1. porttab[i].ptseq \in Nat /\ MaxSeq \in Nat
    BY <1>3, PortsAssumption DEF PortInv, PortEntry
  <2> QED BY <1>2, <1>5, <2>1
<1>12. ptfree \in Nat /\ received \in [Proc -> Msgs \cup {NoMsg}] /\ panicked \in BOOLEAN
  BY DEF PortCountsInv
<1> QED BY <1>2, <1>3, <1>5, <1>8, <1>9, <1>10, <1>11, <1>12, PortCountsStep

\* While a port is cleared the nodes go to the free list once.
LEMMA PtclearCounts ==
    ASSUME PortInv, PortInv', PortCountsInv, NEW p \in Proc, NEW i \in Port,
           NEW newstate \in {"PT_ALLOC", "PT_FREE"}, Ptclear(p, i, newstate)
    PROVE  PortCountsInv'
<1>1. /\ ptcall[p] = Idle /\ porttab[i].ptstate = "PT_ALLOC" /\ porttab[i].ptseq < MaxSeq
      /\ porttab' = [porttab EXCEPT ![i] = Limbo(@)]
      /\ ptcall'  = [ptcall EXCEPT ![p] = Clear("dispose", i, newstate)]
      /\ UNCHANGED <<ptfree, received, panicked>>
  BY DEF Ptclear, PortCall
<1>2. PICK e : e = Limbo(porttab[i])
  OBVIOUS
<1>3. /\ e.ptstate = "PT_LIMBO" /\ e.ptseq = porttab[i].ptseq + 1
      /\ e.ptmaxcnt = porttab[i].ptmaxcnt /\ e.msgs = porttab[i].msgs
  BY <1>1, <1>2, AllocFacts DEF Limbo, PortEntry
<1>4. PICK c : c = Clear("dispose", i, newstate)
  OBVIOUS
<1>5. c.op = "dispose" /\ c.port = i
  BY <1>4 DEF Clear
<1>6. porttab' = [porttab EXCEPT ![i] = e] /\ ptcall' = [ptcall EXCEPT ![p] = c]
  BY <1>1, <1>2, <1>4
<1>7. ptcall[p] # Gone /\ (InCall(p) \/ Clearing(p) => ptcall[p].port = i)
  BY <1>1 DEF Idle, Gone, InCall, Clearing
<1>8. PortStep(p, i) /\ porttab'[i] = e
  <2>1. c \in {Idle, Gone} \/ c.port = i
    BY <1>5
  <2>2. PortStep(p, i)
    BY <1>6, <1>7, <2>1, IsPortStep
  <2>3. porttab'[i] = e
    BY <1>6 DEF PortInv
  <2> QED BY <2>2, <2>3
<1>9. ptcall'[p] = c /\ \A q \in Proc : q # p => ptcall'[q] = ptcall[q]
  BY <1>6 DEF PortInv
<1>10. Nodes(i)' = Nodes(i)
  <2>1. \A q \in Proc : ~(ptcall[q].op \in {"semreset1", "semreset2"} /\ ptcall[q].port = i)
    BY <1>1 DEF PortInv, PortOK, ClearOK, Clears, Clearing
  <2>2. \A q \in Proc : ~(ptcall'[q].op \in {"semreset1", "semreset2"} /\ ptcall'[q].port = i)
    BY <1>5, <1>9, <2>1
  <2> QED BY <1>1, <1>3, <1>8, <2>1, <2>2 DEF Nodes
<1>11. MessagesAnnounced(i)'
  BY <1>3, <1>8 DEF MessagesAnnounced
<1>12. e.ptseq <= MaxSeq
  <2>1. porttab[i].ptseq \in Nat /\ MaxSeq \in Nat
    BY PortsAssumption DEF PortInv, PortEntry
  <2> QED BY <1>1, <1>3, <2>1
<1>13. /\ ptfree \in Nat /\ received \in [Proc -> Msgs \cup {NoMsg}] /\ panicked \in BOOLEAN
       /\ porttab[i].ptmaxcnt \in {0} \cup MaxCounts
  BY DEF PortCountsInv
<1>14. Nodes(i) \in Nat
  BY NodesNat
<1> QED BY <1>1, <1>3, <1>8, <1>10, <1>11, <1>12, <1>13, <1>14, PortCountsStep

\* A step of a process that clears port i.
LEMMA ClearerCounts ==
    ASSUME PortInv, PortInv', PortCountsInv, NEW p \in Proc, NEW i \in Port, Clears(p, i),
           NEW e, NEW c,
           porttab' = [porttab EXCEPT ![i] = e], ptcall' = [ptcall EXCEPT ![p] = c],
           c = Idle \/ c.port = i,
           e.ptseq = porttab[i].ptseq, e.ptmaxcnt = porttab[i].ptmaxcnt,
           ptfree' \in Nat, ptfree' + Nodes(i)' = ptfree + Nodes(i),
           UNCHANGED <<received, panicked>>,
           e.ptstate = "PT_ALLOC" => e.msgs = <<>>
    PROVE  PortCountsInv'
<1>1. /\ ptcall[p] # Gone /\ (InCall(p) \/ Clearing(p) => ptcall[p].port = i)
  BY DEF Clears, Clearing, Gone
<1>2. c \in {Idle, Gone} \/ c.port = i
  OBVIOUS
<1>3. PortStep(p, i)
  BY <1>1, <1>2, IsPortStep
<1>4. porttab'[i] = e
  BY DEF PortInv
<1>5. MessagesAnnounced(i)'
  <2>1. CASE e.ptstate = "PT_ALLOC"
    BY <1>4, <2>1, NothingToAnnounce
  <2>2. CASE e.ptstate # "PT_ALLOC"
    BY <1>4, <2>2 DEF MessagesAnnounced
  <2> QED BY <2>1, <2>2
<1>6. /\ received' \in [Proc -> Msgs \cup {NoMsg}] /\ panicked' \in BOOLEAN
      /\ e.ptseq <= MaxSeq /\ e.ptmaxcnt \in {0} \cup MaxCounts
  BY DEF PortCountsInv
<1> QED BY <1>3, <1>4, <1>5, <1>6, PortCountsStep

LEMMA ClearersCount ==
    ASSUME PortInv, PortInv', PortCountsInv, NEW p \in Proc,
           PtclearSenders(p) \/ PtclearReceivers(p) \/ PtclearEnd(p)
    PROVE  PortCountsInv'
<1>1. Clearing(p) /\ ptcall[p] \in PortCalls
  BY DEF PtclearSenders, PtclearReceivers, PtclearEnd, Clearing, PortInv
<1>2. PICK i \in Port : i = ptcall[p].port
  BY <1>1, PortCallKinds
<1>3. PICK ns \in {"PT_ALLOC", "PT_FREE"} : ns = ptcall[p].newstate
  BY <1>1, PortCallKinds
<1>4. /\ Clears(p, i) /\ ClearOK(i) /\ porttab[i] \in PortEntry
      /\ porttab[i].ptstate = "PT_LIMBO" /\ Len(porttab[i].msgs) \in Nat
      /\ \A q \in Proc : Clears(q, i) => q = p
  <2>1. Clears(p, i)
    BY <1>1, <1>2 DEF Clears
  <2>2. ClearOK(i) /\ porttab[i] \in PortEntry
    BY DEF PortInv, PortOK
  <2>3. porttab[i].ptstate = "PT_LIMBO" /\ \A q \in Proc : Clears(q, i) => q = p
    BY <2>1, <2>2 DEF ClearOK
  <2> QED BY <2>1, <2>2, <2>3 DEF PortEntry
<1>5. Nodes(i) = IF ptcall[p].op = "dispose" THEN Len(porttab[i].msgs) ELSE 0
  BY <1>1, <1>2, <1>4 DEF Nodes, Clears, Clearing
<1>6. \A q \in Proc : q # p => ptcall'[q] = ptcall[q]
  BY DEF PtclearSenders, PtclearReceivers, PtclearEnd, PortInv
<1>7. ptfree \in Nat
  BY DEF PortCountsInv
<1>8. ASSUME NEW o \in {"semreset1", "semreset2"}, ptcall' = [ptcall EXCEPT ![p].op = o]
      PROVE  /\ \E c : c.port = i /\ ptcall' = [ptcall EXCEPT ![p] = c]
             /\ Nodes(i)' = 0
  <2>1. PICK c : c = [ptcall[p] EXCEPT !.op = o]
    OBVIOUS
  <2>2. c.op = o /\ c.port = i
    BY <1>1, <1>2, <2>1 DEF PortCalls, Clearing, Gone, Idle
  <2>3. ptcall' = [ptcall EXCEPT ![p] = c] /\ ptcall'[p] = c
    BY <1>8, <2>1 DEF PortInv
  <2>4. Nodes(i)' = 0
    BY <1>8, <2>2, <2>3 DEF Nodes
  <2> QED BY <2>2, <2>3, <2>4
<1>9. CASE PtclearSenders(p)
  <2>1. /\ ptcall[p].op = "dispose" /\ Emptied(i, ns)
        /\ ptcall' = [ptcall EXCEPT ![p].op = "semreset1"]
        /\ UNCHANGED <<received, panicked>>
    BY <1>2, <1>3, <1>9 DEF PtclearSenders
  <2>2. PICK w : w = SemReset(IF ns = "PT_ALLOC" THEN porttab[i].ptmaxcnt ELSE 0)
    OBVIOUS
  <2>3. PICK m : m = IF ns = "PT_ALLOC" THEN <<>> ELSE porttab[i].msgs
    OBVIOUS
  <2>4. PICK e : e = [porttab[i] EXCEPT !.ssem = w, !.msgs = m]
    OBVIOUS
  <2>5. porttab' = [porttab EXCEPT ![i] = e] /\ ptfree' = ptfree + Len(porttab[i].msgs)
    <3>1. porttab' = [porttab EXCEPT ![i].ssem = w, ![i].msgs = m]
      BY <1>4, <2>1, <2>2, <2>3 DEF Emptied, PortInv, PortEntry
    <3>2. porttab' = [porttab EXCEPT ![i] = e]
      BY <1>4, <2>4, <3>1 DEF PortInv
    <3> QED BY <2>1, <3>2 DEF Emptied
  <2>6. /\ e.ptstate = "PT_LIMBO" /\ e.ptseq = porttab[i].ptseq
        /\ e.ptmaxcnt = porttab[i].ptmaxcnt
    BY <1>4, <2>4 DEF PortEntry
  <2>7. Nodes(i)' = 0
    BY <1>8, <2>1
  <2>8. PICK c : c.port = i /\ ptcall' = [ptcall EXCEPT ![p] = c]
    BY <1>8, <2>1
  <2>9. ptfree' \in Nat /\ ptfree' + Nodes(i)' = ptfree + Nodes(i)
    BY <1>4, <1>5, <1>7, <2>1, <2>5, <2>7
  <2> QED BY <1>4, <2>1, <2>5, <2>6, <2>8, <2>9, ClearerCounts
<1>10. CASE PtclearReceivers(p)
  <2>1. /\ ptcall[p].op = "semreset1"
        /\ porttab' = [porttab EXCEPT ![i].rsem = SemReset(0)]
        /\ ptcall' = [ptcall EXCEPT ![p].op = "semreset2"]
        /\ UNCHANGED <<ptfree, received, panicked>>
    BY <1>2, <1>10 DEF PtclearReceivers
  <2>2. PICK e : e = [porttab[i] EXCEPT !.rsem = SemReset(0)]
    OBVIOUS
  <2>3. porttab' = [porttab EXCEPT ![i] = e]
    BY <2>1, <2>2
  <2>4. /\ e.ptstate = "PT_LIMBO" /\ e.ptseq = porttab[i].ptseq
        /\ e.ptmaxcnt = porttab[i].ptmaxcnt
    BY <1>4, <2>2 DEF PortEntry
  <2>5. Nodes(i)' = 0
    BY <1>8, <2>1
  <2>6. PICK c : c.port = i /\ ptcall' = [ptcall EXCEPT ![p] = c]
    BY <1>8, <2>1
  <2>7. ptfree' \in Nat /\ ptfree' + Nodes(i)' = ptfree + Nodes(i)
    BY <1>5, <1>7, <2>1, <2>5
  <2>8. UNCHANGED <<received, panicked>> /\ (e.ptstate = "PT_ALLOC" => e.msgs = <<>>)
    BY <2>1, <2>4
  <2> QED BY <1>4, <2>3, <2>4, <2>6, <2>7, <2>8, ClearerCounts
<1>11. CASE PtclearEnd(p)
  <2>1. /\ ptcall[p].op = "semreset2"
        /\ porttab' = [porttab EXCEPT ![i].ptstate = ns]
        /\ ptcall' = [ptcall EXCEPT ![p] = Idle]
        /\ UNCHANGED <<ptfree, received, panicked>>
    BY <1>2, <1>3, <1>11 DEF PtclearEnd
  <2>2. PICK e : e = [porttab[i] EXCEPT !.ptstate = ns]
    OBVIOUS
  <2>3. porttab' = [porttab EXCEPT ![i] = e] /\ porttab'[i] = e
    BY <2>1, <2>2 DEF PortInv
  <2>4. /\ e.ptstate = ns /\ e.ptseq = porttab[i].ptseq /\ e.msgs = porttab[i].msgs
        /\ e.ptmaxcnt = porttab[i].ptmaxcnt
    BY <1>4, <2>2 DEF PortEntry
  <2>5. ns = "PT_ALLOC" => e.msgs = <<>>
    BY <1>3, <1>4, <2>1, <2>4 DEF ClearOK
  <2>6. Nodes(i)' = 0
    <3>1. CASE ns = "PT_ALLOC"
      <4>1. Nodes(i)' = Len(e.msgs)
        BY <2>3, <2>4, <3>1, AllocNodesAfter
      <4> QED BY <2>5, <3>1, <4>1
    <3>2. CASE ns = "PT_FREE"
      BY <2>3, <2>4, <3>2 DEF Nodes
    <3> QED BY <3>1, <3>2
  <2>7. ptfree' \in Nat /\ ptfree' + Nodes(i)' = ptfree + Nodes(i)
    BY <1>5, <1>7, <2>1, <2>6
  <2>8. PICK c : c = Idle
    OBVIOUS
  <2> QED BY <1>4, <2>1, <2>3, <2>4, <2>5, <2>7, <2>8, ClearerCounts, ZenonT(60)
<1> QED BY <1>9, <1>10, <1>11

\* A victim that waits, or has been let in, holds no node.
LEMMA PortKillCounts ==
    ASSUME PortInv, PortInv', PortCountsInv, "clear" \notin PortVictims,
           NEW p \in Proc, PortKill(p)
    PROVE  PortCountsInv'
<1>1. /\ InCall(p) /\ ptcall[p] # Gone
      /\ porttab' = [porttab EXCEPT ![ptcall[p].port].ssem = SemKill(@, p),
                                    ![ptcall[p].port].rsem = SemKill(@, p)]
      /\ ptcall' = [ptcall EXCEPT ![p] = Gone]
      /\ UNCHANGED <<ptfree, received, panicked>>
  <2>1. ptcall[p].op \in PortVictims
    BY DEF PortKill
  <2>2. InCall(p)
    BY <2>1, PortsAssumption DEF InCall
  <2> QED BY <2>2, PortCallKinds DEF PortKill
<1>2. PICK i \in Port : i = ptcall[p].port
  BY <1>1, PortCallKinds
<1>3. PICK v : v = SemKill(porttab[i].ssem, p)
  OBVIOUS
<1>4. PICK w : w = SemKill(porttab[i].rsem, p)
  OBVIOUS
<1>5. PICK e : e = [porttab[i] EXCEPT !.ssem = v, !.rsem = w]
  OBVIOUS
<1>6. porttab[i] \in PortEntry /\ porttab \in [Port -> PortEntry]
  BY DEF PortInv
<1>7. porttab' = [porttab EXCEPT ![i] = e]
  <2>1. porttab' = [porttab EXCEPT ![i].ssem = v, ![i].rsem = w]
    BY <1>1, <1>2, <1>3, <1>4, <1>6 DEF PortEntry
  <2> QED BY <1>5, <1>6, <2>1
<1>8. /\ e.ptstate = porttab[i].ptstate /\ e.ptseq = porttab[i].ptseq
      /\ e.ptmaxcnt = porttab[i].ptmaxcnt /\ e.msgs = porttab[i].msgs
  BY <1>5, <1>6 DEF PortEntry
<1>9. InCall(p) \/ Clearing(p) => ptcall[p].port = i
  BY <1>2
<1>10. PortStep(p, i) /\ porttab'[i] = e
  BY <1>1, <1>7, <1>9, IsPortStep
<1>11. ptcall'[p] = Gone /\ \A q \in Proc : q # p => ptcall'[q] = ptcall[q]
  BY <1>1 DEF PortInv
<1>12. Nodes(i)' = Nodes(i)
  BY <1>1, <1>8, <1>10, <1>11 DEF Nodes, InCall, Gone
<1>13. SomebodyGone'
  BY <1>11 DEF SomebodyGone
<1>14. MessagesAnnounced(i)'
  BY <1>13 DEF MessagesAnnounced
<1>15. /\ ptfree \in Nat /\ received \in [Proc -> Msgs \cup {NoMsg}] /\ panicked \in BOOLEAN
       /\ porttab[i].ptmaxcnt \in {0} \cup MaxCounts /\ porttab[i].ptseq <= MaxSeq
  BY DEF PortCountsInv
<1>16. Nodes(i) \in Nat
  BY NodesNat
<1> QED BY <1>1, <1>8, <1>10, <1>12, <1>14, <1>15, <1>16, PortCountsStep

\* At the start every node is free.
LEMMA PortCountsInit ==
    ASSUME PortsInit
    PROVE  PortCountsInv
<1>1. /\ \A i \in Port : /\ porttab[i].ptstate = "PT_FREE" /\ porttab[i].ptseq = 0
                         /\ porttab[i].ptmaxcnt = 0
      /\ ptfree = PT_MSGS /\ received = [p \in Proc |-> NoMsg] /\ panicked = FALSE
  BY DEF PortsInit
<1>2. \A i \in Port : Nodes(i) = 0
  BY <1>1 DEF Nodes
<1>3. NodesInUse = {}
  BY <1>2 DEF NodesInUse
<1>4. IsFiniteSet(NodesInUse) /\ Cardinality(NodesInUse) = 0
  BY <1>3, FS_EmptySet
<1>5. NodesConserved
  BY <1>1, <1>4, PortsAssumption DEF NodesConserved
<1>6. \A i \in Port : MessagesAnnounced(i)
  BY <1>1 DEF MessagesAnnounced
<1>7. ptfree \in Nat /\ received \in [Proc -> Msgs \cup {NoMsg}] /\ panicked \in BOOLEAN
  BY <1>1, PortsAssumption
<1>8. \A i \in Port : porttab[i].ptseq <= MaxSeq /\ porttab[i].ptmaxcnt \in {0} \cup MaxCounts
  BY <1>1, PortsAssumption
<1> QED BY <1>4, <1>5, <1>6, <1>7, <1>8 DEF PortCountsInv

LEMMA PortCountsNext ==
    ASSUME PortInv, PortInv', PortCountsInv, "clear" \notin PortVictims, [PortsNext]_portvars
    PROVE  PortCountsInv'
<1>1. ASSUME NEW p \in Proc, NEW count \in MaxCounts, Ptcreate(p, count) PROVE PortCountsInv'
  BY <1>1, PtcreateCounts
<1>2. ASSUME NEW p \in Proc, NEW i \in Port, NEW msg \in Msgs, Ptsend(p, i, msg)
      PROVE  PortCountsInv'
  BY <1>2, PtsendCounts
<1>3. ASSUME NEW p \in Proc, NEW i \in Port, Ptrecv(p, i) PROVE PortCountsInv'
  BY <1>3, PtrecvCounts
<1>4. ASSUME NEW p \in Proc, NEW i \in Port, Ptreset(p, i) \/ Ptdelete(p, i)
      PROVE  PortCountsInv'
  <2>1. PICK ns \in {"PT_ALLOC", "PT_FREE"} : Ptclear(p, i, ns)
    BY <1>4 DEF Ptreset, Ptdelete
  <2> QED BY <2>1, PtclearCounts
<1>5. ASSUME NEW p \in Proc, PortGoesOn(p) PROVE PortCountsInv'
  BY <1>5, PortEndsCount, ClearersCount DEF PortGoesOn
<1>6. ASSUME NEW p \in Proc, PortKill(p) PROVE PortCountsInv'
  BY <1>6, PortKillCounts
<1>7. CASE UNCHANGED portvars
  <2>1. UNCHANGED <<porttab, ptfree, ptcall, received, panicked>>
    BY <1>7 DEF portvars
  <2>2. \A i \in Port : Nodes(i)' = Nodes(i)
    BY <2>1 DEF Nodes
  <2>3. NodesInUse' = NodesInUse
    BY <2>2 DEF NodesInUse
  <2>4. ASSUME NEW i \in Port PROVE MessagesAnnounced(i)'
    <3>1. Coming("recv", i)' = Coming("recv", i)
      BY <2>1 DEF Coming, Released, Outdated, InCall
    <3>2. MessagesAnnounced(i)
      BY DEF PortCountsInv
    <3> QED BY <2>1, <3>1, <3>2 DEF MessagesAnnounced, SomebodyGone
  <2> QED BY <2>1, <2>3, <2>4 DEF PortCountsInv, NodesConserved
<1> QED BY <1>1, <1>2, <1>3, <1>4, <1>5, <1>6, <1>7 DEF PortsNext

\* What ptcount says of a port that nobody is on his way into.
LEMMA PtcountIs ==
    ASSUME PortInv, PortCountsInv
    PROVE  PtcountTells
<1> SUFFICES ASSUME NEW i \in Port, porttab[i].ptstate = "PT_ALLOC",
                    Coming("recv", i) \cup Coming("send", i) = {},
                    \A p \in Proc : ptcall[p] # Gone
             PROVE  LET senders   == Cardinality(InLine(porttab[i].ssem))
                        receivers == Cardinality(InLine(porttab[i].rsem))
                    IN  Ptcount(i) = IF receivers > 0 THEN -receivers
                                                      ELSE Len(porttab[i].msgs) + senders
  BY DEF PtcountTells
<1>1. PICK s : s = porttab[i].ssem
  OBVIOUS
<1>2. PICK r : r = porttab[i].rsem
  OBVIOUS
<1>3. /\ SemOK(s, Proc) /\ SemOK(r, Proc) /\ Len(porttab[i].msgs) \in Nat
      /\ Units(r) + Cardinality(Coming("recv", i)) <= Len(porttab[i].msgs)
  BY <1>1, <1>2, AllocFacts
<1>4. /\ Cardinality(InLine(s)) = Len(s.line) /\ Cardinality(InLine(r)) = Len(r.line)
      /\ s.count \in Int /\ r.count \in Int
      /\ s.count < 0 => Cardinality(InLine(s)) = -s.count
      /\ r.count < 0 => Cardinality(InLine(r)) = -r.count
      /\ s.count >= 0 => Cardinality(InLine(s)) = 0
      /\ r.count >= 0 => Cardinality(InLine(r)) = 0
  <2>1. ASSUME NEW t, SemOK(t, Proc)
        PROVE  /\ Cardinality(InLine(t)) = Len(t.line) /\ t.count \in Int
               /\ t.count < 0 => Cardinality(InLine(t)) = -t.count
               /\ t.count >= 0 => Cardinality(InLine(t)) = 0
    <3>1. /\ t.count \in Int /\ t.line \in Queue(Proc)
          /\ t.count >= 0 => t.line = <<>>
          /\ t.count < 0 => Len(t.line) + t.count = 0
      BY <2>1 DEF SemOK
    <3>2. Cardinality(InLine(t)) = Len(t.line) /\ Len(t.line) \in Nat
      BY <3>1, QueueCard DEF InLine
    <3>3. Len(<<>>) = 0
      OBVIOUS
    <3> QED BY <3>1, <3>2, <3>3
  <2> QED BY <1>3, <2>1
<1>5. Cardinality(Coming("recv", i)) = 0
  BY FS_EmptySet
<1>6. Len(porttab[i].msgs) <= Units(r) + Cardinality(Coming("recv", i))
  <2>1. MessagesAnnounced(i) /\ ~SomebodyGone
    BY DEF PortCountsInv, SomebodyGone
  <2> QED BY <1>2, <2>1 DEF MessagesAnnounced
<1>7. Units(r) \in Nat /\ (r.count > 0 => Units(r) = r.count) /\ (r.count <= 0 => Units(r) = 0)
  BY <1>3, UnitsAre
<1>8. Len(porttab[i].msgs) = Units(r)
  BY <1>3, <1>5, <1>6, <1>7
<1>9. Ptcount(i) = IF r.count >= 0 /\ s.count < 0 THEN r.count - s.count ELSE r.count
  BY <1>1, <1>2 DEF Ptcount
<1>10. Ptcount(i) = IF Cardinality(InLine(r)) > 0 THEN -Cardinality(InLine(r))
                    ELSE Len(porttab[i].msgs) + Cardinality(InLine(s))
  <2>1. PICK a : a = Cardinality(InLine(r))
    OBVIOUS
  <2>2. PICK b : b = Cardinality(InLine(s))
    OBVIOUS
  <2>3. PICK m : m = Len(porttab[i].msgs)
    OBVIOUS
  <2>4. /\ s.count \in Int /\ r.count \in Int
        /\ s.count < 0 => b = -s.count
        /\ r.count < 0 => a = -r.count
        /\ s.count >= 0 => b = 0
        /\ r.count >= 0 => a = 0 /\ m = r.count
    BY <1>4, <1>7, <1>8, <2>1, <2>2, <2>3
  <2>5. (IF r.count >= 0 /\ s.count < 0 THEN r.count - s.count ELSE r.count)
            = IF a > 0 THEN -a ELSE m + b
    BY <2>4
  <2> QED BY <1>9, <2>1, <2>2, <2>3, <2>5
<1> QED BY <1>1, <1>2, <1>10

LEMMA PortsTyped ==
    ASSUME PortInv, PortCountsInv
    PROVE  PortsTypeOK
<1>1. ptfree \in 0 .. PT_MSGS
  <2>1. Cardinality(NodesInUse) \in Nat
    BY FS_CardinalityType DEF PortCountsInv
  <2> QED BY <2>1, PortsAssumption DEF PortCountsInv, NodesConserved
<1>2. Queue(Proc) \subseteq Seq(Proc)
  BY DEF Queue
<1>3. PortSem \subseteq [count : Int, line : Seq(Proc)]
  BY <1>2 DEF PortSem
<1>4. ASSUME NEW i \in Port
      PROVE  porttab[i] \in [ptstate : {"PT_FREE", "PT_LIMBO", "PT_ALLOC"},
                             ptseq : 0 .. MaxSeq, ptmaxcnt : {0} \cup MaxCounts,
                             msgs : Seq(Msgs),
                             ssem : [count : Int, line : Seq(Proc)],
                             rsem : [count : Int, line : Seq(Proc)]]
  <2>1. porttab[i] \in PortEntry
    BY DEF PortInv
  <2>2. porttab[i].ptseq <= MaxSeq /\ porttab[i].ptmaxcnt \in {0} \cup MaxCounts
    BY DEF PortCountsInv
  <2>3. porttab[i].ptseq \in 0 .. MaxSeq
    BY <2>1, <2>2, PortsAssumption DEF PortEntry
  <2>4. /\ porttab[i].ssem \in [count : Int, line : Seq(Proc)]
        /\ porttab[i].rsem \in [count : Int, line : Seq(Proc)]
    BY <1>3, <2>1 DEF PortEntry
  <2> QED BY <2>1, <2>2, <2>3, <2>4 DEF PortEntry
<1>5. \A i \in Port : porttab[i] \in [ptstate : {"PT_FREE", "PT_LIMBO", "PT_ALLOC"},
                             ptseq : 0 .. MaxSeq, ptmaxcnt : {0} \cup MaxCounts,
                             msgs : Seq(Msgs),
                             ssem : [count : Int, line : Seq(Proc)],
                             rsem : [count : Int, line : Seq(Proc)]]
  BY <1>4
<1>6. porttab \in [Port -> PortEntry] /\ ptnextid \in Port
  BY DEF PortInv
<1> QED BY <1>1, <1>5, <1>6 DEF PortsTypeOK, PortCountsInv

\* The port table fits together: every message node is on the free list or in
\* the list of one port, whatever resets and deletions overtake the calls
\* (ptsend.c:42, ptrecv.c:40, ptclear.c:34), a receiver that is let in finds a
\* message, and ptcount tells the messages or the receivers in line
\* (ptcount.c:7).  A process that is killed while it clears a port is left out:
\* its nodes are in the free list and in the port.
THEOREM PortsFit ==
    ASSUME "clear" \notin PortVictims
    PROVE  PortsSpec => []PortsConsistent
<1>1. PortsInit => PortInv /\ PortCountsInv
  BY PortsInitInv, PortCountsInit
<1>2. (PortInv /\ PortCountsInv) /\ [PortsNext]_portvars => (PortInv /\ PortCountsInv)'
  BY PortsNextInv, PortCountsNext
<1>3. PortInv /\ PortCountsInv => PortsConsistent
  BY PortInvServes, PtcountIs, PortsTyped DEF PortsConsistent, PortCountsInv
<1> QED BY <1>1, <1>2, <1>3, PTL DEF PortsSpec
-----------------------------------------------------------------------------
\* Ports are channels.

\* A step of one process that leaves every port as open as it was: the calls of
\* the others stay what they were, overtaken or not.
LEMMA CallsStep ==
    ASSUME PortInv, PortInv', NEW p \in Proc,
           \A q \in Proc : q # p => ptcall'[q] = ptcall[q]
    PROVE  /\ CallsMade' = [CallsMade EXCEPT ![p] = CallOf(p)']
           /\ CallsMade[p] = CallOf(p)
           /\ ~InCall(p) => CallOf(p) = Abstract!None
           /\ ~InCall(p)' => CallOf(p)' = Abstract!None
           /\ (\A j \in Port : /\ porttab'[j].ptstate = porttab[j].ptstate
                               /\ porttab'[j].ptseq = porttab[j].ptseq)
              => /\ OpenPorts' = OpenPorts
                 /\ OvertakenCalls' \ {p} = OvertakenCalls \ {p}
<1>1. \A q \in Proc : q # p => CallOf(q)' = CallOf(q)
  BY DEF CallOf, InCall
<1>2. CallsMade' = [CallsMade EXCEPT ![p] = CallOf(p)']
  BY <1>1 DEF CallsMade
<1>3. ASSUME \A j \in Port : /\ porttab'[j].ptstate = porttab[j].ptstate
                             /\ porttab'[j].ptseq = porttab[j].ptseq
      PROVE  /\ OpenPorts' = OpenPorts
             /\ OvertakenCalls' \ {p} = OvertakenCalls \ {p}
  <2>1. OpenPorts' = OpenPorts
    BY <1>3 DEF OpenPorts
  <2>2. ASSUME NEW q \in Proc, q # p
        PROVE  (InCall(q) /\ Outdated(q))' <=> InCall(q) /\ Outdated(q)
    <3>1. ptcall'[q] = ptcall[q] /\ (InCall(q)' <=> InCall(q))
      BY <2>2 DEF InCall
    <3>2. InCall(q) => ptcall[q].port \in Port
      BY PortCallKinds
    <3> QED BY <1>3, <3>1, <3>2 DEF Outdated
  <2> QED BY <2>1, <2>2 DEF OvertakenCalls
<1> QED BY <1>2, <1>3 DEF CallsMade, CallOf, Abstract!None

\* A sender that has a place puts its message, or the system has run out of
\* nodes and stops.
LEMMA DepositPuts ==
    ASSUME PortInv, PortInv', NEW p \in Proc, NEW i \in Port, NEW msg \in Msgs, NEW w,
           porttab[i].ptstate = "PT_ALLOC",
           Len(porttab[i].msgs) < porttab[i].ptmaxcnt,
           p \notin OvertakenCalls,
           CallOf(p) \in {Abstract!None, [op |-> "send", chan |-> i, msg |-> msg]},
           Deposit(p, i, [porttab[i] EXCEPT !.ssem = w], msg), received' = received
    PROVE  Abstract!Put(p, i, msg) \/ UNCHANGED Abstract!cvars
<1>1. porttab[i] \in PortEntry /\ porttab \in [Port -> PortEntry] /\ ptcall \in [Proc -> PortCalls]
  BY DEF PortInv
<1>2. i \in OpenPorts
  BY DEF OpenPorts
<1>3. MessagesHeld[i] = porttab[i].msgs /\ Places[i] = porttab[i].ptmaxcnt
  BY DEF MessagesHeld, Places
<1>4. CASE /\ ptfree = 0
           /\ porttab' = [porttab EXCEPT ![i] = [porttab[i] EXCEPT !.ssem = w]]
           /\ ptcall' = ptcall
  <2>1. \A j \in Port : /\ porttab'[j].ptstate = porttab[j].ptstate
                        /\ porttab'[j].ptseq = porttab[j].ptseq
                        /\ porttab'[j].msgs = porttab[j].msgs
                        /\ porttab'[j].ptmaxcnt = porttab[j].ptmaxcnt
    BY <1>1, <1>4 DEF PortEntry
  <2>2. MessagesHeld' = MessagesHeld /\ Places' = Places /\ OpenPorts' = OpenPorts
    BY <2>1 DEF MessagesHeld, Places, OpenPorts
  <2>3. CallsMade' = CallsMade
    BY <1>4 DEF CallsMade, CallOf, InCall
  <2>4. OvertakenCalls' = OvertakenCalls
    <3>1. \A q \in Proc : InCall(q) => ptcall[q].port \in Port
      BY PortCallKinds
    <3> QED BY <1>4, <2>1, <3>1 DEF OvertakenCalls, InCall, Outdated
  <2> QED BY <2>2, <2>3, <2>4 DEF Abstract!cvars
<1>5. CASE /\ porttab' = [porttab EXCEPT ![i] =
                            [[porttab[i] EXCEPT !.ssem = w] EXCEPT !.msgs = Append(@, msg),
                                                                   !.rsem = SemSignal(@)]]
           /\ ptcall' = [ptcall EXCEPT ![p] = Idle]
  <2>1. /\ \A j \in Port : /\ porttab'[j].ptstate = porttab[j].ptstate
                           /\ porttab'[j].ptseq = porttab[j].ptseq
                           /\ porttab'[j].ptmaxcnt = porttab[j].ptmaxcnt
                           /\ j # i => porttab'[j].msgs = porttab[j].msgs
        /\ porttab'[i].msgs = Append(porttab[i].msgs, msg)
    BY <1>1, <1>5 DEF PortEntry
  <2>2. (\A q \in Proc : q # p => ptcall'[q] = ptcall[q]) /\ ~InCall(p)'
    BY <1>1, <1>5 DEF InCall, Idle
  <2>3. /\ MessagesHeld' = [MessagesHeld EXCEPT ![i] = Append(@, msg)]
        /\ Places' = Places
    BY <2>1 DEF MessagesHeld, Places
  <2>4. /\ CallsMade' = [CallsMade EXCEPT ![p] = Abstract!None]
        /\ CallsMade[p] = CallOf(p)
        /\ OpenPorts' = OpenPorts
        /\ OvertakenCalls' \ {p} = OvertakenCalls \ {p}
    BY <2>1, <2>2, CallsStep
  <2>5. OvertakenCalls' = OvertakenCalls
    BY <2>2, <2>4 DEF OvertakenCalls
  <2> QED BY <1>2, <1>3, <2>3, <2>4, <2>5 DEF Abstract!Put, Abstract!May
<1> QED BY <1>4, <1>5 DEF Deposit

\* A receiver that has a message takes the oldest.
LEMMA TakeGets ==
    ASSUME PortInv, PortInv', NEW p \in Proc, NEW i \in Port, NEW w,
           porttab[i].ptstate = "PT_ALLOC",
           porttab[i].msgs # <<>>,
           p \notin OvertakenCalls,
           CallOf(p) \in {Abstract!None, [op |-> "recv", chan |-> i, msg |-> NoMsg]},
           Take(p, i, [porttab[i] EXCEPT !.rsem = w])
    PROVE  Abstract!Get(p, i)
<1>1. porttab[i] \in PortEntry /\ porttab \in [Port -> PortEntry] /\ ptcall \in [Proc -> PortCalls]
  BY DEF PortInv
<1>2. i \in OpenPorts
  BY DEF OpenPorts
<1>3. MessagesHeld[i] = porttab[i].msgs
  BY DEF MessagesHeld
<1>4. /\ porttab' = [porttab EXCEPT ![i] =
                       [[porttab[i] EXCEPT !.rsem = w] EXCEPT !.msgs = Tail(@),
                                                              !.ssem = SemSignal(@)]]
      /\ ptcall' = [ptcall EXCEPT ![p] = Idle]
  BY DEF Take
<1>5. received' = [received EXCEPT ![p] = Head(porttab[i].msgs)]
  BY <1>1 DEF Take, PortEntry
<1>6. /\ \A j \in Port : /\ porttab'[j].ptstate = porttab[j].ptstate
                         /\ porttab'[j].ptseq = porttab[j].ptseq
                         /\ porttab'[j].ptmaxcnt = porttab[j].ptmaxcnt
                         /\ j # i => porttab'[j].msgs = porttab[j].msgs
      /\ porttab'[i].msgs = Tail(porttab[i].msgs)
  BY <1>1, <1>4 DEF PortEntry
<1>7. (\A q \in Proc : q # p => ptcall'[q] = ptcall[q]) /\ ~InCall(p)'
  BY <1>1, <1>4 DEF InCall, Idle
<1>8. /\ MessagesHeld' = [MessagesHeld EXCEPT ![i] = Tail(@)]
      /\ Places' = Places
  BY <1>6 DEF MessagesHeld, Places
<1>9. /\ CallsMade' = [CallsMade EXCEPT ![p] = Abstract!None]
      /\ CallsMade[p] = CallOf(p)
      /\ OpenPorts' = OpenPorts
      /\ OvertakenCalls' \ {p} = OvertakenCalls \ {p}
  BY <1>6, <1>7, CallsStep
<1>10. OvertakenCalls' = OvertakenCalls
  BY <1>7, <1>9 DEF OvertakenCalls
<1> QED BY <1>2, <1>3, <1>5, <1>8, <1>9, <1>10 DEF Abstract!Get, Abstract!May

\* A call that has to wait.
LEMMA WaitBegins ==
    ASSUME PortInv, PortInv', NEW p \in Proc, NEW i \in Port,
           NEW op \in {"send", "recv"}, NEW m, NEW pt,
           porttab[i].ptstate = "PT_ALLOC", ptcall[p] = Idle,
           pt.ptstate = porttab[i].ptstate, pt.ptseq = porttab[i].ptseq,
           pt.ptmaxcnt = porttab[i].ptmaxcnt, pt.msgs = porttab[i].msgs,
           porttab' = [porttab EXCEPT ![i] = pt],
           ptcall' = [ptcall EXCEPT ![p] = Call(op, i, pt.ptseq, m)],
           received' = received
    PROVE  Abstract!Begin(p, op, i, m)
<1>1. porttab \in [Port -> PortEntry] /\ ptcall \in [Proc -> PortCalls]
  BY DEF PortInv
<1>2. \A j \in Port : /\ porttab'[j].ptstate = porttab[j].ptstate
                      /\ porttab'[j].ptseq = porttab[j].ptseq
                      /\ porttab'[j].ptmaxcnt = porttab[j].ptmaxcnt
                      /\ porttab'[j].msgs = porttab[j].msgs
  BY <1>1
<1>3. /\ \A q \in Proc : q # p => ptcall'[q] = ptcall[q]
      /\ ptcall'[p] = Call(op, i, porttab[i].ptseq, m)
      /\ ~InCall(p) /\ InCall(p)'
  BY <1>1 DEF InCall, Idle, Call
<1>4. CallOf(p) = Abstract!None /\ CallOf(p)' = [op |-> op, chan |-> i, msg |-> m]
  BY <1>3 DEF CallOf, Call, Abstract!None
<1>5. MessagesHeld' = MessagesHeld /\ Places' = Places
  BY <1>2 DEF MessagesHeld, Places
<1>6. /\ CallsMade' = [CallsMade EXCEPT ![p] = CallOf(p)']
      /\ CallsMade[p] = CallOf(p)
      /\ OpenPorts' = OpenPorts
      /\ OvertakenCalls' \ {p} = OvertakenCalls \ {p}
  BY <1>2, <1>3, CallsStep
<1>7. ~Outdated(p)'
  BY <1>2, <1>3 DEF Outdated, Call
<1>8. OvertakenCalls' = OvertakenCalls
  BY <1>3, <1>6, <1>7 DEF OvertakenCalls
<1>9. i \in OpenPorts
  BY DEF OpenPorts
<1> QED BY <1>4, <1>5, <1>6, <1>8, <1>9 DEF Abstract!Begin

\* ptsend.
LEMMA PtsendRefines ==
    ASSUME PortInv, PortInv', NEW p \in Proc, NEW i \in Port, NEW msg \in Msgs,
           Ptsend(p, i, msg)
    PROVE  \/ Abstract!Begin(p, "send", i, msg) \/ Abstract!Put(p, i, msg)
           \/ UNCHANGED Abstract!cvars
<1> DEFINE w == SemWait(porttab[i].ssem, p)
           pt == [porttab[i] EXCEPT !.ssem = w]
<1>1. /\ ptcall[p] = Idle /\ porttab[i].ptstate = "PT_ALLOC"
      /\ \/ /\ p \in InLine(pt.ssem)
            /\ porttab' = [porttab EXCEPT ![i] = pt]
            /\ ptcall'  = [ptcall EXCEPT ![p] = Call("send", i, pt.ptseq, msg)]
         \/ /\ p \notin InLine(pt.ssem)
            /\ Deposit(p, i, pt, msg)
      /\ received' = received
  BY DEF Ptsend, PortCall
<1>2. /\ porttab[i] \in PortEntry
      /\ SemOK(porttab[i].ssem, Proc)
      /\ Len(porttab[i].msgs) + Units(porttab[i].ssem) + Cardinality(Coming("send", i))
             <= porttab[i].ptmaxcnt
      /\ Len(porttab[i].msgs) \in Nat /\ porttab[i].ptmaxcnt \in Nat
      /\ Cardinality(Coming("send", i)) \in Nat
      /\ porttab[i].ssem.count \in Int
  BY <1>1, AllocFacts DEF SemOK
<1>3. InLine(w) = IF porttab[i].ssem.count <= 0 THEN InLine(porttab[i].ssem) \cup {p} ELSE {}
  BY <1>1, <1>2, AllocFacts, SemWaitOK
<1> HIDE DEF w
<1>4. /\ pt.ptstate = porttab[i].ptstate /\ pt.ptseq = porttab[i].ptseq
      /\ pt.ptmaxcnt = porttab[i].ptmaxcnt /\ pt.msgs = porttab[i].msgs /\ pt.ssem = w
  BY <1>2 DEF PortEntry
<1>5. CASE p \in InLine(pt.ssem)
  <2>1. /\ porttab' = [porttab EXCEPT ![i] = pt]
        /\ ptcall'  = [ptcall EXCEPT ![p] = Call("send", i, pt.ptseq, msg)]
    BY <1>1, <1>5
  <2> HIDE DEF pt
  <2> QED BY <1>1, <1>4, <2>1, WaitBegins
<1>6. CASE p \notin InLine(pt.ssem)
  <2>1. porttab[i].ssem.count > 0
    BY <1>2, <1>3, <1>4, <1>6
  <2>2. Len(porttab[i].msgs) < porttab[i].ptmaxcnt
    BY <1>2, <2>1 DEF Units
  <2>3. ~InCall(p)
    BY <1>1 DEF InCall, Idle
  <2>4. p \notin OvertakenCalls /\ CallOf(p) = Abstract!None
    BY <2>3 DEF OvertakenCalls, CallOf, Abstract!None
  <2>5. Deposit(p, i, [porttab[i] EXCEPT !.ssem = w], msg)
    BY <1>1, <1>6
  <2> QED BY <1>1, <2>2, <2>4, <2>5, DepositPuts
<1> QED BY <1>5, <1>6

\* ptrecv.
LEMMA PtrecvRefines ==
    ASSUME PortInv, PortInv', NEW p \in Proc, NEW i \in Port, Ptrecv(p, i)
    PROVE  Abstract!Begin(p, "recv", i, NoMsg) \/ Abstract!Get(p, i)
<1> DEFINE w == SemWait(porttab[i].rsem, p)
           pt == [porttab[i] EXCEPT !.rsem = w]
<1>1. /\ ptcall[p] = Idle /\ porttab[i].ptstate = "PT_ALLOC"
      /\ \/ /\ p \in InLine(pt.rsem)
            /\ porttab' = [porttab EXCEPT ![i] = pt]
            /\ ptcall'  = [ptcall EXCEPT ![p] = Call("recv", i, pt.ptseq, NoMsg)]
            /\ received' = received
         \/ /\ p \notin InLine(pt.rsem)
            /\ Take(p, i, pt)
  BY DEF Ptrecv, PortCall
<1>2. /\ porttab[i] \in PortEntry
      /\ SemOK(porttab[i].rsem, Proc)
      /\ Units(porttab[i].rsem) + Cardinality(Coming("recv", i)) <= Len(porttab[i].msgs)
      /\ Cardinality(Coming("recv", i)) \in Nat
      /\ porttab[i].rsem.count \in Int
  BY <1>1, AllocFacts DEF SemOK
<1>3. InLine(w) = IF porttab[i].rsem.count <= 0 THEN InLine(porttab[i].rsem) \cup {p} ELSE {}
  BY <1>1, <1>2, AllocFacts, SemWaitOK
<1> HIDE DEF w
<1>4. /\ pt.ptstate = porttab[i].ptstate /\ pt.ptseq = porttab[i].ptseq
      /\ pt.ptmaxcnt = porttab[i].ptmaxcnt /\ pt.msgs = porttab[i].msgs /\ pt.rsem = w
  BY <1>2 DEF PortEntry
<1>5. CASE p \in InLine(pt.rsem)
  <2>1. /\ porttab' = [porttab EXCEPT ![i] = pt]
        /\ ptcall'  = [ptcall EXCEPT ![p] = Call("recv", i, pt.ptseq, NoMsg)]
        /\ received' = received
    BY <1>1, <1>5
  <2> HIDE DEF pt
  <2> QED BY <1>1, <1>4, <2>1, WaitBegins
<1>6. CASE p \notin InLine(pt.rsem)
  <2>1. porttab[i].rsem.count > 0
    BY <1>2, <1>3, <1>4, <1>6
  <2>2. Len(porttab[i].msgs) # 0
    BY <1>2, <2>1 DEF Units
  <2>3. ~InCall(p)
    BY <1>1 DEF InCall, Idle
  <2>4. p \notin OvertakenCalls /\ CallOf(p) = Abstract!None
    BY <2>3 DEF OvertakenCalls, CallOf, Abstract!None
  <2>5. Take(p, i, [porttab[i] EXCEPT !.rsem = w])
    BY <1>1, <1>6
  <2>6. porttab[i].msgs # <<>>
    BY <2>2
  <2> QED BY <1>1, <2>4, <2>5, <2>6, TakeGets
<1> QED BY <1>5, <1>6

\* The end of a wait, with the call failed or with what it was for.
LEMMA EndsRefine ==
    ASSUME PortInv, PortInv', NEW p \in Proc, PtsendEnd(p) \/ PtrecvEnd(p)
    PROVE  \/ Abstract!GiveUp(p) \/ UNCHANGED Abstract!cvars
           \/ \E i \in Port : \/ \E msg \in Msgs : Abstract!Put(p, i, msg)
                              \/ Abstract!Get(p, i)
<1>1. InCall(p) /\ Released(p)
  BY DEF PtsendEnd, PtrecvEnd, Released
<1>2. PICK i \in Port : i = ptcall[p].port
  BY <1>1, PortCallKinds
<1>3. porttab[i] \in PortEntry /\ ptcall \in [Proc -> PortCalls]
  BY DEF PortInv
<1>4. CASE ptcall' = [ptcall EXCEPT ![p] = Idle] /\ porttab' = porttab /\ received' = received
  <2>1. (\A q \in Proc : q # p => ptcall'[q] = ptcall[q]) /\ ~InCall(p)'
    BY <1>3, <1>4 DEF InCall, Idle
  <2>2. /\ CallsMade' = [CallsMade EXCEPT ![p] = Abstract!None]
        /\ CallsMade[p] = CallOf(p)
        /\ OpenPorts' = OpenPorts
        /\ OvertakenCalls' \ {p} = OvertakenCalls \ {p}
    BY <1>4, <2>1, CallsStep
  <2>3. MessagesHeld' = MessagesHeld /\ Places' = Places
    BY <1>4 DEF MessagesHeld, Places
  <2>4. OvertakenCalls' = OvertakenCalls \ {p}
    BY <2>1, <2>2 DEF OvertakenCalls
  <2>5. CallOf(p) # Abstract!None
    BY <1>1 DEF CallOf, InCall, Abstract!None
  <2> QED BY <1>4, <2>2, <2>3, <2>4, <2>5 DEF Abstract!GiveUp
<1>5. ASSUME NEW o \in {"send", "recv"}, ptcall[p].op = o, ~Outdated(p)
      PROVE  /\ porttab[i].ptstate = "PT_ALLOC" /\ p \notin OvertakenCalls
             /\ Cardinality(Coming(o, i)) >= 1
  <2>1. p \in Coming(o, i)
    BY <1>1, <1>2, <1>5 DEF Coming
  <2>2. Coming(o, i) \subseteq Proc /\ Coming(o, i) \ {p} \subseteq Proc
    BY DEF Coming
  <2>3. /\ Cardinality(Coming(o, i)) \in Nat /\ Cardinality(Coming(o, i) \ {p}) \in Nat
        /\ Cardinality(Coming(o, i) \ {p}) <= Cardinality(Coming(o, i)) - 1
    BY <2>1, <2>2, ComingCard
  <2> QED BY <1>2, <1>5, <2>3 DEF Outdated, OvertakenCalls
<1>6. CASE /\ ptcall[p].op = "send" /\ ~Outdated(p)
           /\ Deposit(p, i, porttab[i], ptcall[p].msg)
           /\ received' = received
  <2>1. /\ porttab[i].ptstate = "PT_ALLOC" /\ p \notin OvertakenCalls
        /\ Cardinality(Coming("send", i)) >= 1
    BY <1>5, <1>6
  <2>2. PICK msg \in Msgs : msg = ptcall[p].msg
    BY <1>1, <1>6, PortCallKinds
  <2>3. /\ Len(porttab[i].msgs) + Units(porttab[i].ssem) + Cardinality(Coming("send", i))
               <= porttab[i].ptmaxcnt
        /\ Units(porttab[i].ssem) \in Nat /\ Len(porttab[i].msgs) \in Nat
        /\ porttab[i].ptmaxcnt \in Nat /\ Cardinality(Coming("send", i)) \in Nat
    BY <2>1, AllocFacts
  <2>4. Len(porttab[i].msgs) < porttab[i].ptmaxcnt
    BY <2>1, <2>3
  <2>5. PICK w : w = porttab[i].ssem
    OBVIOUS
  <2>6. porttab[i] = [porttab[i] EXCEPT !.ssem = w]
    BY <1>3, <2>5 DEF PortEntry
  <2>7. Deposit(p, i, [porttab[i] EXCEPT !.ssem = w], msg)
    BY <1>6, <2>2, <2>6
  <2>8. CallOf(p) = [op |-> "send", chan |-> i, msg |-> msg]
    BY <1>1, <1>2, <1>6, <2>2 DEF CallOf
  <2>9. Abstract!Put(p, i, msg) \/ UNCHANGED Abstract!cvars
    BY <1>6, <2>1, <2>4, <2>7, <2>8, DepositPuts
  <2> QED BY <2>9
<1>7. CASE /\ ptcall[p].op = "recv" /\ ~Outdated(p)
           /\ Take(p, i, porttab[i])
  <2>1. /\ porttab[i].ptstate = "PT_ALLOC" /\ p \notin OvertakenCalls
        /\ Cardinality(Coming("recv", i)) >= 1
    BY <1>5, <1>7
  <2>2. ptcall[p].msg = NoMsg
    <3>1. ptcall[p] \in PortCalls
      BY <1>3
    <3> QED BY <1>7, <3>1 DEF PortCalls, Gone, Idle
  <2>3. /\ Units(porttab[i].rsem) + Cardinality(Coming("recv", i)) <= Len(porttab[i].msgs)
        /\ Units(porttab[i].rsem) \in Nat /\ Len(porttab[i].msgs) \in Nat
        /\ Cardinality(Coming("recv", i)) \in Nat
    BY <2>1, AllocFacts
  <2>4. Len(porttab[i].msgs) # 0
    BY <2>1, <2>3
  <2>5. PICK w : w = porttab[i].rsem
    OBVIOUS
  <2>6. porttab[i] = [porttab[i] EXCEPT !.rsem = w]
    BY <1>3, <2>5 DEF PortEntry
  <2>7. Take(p, i, [porttab[i] EXCEPT !.rsem = w])
    BY <1>7, <2>6
  <2>8. CallOf(p) = [op |-> "recv", chan |-> i, msg |-> NoMsg]
    BY <1>1, <1>2, <1>7, <2>2 DEF CallOf
  <2>9. porttab[i].msgs # <<>>
    BY <2>4
  <2>10. Abstract!Get(p, i)
    BY <2>1, <2>7, <2>8, <2>9, TakeGets
  <2> QED BY <2>10
<1>8. CASE PtsendEnd(p)
  BY <1>2, <1>4, <1>6, <1>8 DEF PtsendEnd
<1>9. CASE PtrecvEnd(p)
  BY <1>2, <1>4, <1>7, <1>9 DEF PtrecvEnd
<1> QED BY <1>8, <1>9

\* A port that is opened: calls of its earlier lives stay overtaken.
LEMMA OpensWhenNew ==
    ASSUME PortInv, PortInv', NEW p \in Proc, NEW i \in Port,
           \A q \in Proc : q # p => ptcall'[q] = ptcall[q],
           ~InCall(p), ~InCall(p)',
           \A j \in Port : j # i => porttab'[j] = porttab[j],
           porttab[i].ptstate # "PT_ALLOC", porttab'[i].ptstate = "PT_ALLOC",
           porttab'[i].msgs = <<>>,
           \A q \in Proc : InCall(q) /\ ptcall[q].port = i => ptcall[q].seq # porttab'[i].ptseq,
           received' = received
    PROVE  Abstract!Open(i)
<1>1. \A q \in Proc : /\ InCall(q)' <=> InCall(q)
                      /\ InCall(q) => ptcall'[q] = ptcall[q] /\ ptcall[q].port \in Port
  BY PortCallKinds DEF InCall
<1>2. CallsMade' = CallsMade
  BY <1>1 DEF CallsMade, CallOf
<1>3. OvertakenCalls' = OvertakenCalls
  <2>1. ASSUME NEW q \in Proc, InCall(q) PROVE Outdated(q)' <=> Outdated(q)
    <3>1. CASE ptcall[q].port = i
      BY <1>1, <2>1, <3>1 DEF Outdated
    <3>2. CASE ptcall[q].port # i
      BY <1>1, <2>1, <3>2 DEF Outdated
    <3> QED BY <3>1, <3>2
  <2> QED BY <1>1, <2>1 DEF OvertakenCalls
<1>4. i \notin OpenPorts /\ OpenPorts' = OpenPorts \cup {i}
  BY DEF OpenPorts
<1>5. MessagesHeld[i] = <<>> /\ MessagesHeld' = MessagesHeld
  BY DEF MessagesHeld
<1>6. porttab'[i] \in PortEntry
  BY DEF PortInv
<1>7. Places'[i] \in Nat /\ Places' = [Places EXCEPT ![i] = Places'[i]]
  BY <1>6 DEF Places, PortEntry
<1> QED BY <1>2, <1>3, <1>4, <1>5, <1>7 DEF Abstract!Open

\* A step that a channel does not see: only ports that are not allocated, and
\* what a process that clears does, and the lines of semaphores.
LEMMA NotSeen ==
    ASSUME PortInv, PortInv',
           \A q \in Proc : \/ ptcall'[q] = ptcall[q]
                           \/ ~InCall(q) /\ ~InCall(q)',
           \A j \in Port :
               /\ porttab'[j].ptseq = porttab[j].ptseq
               /\ porttab'[j].ptmaxcnt = porttab[j].ptmaxcnt
               /\ porttab'[j].ptstate = "PT_ALLOC" <=> porttab[j].ptstate = "PT_ALLOC"
               /\ porttab[j].ptstate = "PT_ALLOC" => porttab'[j].msgs = porttab[j].msgs,
           received' = received
    PROVE  UNCHANGED Abstract!cvars
<1>1. \A q \in Proc : /\ InCall(q)' <=> InCall(q)
                      /\ InCall(q) => ptcall'[q] = ptcall[q] /\ ptcall[q].port \in Port
  BY PortCallKinds DEF InCall
<1>2. CallsMade' = CallsMade
  BY <1>1 DEF CallsMade, CallOf
<1>3. OvertakenCalls' = OvertakenCalls
  BY <1>1 DEF OvertakenCalls, Outdated
<1>4. OpenPorts' = OpenPorts /\ Places' = Places /\ MessagesHeld' = MessagesHeld
  BY DEF OpenPorts, Places, MessagesHeld
<1> QED BY <1>2, <1>3, <1>4 DEF Abstract!cvars

\* ptcreate opens a port.
LEMMA PtcreateRefines ==
    ASSUME PortInv, PortInv', NEW p \in Proc, NEW count \in MaxCounts, Ptcreate(p, count)
    PROVE  \E i \in Port : Abstract!Open(i)
<1>1. PICK i : i = (ptnextid + Min(FreePorts)) % NPORTS
  OBVIOUS
<1>2. /\ ptcall[p] = Idle /\ FreePorts # {}
      /\ porttab'  = [porttab EXCEPT ![i] = Created(@, count)]
      /\ ptcall' = ptcall /\ received' = received
  BY <1>1 DEF Ptcreate, PortCall
<1>3. Min(FreePorts) \in FreePorts
  <2>1. FreePorts \subseteq Nat
    BY PortsAssumption DEF FreePorts
  <2> QED BY <1>2, <2>1, MinNat
<1>4. i \in Port /\ porttab[i].ptstate = "PT_FREE"
  <2>1. PICK k : k = Min(FreePorts)
    OBVIOUS
  <2>2. k \in Nat /\ porttab[(ptnextid + k) % NPORTS].ptstate = "PT_FREE"
    BY <1>3, <2>1, PortsAssumption DEF FreePorts
  <2>3. ptnextid \in Nat /\ NPORTS \in Nat \ {0}
    BY PortsAssumption DEF PortInv, Port
  <2>4. i \in 0 .. NPORTS-1
    BY <1>1, <2>1, <2>2, <2>3
  <2> QED BY <1>1, <2>1, <2>2, <2>4 DEF Port
<1>5. /\ porttab \in [Port -> PortEntry] /\ PortOK(i) /\ porttab[i].ptseq \in Nat
  BY <1>4 DEF PortInv, PortEntry
<1>6. /\ porttab'[i].ptstate = "PT_ALLOC" /\ porttab'[i].ptseq = porttab[i].ptseq + 1
      /\ porttab'[i].msgs = <<>>
      /\ \A j \in Port : j # i => porttab'[j] = porttab[j]
  BY <1>2, <1>4, <1>5 DEF Created
<1>7. ASSUME NEW q \in Proc, InCall(q), ptcall[q].port = i
      PROVE  ptcall[q].seq # porttab'[i].ptseq
  <2>1. ptcall[q].seq <= porttab[i].ptseq /\ ptcall[q].seq \in Nat
    BY <1>5, <1>7, PortCallKinds DEF PortOK, SeqsOK
  <2> QED BY <1>5, <1>6, <2>1
<1>8. ~InCall(p) /\ ~InCall(p)'
  BY <1>2 DEF InCall, Idle
<1>9. Abstract!Open(i)
  BY <1>2, <1>4, <1>6, <1>7, <1>8, OpensWhenNew
<1> QED BY <1>4, <1>9

\* ptreset and ptdelete close the port before they go on.
LEMMA PtclearRefines ==
    ASSUME PortInv, PortInv', NEW p \in Proc, NEW i \in Port, NEW ns, Ptclear(p, i, ns)
    PROVE  Abstract!Close(i)
<1>1. /\ ptcall[p] = Idle /\ porttab[i].ptstate = "PT_ALLOC"
      /\ porttab' = [porttab EXCEPT ![i] = Limbo(@)]
      /\ ptcall' = [ptcall EXCEPT ![p] = Clear("dispose", i, ns)]
      /\ received' = received
  BY DEF Ptclear, PortCall
<1>2. /\ porttab \in [Port -> PortEntry] /\ porttab[i] \in PortEntry /\ PortOK(i)
      /\ porttab[i].ptseq \in Nat /\ ptcall \in [Proc -> PortCalls]
  BY DEF PortInv, PortEntry
<1>3. /\ porttab'[i].ptstate = "PT_LIMBO" /\ porttab'[i].ptseq = porttab[i].ptseq + 1
      /\ porttab'[i].ptmaxcnt = porttab[i].ptmaxcnt
      /\ \A j \in Port : j # i => porttab'[j] = porttab[j]
  BY <1>1, <1>2 DEF Limbo, PortEntry
<1>4. /\ ~InCall(p) /\ ~InCall(p)'
      /\ \A q \in Proc : q # p => ptcall'[q] = ptcall[q]
  BY <1>1, <1>2 DEF InCall, Idle, Clear
<1>5. \A q \in Proc : /\ InCall(q)' <=> InCall(q)
                      /\ InCall(q) => ptcall'[q] = ptcall[q] /\ ptcall[q].port \in Port
  BY <1>4, PortCallKinds DEF InCall
<1>6. CallsMade' = CallsMade
  BY <1>5 DEF CallsMade, CallOf
<1>7. \A q \in Proc : /\ CallsMade[q] # Abstract!None <=> InCall(q)
                      /\ InCall(q) => CallsMade[q].chan = ptcall[q].port
  BY DEF CallsMade, CallOf, InCall, Abstract!None
<1>8. OvertakenCalls' = OvertakenCalls \cup {q \in Proc : InCall(q) /\ ptcall[q].port = i}
  <2>1. ASSUME NEW q \in Proc, InCall(q)
        PROVE  Outdated(q)' <=> Outdated(q) \/ ptcall[q].port = i
    BY <1>3, <1>5, <2>1 DEF Outdated
  <2> QED BY <1>5, <2>1 DEF OvertakenCalls
<1>9. OvertakenCalls' = OvertakenCalls
                        \cup {q \in Proc : CallsMade[q] # Abstract!None /\ CallsMade[q].chan = i}
  BY <1>7, <1>8
<1>10. i \in OpenPorts /\ OpenPorts' = OpenPorts \ {i}
  BY <1>1, <1>3 DEF OpenPorts
<1>11. Places' = Places /\ MessagesHeld' = [MessagesHeld EXCEPT ![i] = <<>>]
  BY <1>3 DEF Places, MessagesHeld
<1> QED BY <1>1, <1>6, <1>9, <1>10, <1>11 DEF Abstract!Close

\* Nobody sees that a port in limbo is emptied; a reset ends with an opening.
LEMMA ClearersRefine ==
    ASSUME PortInv, PortInv', NEW p \in Proc,
           PtclearSenders(p) \/ PtclearReceivers(p) \/ PtclearEnd(p)
    PROVE  UNCHANGED Abstract!cvars \/ \E i \in Port : Abstract!Open(i)
<1>1. Clearing(p) /\ received' = received
  BY DEF PtclearSenders, PtclearReceivers, PtclearEnd, Clearing
<1>2. PICK i \in Port : i = ptcall[p].port
  BY <1>1, PortCallKinds
<1>3. /\ porttab \in [Port -> PortEntry] /\ porttab[i] \in PortEntry /\ PortOK(i)
      /\ ptcall \in [Proc -> PortCalls]
      /\ porttab[i].ptstate = "PT_LIMBO" /\ Clears(p, i)
  BY <1>1, <1>2 DEF PortInv, PortOK, ClearOK, Clears
<1>4. (\A q \in Proc : q # p => ptcall'[q] = ptcall[q]) /\ ~InCall(p)
  BY <1>1, <1>3 DEF PtclearSenders, PtclearReceivers, PtclearEnd, InCall, Clearing
<1>5. ~InCall(p)'
  <2>1. PtclearEnd(p) => ptcall'[p] = Idle
    BY <1>3 DEF PtclearEnd
  <2>2. PtclearSenders(p) => ptcall'[p] = [ptcall[p] EXCEPT !.op = "semreset1"]
    BY <1>3 DEF PtclearSenders
  <2>3. PtclearReceivers(p) => ptcall'[p] = [ptcall[p] EXCEPT !.op = "semreset2"]
    BY <1>3 DEF PtclearReceivers
  <2>4. ptcall[p] \in PortCalls
    BY <1>3
  <2>5. ptcall[p] = [op |-> ptcall[p].op, port |-> i, newstate |-> ptcall[p].newstate]
    BY <1>1, <1>2, <2>4 DEF PortCalls, Gone, Idle, Clearing
  <2>6. PtclearSenders(p) => ptcall'[p].op = "semreset1"
    BY <2>2, <2>5
  <2>7. PtclearReceivers(p) => ptcall'[p].op = "semreset2"
    BY <2>3, <2>5
  <2> QED BY <2>1, <2>6, <2>7 DEF InCall, Idle
<1>6. CASE PtclearSenders(p) \/ PtclearReceivers(p)
  <2>1. /\ \A j \in Port : j # i => porttab'[j] = porttab[j]
        /\ porttab'[i].ptstate = porttab[i].ptstate
        /\ porttab'[i].ptseq = porttab[i].ptseq
        /\ porttab'[i].ptmaxcnt = porttab[i].ptmaxcnt
    BY <1>2, <1>3, <1>6 DEF PtclearSenders, PtclearReceivers, Emptied, PortEntry
  <2> QED BY <1>1, <1>3, <1>4, <1>5, <2>1, NotSeen
<1>7. CASE PtclearEnd(p)
  <2>1. porttab' = [porttab EXCEPT ![i].ptstate = ptcall[p].newstate]
    BY <1>2, <1>7 DEF PtclearEnd
  <2>2. /\ \A j \in Port : j # i => porttab'[j] = porttab[j]
        /\ porttab'[i].ptstate = ptcall[p].newstate
        /\ porttab'[i].ptseq = porttab[i].ptseq
        /\ porttab'[i].ptmaxcnt = porttab[i].ptmaxcnt
        /\ porttab'[i].msgs = porttab[i].msgs
    BY <1>3, <2>1 DEF PortEntry
  <2>3. CASE ptcall[p].newstate = "PT_ALLOC"
    <3>1. porttab[i].msgs = <<>>
      BY <1>3, <1>7, <2>3 DEF PortOK, ClearOK, PtclearEnd
    <3>2. \A q \in Proc : InCall(q) /\ ptcall[q].port = i => ptcall[q].seq # porttab'[i].ptseq
      BY <1>3, <2>2 DEF PortOK, SeqsOK
    <3>3. Abstract!Open(i)
      BY <1>1, <1>3, <1>4, <1>5, <2>2, <2>3, <3>1, <3>2, OpensWhenNew
    <3> QED BY <3>3
  <2>4. CASE ptcall[p].newstate # "PT_ALLOC"
    BY <1>1, <1>3, <1>4, <1>5, <2>2, <2>4, NotSeen
  <2> QED BY <2>3, <2>4
<1> QED BY <1>6, <1>7

\* A process that is killed in a call gives up; one that clears is not seen.
LEMMA PortKillRefines ==
    ASSUME PortInv, PortInv', NEW p \in Proc, PortKill(p)
    PROVE  UNCHANGED Abstract!cvars \/ Abstract!GiveUp(p)
<1>1. (InCall(p) \/ Clearing(p)) /\ received' = received
  BY PortsAssumption, PortCallKinds DEF PortKill, InCall, Clearing
<1>2. PICK i \in Port : i = ptcall[p].port
  BY <1>1, PortCallKinds
<1>3. /\ porttab \in [Port -> PortEntry] /\ porttab[i] \in PortEntry
      /\ ptcall \in [Proc -> PortCalls]
  BY DEF PortInv
<1>4. /\ porttab' = [porttab EXCEPT ![i].ssem = SemKill(@, p), ![i].rsem = SemKill(@, p)]
      /\ ptcall' = [ptcall EXCEPT ![p] = Gone]
  BY <1>2 DEF PortKill
<1>5. (\A q \in Proc : q # p => ptcall'[q] = ptcall[q]) /\ ~InCall(p)'
  BY <1>3, <1>4 DEF InCall, Gone
<1>6. \A j \in Port : /\ porttab'[j].ptstate = porttab[j].ptstate
                      /\ porttab'[j].ptseq = porttab[j].ptseq
                      /\ porttab'[j].ptmaxcnt = porttab[j].ptmaxcnt
                      /\ porttab'[j].msgs = porttab[j].msgs
  <2>1. /\ porttab'[i].ptstate = porttab[i].ptstate
        /\ porttab'[i].ptseq = porttab[i].ptseq
        /\ porttab'[i].ptmaxcnt = porttab[i].ptmaxcnt
        /\ porttab'[i].msgs = porttab[i].msgs
    BY <1>3, <1>4 DEF PortEntry
  <2>2. \A j \in Port : j # i => porttab'[j] = porttab[j]
    BY <1>3, <1>4
  <2> QED BY <2>1, <2>2
<1>7. CASE ~InCall(p)
  BY <1>1, <1>5, <1>6, <1>7, NotSeen
<1>8. CASE InCall(p)
  <2>1. /\ CallsMade' = [CallsMade EXCEPT ![p] = Abstract!None]
        /\ CallsMade[p] = CallOf(p)
        /\ OpenPorts' = OpenPorts
        /\ OvertakenCalls' \ {p} = OvertakenCalls \ {p}
    BY <1>5, <1>6, CallsStep
  <2>2. OvertakenCalls' = OvertakenCalls \ {p}
    BY <1>5, <2>1 DEF OvertakenCalls
  <2>3. CallOf(p) # Abstract!None
    BY <1>8 DEF CallOf, InCall, Abstract!None
  <2>4. MessagesHeld' = MessagesHeld /\ Places' = Places
    BY <1>6 DEF MessagesHeld, Places
  <2> QED BY <1>1, <2>1, <2>2, <2>3, <2>4 DEF Abstract!GiveUp
<1> QED BY <1>7, <1>8

\* Every step of the ports is a step of the channels, or no step of theirs.
LEMMA PortsNextRefines ==
    ASSUME PortInv, PortInv', [PortsNext]_portvars
    PROVE  [Abstract!CNext]_(Abstract!cvars)
<1>1. ASSUME NEW p \in Proc, NEW count \in MaxCounts, Ptcreate(p, count)
      PROVE  Abstract!CNext
  BY <1>1, PtcreateRefines DEF Abstract!CNext
<1>2. ASSUME NEW p \in Proc, NEW i \in Port, NEW msg \in Msgs, Ptsend(p, i, msg)
      PROVE  Abstract!CNext \/ UNCHANGED Abstract!cvars
  <2>1. \/ Abstract!Begin(p, "send", i, msg) \/ Abstract!Put(p, i, msg)
        \/ UNCHANGED Abstract!cvars
    BY <1>2, PtsendRefines
  <2> QED BY <2>1 DEF Abstract!CNext
<1>3. ASSUME NEW p \in Proc, NEW i \in Port, Ptrecv(p, i)
      PROVE  Abstract!CNext
  <2>1. Abstract!Begin(p, "recv", i, NoMsg) \/ Abstract!Get(p, i)
    BY <1>3, PtrecvRefines
  <2> QED BY <2>1 DEF Abstract!CNext
<1>4. ASSUME NEW p \in Proc, NEW i \in Port, Ptreset(p, i) \/ Ptdelete(p, i)
      PROVE  Abstract!CNext
  <2>1. Abstract!Close(i)
    BY <1>4, PtclearRefines DEF Ptreset, Ptdelete
  <2> QED BY <2>1 DEF Abstract!CNext
<1>5. ASSUME NEW p \in Proc, PortGoesOn(p)
      PROVE  Abstract!CNext \/ UNCHANGED Abstract!cvars
  <2>1. CASE PtsendEnd(p) \/ PtrecvEnd(p)
    <3>1. \/ Abstract!GiveUp(p) \/ UNCHANGED Abstract!cvars
          \/ \E i \in Port : \/ \E msg \in Msgs : Abstract!Put(p, i, msg)
                             \/ Abstract!Get(p, i)
      BY <2>1, EndsRefine
    <3> QED BY <3>1 DEF Abstract!CNext
  <2>2. CASE PtclearSenders(p) \/ PtclearReceivers(p) \/ PtclearEnd(p)
    <3>1. UNCHANGED Abstract!cvars \/ \E i \in Port : Abstract!Open(i)
      BY <2>2, ClearersRefine
    <3> QED BY <3>1 DEF Abstract!CNext
  <2> QED BY <1>5, <2>1, <2>2 DEF PortGoesOn
<1>6. ASSUME NEW p \in Proc, PortKill(p)
      PROVE  Abstract!CNext \/ UNCHANGED Abstract!cvars
  <2>1. UNCHANGED Abstract!cvars \/ Abstract!GiveUp(p)
    BY <1>6, PortKillRefines
  <2> QED BY <2>1 DEF Abstract!CNext
<1>7. CASE UNCHANGED portvars
  <2>1. porttab' = porttab /\ ptcall' = ptcall /\ received' = received
    BY <1>7 DEF portvars
  <2> QED BY <2>1, NotSeen
<1> QED BY <1>1, <1>2, <1>3, <1>4, <1>5, <1>6, <1>7 DEF PortsNext

\* A port is a queue of bounded capacity: a caller that its port was closed
\* under leaves nothing in it and takes nothing out of it, however often the
\* port was opened again before it ran (ptsend.c:29-35, ptrecv.c:28-33,
\* ptclear.c:21-23), and nobody sees the steps in which a port is emptied.
THEOREM PortsImplementChannels == PortsSpec => ChannelsRefined
<1>1. PortsInit => PortInv
  BY PortsInitInv
<1>2. PortInv /\ [PortsNext]_portvars => PortInv'
  BY PortsNextInv
<1>3. PortsInit => Abstract!CInit
  BY DEF PortsInit, Abstract!CInit, OpenPorts, Places, MessagesHeld, CallsMade, CallOf,
         OvertakenCalls, InCall, Idle, Abstract!None
<1>4. PortInv /\ PortInv' /\ [PortsNext]_portvars => [Abstract!CNext]_(Abstract!cvars)
  BY PortsNextRefines
<1> QED BY <1>1, <1>2, <1>3, <1>4, PTL DEF PortsSpec, ChannelsRefined, Abstract!CSpec
-----------------------------------------------------------------------------
\* Memory.

Blk == [addr : Nat, len : Nat \ {0}]

Apart(b, c) == Top(b) <= c.addr \/ Top(c) <= b.addr

\* The free list: blocks by address, with something between them.
FreeList(m) ==
    /\ m \in Seq(Blk)
    /\ \A i, j \in DOMAIN m : i < j => Top(m[i]) < m[j].addr

\* All that MemoryConserved says, and that blocks are apart whole.
MemInv ==
    /\ FreeList(memlist)
    /\ blocks \subseteq Blk
    /\ \A b, c \in blocks : b # c => Apart(b, c)
    /\ \A b \in blocks : \A i \in DOMAIN memlist : Apart(b, memlist[i])
    /\ FreeBytes \cup HeldBytes = HeapBytes
    /\ IsFiniteSet(FreeBytes) /\ mlength = Cardinality(FreeBytes)

\* Every nonempty set of naturals with a bound has a greatest element; Max
\* finds it.
LEMMA MaxNat ==
    ASSUME NEW T, T \subseteq Nat, T # {}, NEW m \in Nat, \A x \in T : x <= m
    PROVE  Max(T) \in T /\ \A y \in T : y <= Max(T)
<1> DEFINE D == {m - x : x \in T}
<1>1. D \subseteq Nat /\ D # {}
  <2>1. \A x \in T : x \in Nat /\ x <= m
    OBVIOUS
  <2>2. \A x \in T : m - x \in Nat
    BY <2>1
  <2> QED BY <2>2
<1>2. Min(D) \in D /\ \A y \in D : Min(D) <= y
  BY <1>1, MinNat
<1>3. PICK x \in T : Min(D) = m - x
  BY <1>2
<1>4. \A y \in T : x >= y
  <2> SUFFICES ASSUME NEW y \in T PROVE x >= y
    OBVIOUS
  <2>1. m - y \in D /\ x \in Nat /\ y \in Nat
    OBVIOUS
  <2>2. m - x <= m - y
    BY <1>2, <1>3, <2>1
  <2> QED BY <2>1, <2>2
<1>5. Max(T) \in T /\ \A y \in T : Max(T) >= y
  BY <1>4 DEF Max
<1>6. Max(T) \in Nat /\ T \subseteq Nat
  BY <1>5
<1> QED BY <1>5, <1>6

\* The item in the place of those from lo + 1 to hi - 1.
Spliced(r, m, lo, hi, e) ==
    /\ r \in Seq(Blk)
    /\ Len(r) = lo + 1 + (Len(m) + 1 - hi)
    /\ \A i \in 1 .. Len(r) :
          r[i] = IF i <= lo THEN m[i] ELSE IF i = lo + 1 THEN e ELSE m[i - lo - 2 + hi]

\* The list that has one item in the place of some.
LEMMA SplicedElements ==
    ASSUME NEW m \in Seq(Blk), NEW lo \in 0 .. Len(m), NEW hi \in lo+1 .. Len(m)+1, NEW e \in Blk
    PROVE  Spliced(SubSeq(m, 1, lo) \o <<e>> \o SubSeq(m, hi, Len(m)), m, lo, hi, e)
<1> DEFINE a == SubSeq(m, 1, lo)
           b == SubSeq(m, hi, Len(m))
<1>0. Len(m) \in Nat /\ lo \in Nat /\ hi \in Nat /\ lo <= Len(m) /\ lo + 1 <= hi /\ hi <= Len(m) + 1
  OBVIOUS
<1>1. a \in Seq(Blk) /\ Len(a) = lo /\ \A j \in 1 .. lo : a[j] = m[j]
  <2>1. /\ a \in Seq(Blk)
        /\ Len(a) = IF 1 <= lo THEN lo - 1 + 1 ELSE 0
        /\ \A j \in 1 .. lo - 1 + 1 : a[j] = m[1 + j - 1]
    BY <1>0, SubSeqProperties
  <2> HIDE DEF a, b
  <2>2. lo - 1 + 1 = lo /\ (~(1 <= lo) => lo = 0)
    BY <1>0
  <2>3. \A j \in 1 .. lo : 1 + j - 1 = j
    BY <1>0
  <2> QED BY <2>1, <2>2, <2>3
<1>2. b \in Seq(Blk) /\ Len(b) = Len(m) + 1 - hi /\ \A j \in 1 .. Len(m) + 1 - hi : b[j] = m[hi + j - 1]
  <2>1. /\ b \in Seq(Blk)
        /\ Len(b) = IF hi <= Len(m) THEN Len(m) - hi + 1 ELSE 0
        /\ \A j \in 1 .. Len(m) - hi + 1 : b[j] = m[hi + j - 1]
    BY <1>0, SubSeqProperties, SMTT(60)
  <2> HIDE DEF a, b
  <2>2. Len(m) - hi + 1 = Len(m) + 1 - hi /\ (~(hi <= Len(m)) => Len(m) + 1 - hi = 0)
    BY <1>0
  <2> QED BY <2>1, <2>2
<1>3. <<e>> \in Seq(Blk) /\ Len(<<e>>) = 1 /\ <<e>>[1] = e
  OBVIOUS
<1> HIDE DEF a, b
<1> DEFINE c == a \o <<e>>
<1>4. c \in Seq(Blk) /\ Len(c) = lo + 1 /\ \A j \in 1 .. lo + 1 : c[j] = IF j <= lo THEN m[j] ELSE e
  BY <1>0, <1>1, <1>3, ConcatProperties
<1> HIDE DEF c
<1> DEFINE d == c \o b
<1>5. /\ d \in Seq(Blk)
      /\ Len(d) = Len(c) + Len(b)
      /\ \A j \in 1 .. Len(c) + Len(b) : d[j] = IF j <= Len(c) THEN c[j] ELSE b[j - Len(c)]
  BY <1>2, <1>4, ConcatProperties
<1> HIDE DEF d
<1>6. Len(d) = lo + 1 + (Len(m) + 1 - hi)
  BY <1>2, <1>4, <1>5
<1>7. \A j \in 1 .. Len(d) : d[j] = IF j <= lo THEN m[j] ELSE IF j = lo + 1 THEN e ELSE m[j - lo - 2 + hi]
  <2> SUFFICES ASSUME NEW j \in 1 .. Len(d)
               PROVE  d[j] = IF j <= lo THEN m[j] ELSE IF j = lo + 1 THEN e ELSE m[j - lo - 2 + hi]
    OBVIOUS
  <2>1. CASE j <= lo + 1
    <3>1. d[j] = c[j]
      BY <1>4, <1>5, <2>1
    <3> QED BY <1>0, <1>4, <2>1, <3>1
  <2>2. CASE j > lo + 1
    <3>1. j - (lo + 1) \in 1 .. Len(m) + 1 - hi /\ hi + (j - (lo + 1)) - 1 = j - lo - 2 + hi
      BY <1>0, <1>6, <2>2
    <3>2. b[j - (lo + 1)] = m[j - lo - 2 + hi]
      BY <1>2, <3>1
    <3>3. d[j] = b[j - (lo + 1)]
      BY <1>4, <1>5, <2>2
    <3>4. ~(j <= lo) /\ j # lo + 1
      BY <1>0, <2>2
    <3> QED BY <3>2, <3>3, <3>4
  <2> QED BY <1>0, <1>6, <2>1, <2>2
<1>8. Spliced(d, m, lo, hi, e)
  BY <1>5, <1>6, <1>7 DEF Spliced
<1> QED BY <1>8 DEF a, b, c, d

\* A free list in which an item takes the place of some stays one, if it leaves
\* something between itself and the others.
LEMMA SplicedList ==
    ASSUME NEW m, FreeList(m), NEW lo \in 0 .. Len(m), NEW hi \in lo+1 .. Len(m)+1,
           NEW e \in Blk, NEW r, Spliced(r, m, lo, hi, e),
           lo > 0 => Top(m[lo]) < e.addr, hi <= Len(m) => Top(e) < m[hi].addr
    PROVE  /\ FreeList(r)
           /\ \E i \in DOMAIN r : r[i] = e
           /\ \A i \in DOMAIN r : r[i] = e \/ \E j \in DOMAIN m : r[i] = m[j] /\ (j <= lo \/ j >= hi)
           /\ \A j \in DOMAIN m : j <= lo \/ j >= hi => \E i \in DOMAIN r : r[i] = m[j]
<1>1. /\ m \in Seq(Blk) /\ DOMAIN m = 1 .. Len(m) /\ Len(m) \in Nat
      /\ r \in Seq(Blk) /\ DOMAIN r = 1 .. Len(r) /\ Len(r) \in Nat
      /\ Len(r) = lo + 1 + (Len(m) + 1 - hi)
      /\ lo \in Nat /\ hi \in Nat /\ lo <= Len(m) /\ lo + 1 <= hi /\ hi <= Len(m) + 1
  BY DEF FreeList, Spliced
<1>2. \A i \in 1 .. Len(m) : m[i].addr \in Nat /\ m[i].len \in Nat \ {0} /\ m[i].addr < Top(m[i]) /\ Top(m[i]) \in Nat
  <2> SUFFICES ASSUME NEW i \in 1 .. Len(m)
               PROVE  /\ m[i].addr \in Nat /\ m[i].len \in Nat \ {0}
                      /\ m[i].addr < Top(m[i]) /\ Top(m[i]) \in Nat
    OBVIOUS
  <2>1. m[i] \in Blk
    BY <1>1
  <2>2. m[i].addr \in Nat /\ m[i].len \in Nat \ {0}
    BY <2>1 DEF Blk
  <2> QED BY <2>2 DEF Top
<1>3. e.addr < Top(e) /\ e.addr \in Nat /\ Top(e) \in Nat
  BY DEF Blk, Top
<1>4. \A i, j \in 1 .. Len(m) : i < j => Top(m[i]) < m[j].addr
  BY <1>1 DEF FreeList
<1>5. \A i \in 1 .. lo : i \in 1 .. Len(m) /\ i \in 1 .. Len(r) /\ r[i] = m[i]
  BY <1>1 DEF Spliced
<1>6. lo + 1 \in 1 .. Len(r) /\ r[lo + 1] = e
  BY <1>1 DEF Spliced
<1>7. \A i \in lo + 2 .. Len(r) : i - lo - 2 + hi \in hi .. Len(m) /\ r[i] = m[i - lo - 2 + hi]
  BY <1>1 DEF Spliced
<1>8. \A j \in hi .. Len(m) : j - hi + lo + 2 \in lo + 2 .. Len(r) /\ r[j - hi + lo + 2] = m[j]
  <2> SUFFICES ASSUME NEW j \in hi .. Len(m)
               PROVE  j - hi + lo + 2 \in lo + 2 .. Len(r) /\ r[j - hi + lo + 2] = m[j]
    OBVIOUS
  <2>1. PICK k \in lo + 2 .. Len(r) : k = j - hi + lo + 2
    BY <1>1
  <2>2. k - lo - 2 + hi = j
    BY <1>1, <2>1
  <2> QED BY <1>7, <2>1, <2>2
<1>9. \A i \in 1 .. lo : Top(m[i]) < e.addr
  <2> SUFFICES ASSUME NEW i \in 1 .. lo PROVE Top(m[i]) < e.addr
    OBVIOUS
  <2>1. CASE i = lo
    BY <1>1, <2>1
  <2>2. CASE i < lo
    <3>1. lo \in 1 .. Len(m) /\ i \in 1 .. Len(m)
      BY <1>1, <2>2
    <3>2. Top(m[i]) < m[lo].addr /\ Top(m[lo]) < e.addr
      BY <1>1, <1>4, <2>2, <3>1
    <3> QED BY <1>2, <1>3, <3>1, <3>2
  <2> QED BY <1>1, <2>1, <2>2
<1>10. \A j \in hi .. Len(m) : Top(e) < m[j].addr
  <2> SUFFICES ASSUME NEW j \in hi .. Len(m) PROVE Top(e) < m[j].addr
    OBVIOUS
  <2>1. CASE j = hi
    BY <1>1, <2>1
  <2>2. CASE j > hi
    <3>1. hi \in 1 .. Len(m) /\ j \in 1 .. Len(m)
      BY <1>1, <2>2
    <3>2. Top(m[hi]) < m[j].addr /\ Top(e) < m[hi].addr
      BY <1>1, <1>4, <2>2, <3>1
    <3> QED BY <1>2, <1>3, <3>1, <3>2
  <2> QED BY <1>1, <2>1, <2>2
<1>11. ASSUME NEW i \in 1 .. Len(r), NEW j \in 1 .. Len(r), i < j
       PROVE  Top(r[i]) < r[j].addr
  <2>1. CASE j <= lo
    <3>1. i \in 1 .. lo /\ j \in 1 .. lo
      BY <1>1, <1>11, <2>1
    <3> QED BY <1>4, <1>5, <1>11, <3>1
  <2>2. CASE j = lo + 1
    <3>1. i \in 1 .. lo
      BY <1>1, <1>11, <2>2
    <3> QED BY <1>5, <1>6, <1>9, <2>2, <3>1
  <2>3. CASE j > lo + 1
    <3>1. PICK k \in hi .. Len(m) : r[j] = m[k] /\ k = j - lo - 2 + hi
      <4>1. j \in lo + 2 .. Len(r)
        BY <1>1, <2>3
      <4>2. j - lo - 2 + hi \in hi .. Len(m) /\ r[j] = m[j - lo - 2 + hi]
        BY <1>7, <4>1
      <4> QED BY <4>2
    <3>2. CASE i <= lo
      <4>1. i \in 1 .. lo /\ i \in 1 .. Len(m) /\ k \in 1 .. Len(m) /\ i < k
        BY <1>1, <3>2
      <4> QED BY <1>4, <1>5, <3>1, <4>1
    <3>3. CASE i = lo + 1
      BY <1>6, <1>10, <3>1, <3>3
    <3>4. CASE i > lo + 1
      <4>1. PICK l \in hi .. Len(m) : r[i] = m[l] /\ l = i - lo - 2 + hi
        <5>1. i \in lo + 2 .. Len(r)
          BY <1>1, <3>4
        <5>2. i - lo - 2 + hi \in hi .. Len(m) /\ r[i] = m[i - lo - 2 + hi]
          BY <1>7, <5>1
        <5> QED BY <5>2
      <4>2. l \in 1 .. Len(m) /\ k \in 1 .. Len(m) /\ l < k
        <5>1. i \in Nat /\ j \in Nat /\ k \in Int /\ l \in Int /\ hi <= k /\ hi <= l
              /\ k <= Len(m) /\ l <= Len(m)
          BY <1>1
        <5>2. l < k
          BY <1>1, <1>11, <3>1, <4>1, <5>1
        <5> QED BY <1>1, <5>1, <5>2
      <4> QED BY <1>4, <3>1, <4>1, <4>2
    <3> QED BY <1>1, <3>2, <3>3, <3>4
  <2> QED BY <1>1, <2>1, <2>2, <2>3
<1>12. FreeList(r)
  BY <1>1, <1>11 DEF FreeList
<1>13. \A i \in DOMAIN r : r[i] = e \/ \E j \in DOMAIN m : r[i] = m[j] /\ (j <= lo \/ j >= hi)
  <2> SUFFICES ASSUME NEW i \in 1 .. Len(r)
               PROVE  r[i] = e \/ \E j \in 1 .. Len(m) : r[i] = m[j] /\ (j <= lo \/ j >= hi)
    BY <1>1
  <2>1. CASE i <= lo
    <3>1. i \in 1 .. lo
      BY <1>1, <2>1
    <3> QED BY <1>5, <2>1, <3>1
  <2>2. CASE i = lo + 1
    BY <1>6, <2>2
  <2>3. CASE i > lo + 1
    <3>1. PICK k \in hi .. Len(m) : r[i] = m[k]
      <4>1. i \in lo + 2 .. Len(r)
        BY <1>1, <2>3
      <4>2. i - lo - 2 + hi \in hi .. Len(m) /\ r[i] = m[i - lo - 2 + hi]
        BY <1>7, <4>1
      <4> QED BY <4>2
    <3>2. k \in 1 .. Len(m) /\ k >= hi
      BY <1>1
    <3> QED BY <3>1, <3>2
  <2> QED BY <1>1, <2>1, <2>2, <2>3
<1>14. ASSUME NEW j \in DOMAIN m, j <= lo \/ j >= hi PROVE \E i \in DOMAIN r : r[i] = m[j]
  <2>1. CASE j <= lo
    <3>1. j \in 1 .. lo
      BY <1>1, <2>1
    <3> QED BY <1>1, <1>5, <3>1
  <2>2. CASE j >= hi
    <3>1. j \in hi .. Len(m)
      BY <1>1, <2>2
    <3>2. PICK i \in lo + 2 .. Len(r) : i = j - hi + lo + 2
      BY <1>8, <3>1
    <3>3. r[i] = m[j] /\ i \in 1 .. Len(r)
      BY <1>1, <1>8, <3>1, <3>2
    <3> QED BY <1>1, <3>3
  <2> QED BY <1>14, <2>1, <2>2
<1> QED BY <1>1, <1>6, <1>12, <1>13, <1>14

\* The same for one that is taken out, and for one that takes the place of one.
LEMMA RemovedList ==
    ASSUME NEW m, FreeList(m), NEW k \in DOMAIN m
    PROVE  /\ FreeList(RemoveAt(m, k))
           /\ \A i \in DOMAIN RemoveAt(m, k) : \E j \in DOMAIN m : RemoveAt(m, k)[i] = m[j] /\ j # k
           /\ \A j \in DOMAIN m : j # k => \E i \in DOMAIN RemoveAt(m, k) : RemoveAt(m, k)[i] = m[j]
<1>1. /\ m \in Seq(Blk) /\ DOMAIN m = 1 .. Len(m) /\ Len(m) \in Nat /\ k \in 1 .. Len(m)
  BY DEF FreeList
<1>2. PICK r : r = RemoveAt(m, k)
  OBVIOUS
<1>3. r = [j \in 1 .. Len(m)-1 |-> IF j < k THEN m[j] ELSE m[j+1]]
  BY <1>1, <1>2, RemoveAtElements
<1>4. r \in Seq(Blk) /\ DOMAIN r = 1 .. Len(m) - 1
  <2>1. \A j \in 1 .. Len(m) - 1 : j \in 1 .. Len(m) /\ j + 1 \in 1 .. Len(m)
    BY <1>1
  <2>2. \A j \in 1 .. Len(m) - 1 : (IF j < k THEN m[j] ELSE m[j+1]) \in Blk
    BY <1>1, <2>1
  <2>3. Len(m) - 1 \in Nat
    BY <1>1
  <2> QED BY <1>3, <2>2, <2>3
<1>5. \A i, j \in DOMAIN m : i < j => Top(m[i]) < m[j].addr
  BY DEF FreeList
<1>6. ASSUME NEW i \in DOMAIN r
      PROVE  \E j \in DOMAIN m : r[i] = m[j] /\ j # k /\ j = IF i < k THEN i ELSE i + 1
  <2>1. i \in 1 .. Len(m) - 1
    BY <1>4
  <2>2. CASE i < k
    <3>1. i \in 1 .. Len(m) /\ r[i] = m[i]
      BY <1>1, <1>3, <2>1, <2>2
    <3> QED BY <1>1, <2>2, <3>1
  <2>3. CASE ~(i < k)
    <3>1. i + 1 \in 1 .. Len(m) /\ r[i] = m[i + 1] /\ i + 1 # k
      BY <1>1, <1>3, <2>1, <2>3
    <3> QED BY <1>1, <2>3, <3>1
  <2> QED BY <2>2, <2>3
<1>7. ASSUME NEW i \in DOMAIN r, NEW j \in DOMAIN r, i < j PROVE Top(r[i]) < r[j].addr
  <2>1. PICK a \in DOMAIN m : r[i] = m[a] /\ a = IF i < k THEN i ELSE i + 1
    BY <1>6
  <2>2. PICK b \in DOMAIN m : r[j] = m[b] /\ b = IF j < k THEN j ELSE j + 1
    BY <1>6
  <2>3. a < b
    BY <1>1, <1>4, <1>7, <2>1, <2>2
  <2> QED BY <1>5, <2>1, <2>2, <2>3
<1>8. ASSUME NEW j \in DOMAIN m, j # k PROVE \E i \in DOMAIN r : r[i] = m[j]
  <2>1. CASE j < k
    <3>1. j \in 1 .. Len(m) - 1
      BY <1>1, <2>1
    <3> QED BY <1>3, <1>4, <2>1, <3>1
  <2>2. CASE j > k
    <3>1. PICK i \in 1 .. Len(m) - 1 : i = j - 1
      BY <1>1, <2>2
    <3>2. ~(i < k) /\ i + 1 = j
      BY <1>1, <2>2, <3>1
    <3> QED BY <1>3, <1>4, <3>1, <3>2
  <2> QED BY <1>1, <1>8, <2>1, <2>2
<1>9. FreeList(r)
  BY <1>4, <1>7 DEF FreeList
<1> QED BY <1>2, <1>6, <1>8, <1>9

\* The same for one that takes the place of another, no larger than it.
LEMMA ReplacedList ==
    ASSUME NEW m, FreeList(m), NEW k \in DOMAIN m, NEW e \in Blk,
           m[k].addr <= e.addr, Top(e) <= Top(m[k])
    PROVE  /\ FreeList(ReplaceAt(m, k, e))
           /\ \E i \in DOMAIN ReplaceAt(m, k, e) : ReplaceAt(m, k, e)[i] = e
           /\ \A i \in DOMAIN ReplaceAt(m, k, e) :
                 ReplaceAt(m, k, e)[i] = e \/ \E j \in DOMAIN m : ReplaceAt(m, k, e)[i] = m[j] /\ j # k
           /\ \A j \in DOMAIN m :
                 j # k => \E i \in DOMAIN ReplaceAt(m, k, e) : ReplaceAt(m, k, e)[i] = m[j]
<1>1. /\ m \in Seq(Blk) /\ DOMAIN m = 1 .. Len(m) /\ Len(m) \in Nat
      /\ \A i, j \in DOMAIN m : i < j => Top(m[i]) < m[j].addr
  BY DEF FreeList
<1>2. PICK r : r = ReplaceAt(m, k, e)
  OBVIOUS
<1>3. /\ r \in Seq(Blk) /\ DOMAIN r = DOMAIN m /\ r[k] = e
      /\ \A i \in DOMAIN m : i # k => r[i] = m[i]
  BY <1>1, <1>2 DEF ReplaceAt
<1>4. ASSUME NEW i \in DOMAIN m, NEW j \in DOMAIN m, i < j PROVE Top(r[i]) < r[j].addr
  <2>1. Top(m[i]) < m[j].addr
    BY <1>1, <1>4
  <2>2. \A l \in DOMAIN m : m[l].addr \in Nat /\ Top(m[l]) \in Nat
    <3>1. \A l \in DOMAIN m : m[l] \in Blk
      BY <1>1
    <3> QED BY <3>1 DEF Blk, Top
  <2>3. e.addr \in Nat /\ Top(e) \in Nat
    BY DEF Blk, Top
  <2>4. Top(r[i]) <= Top(m[i]) /\ Top(r[i]) \in Nat
    <3>1. CASE i = k
      BY <1>3, <2>2, <2>3, <3>1
    <3>2. CASE i # k
      BY <1>3, <2>2, <3>2
    <3> QED BY <3>1, <3>2
  <2>5. m[j].addr <= r[j].addr /\ r[j].addr \in Nat
    <3>1. CASE j = k
      BY <1>3, <2>2, <2>3, <3>1
    <3>2. CASE j # k
      BY <1>3, <2>2, <3>2
    <3> QED BY <3>1, <3>2
  <2> QED BY <2>1, <2>2, <2>4, <2>5
<1>5. FreeList(r)
  BY <1>3, <1>4 DEF FreeList
<1>6. \E i \in DOMAIN r : r[i] = e
  BY <1>3
<1>7. \A i \in DOMAIN r : r[i] = e \/ \E j \in DOMAIN m : r[i] = m[j] /\ j # k
  BY <1>3
<1>8. \A j \in DOMAIN m : j # k => \E i \in DOMAIN r : r[i] = m[j]
  BY <1>3
<1> QED BY <1>2, <1>5, <1>6, <1>7, <1>8

\* Blocks that are apart have no byte in common, and those that have none are
\* apart.
LEMMA ApartBytes ==
    ASSUME NEW b \in Blk, NEW c \in Blk
    PROVE  /\ b.addr \in Nat /\ b.len \in Nat \ {0} /\ Top(b) \in Nat /\ b.addr < Top(b)
           /\ Top(b) = b.addr + b.len
           /\ b.addr \in Bytes(b)
           /\ Bytes(b) \subseteq Nat
           /\ \A x : x \in Bytes(b) <=> x \in Nat /\ b.addr <= x /\ x < Top(b)
           /\ Apart(b, c) => Bytes(b) \cap Bytes(c) = {}
           /\ Apart(b, c) <=> Apart(c, b)
           /\ Apart(b, c) => b # c
           /\ IsFiniteSet(Bytes(b)) /\ Cardinality(Bytes(b)) = b.len
<1>1. /\ b.addr \in Nat /\ b.len \in Nat /\ b.len # 0 /\ Top(b) = b.addr + b.len
      /\ c.addr \in Nat /\ c.len \in Nat /\ c.len # 0 /\ Top(c) = c.addr + c.len
  BY DEF Blk, Top
<1>2. Top(b) \in Nat /\ b.addr < Top(b) /\ Top(c) \in Nat /\ c.addr < Top(c)
  BY <1>1
<1>3. /\ \A x : x \in Bytes(b) <=> x \in Nat /\ b.addr <= x /\ x < Top(b)
      /\ \A x : x \in Bytes(c) <=> x \in Nat /\ c.addr <= x /\ x < Top(c)
  BY <1>1, <1>2 DEF Bytes
<1>4. Apart(b, c) => Bytes(b) \cap Bytes(c) = {}
  BY <1>1, <1>2, <1>3 DEF Apart
<1>5. Apart(b, c) => b # c
  BY <1>1, <1>2 DEF Apart
<1>6. IsFiniteSet(Bytes(b)) /\ Cardinality(Bytes(b)) = b.len
  <2>1. Top(b) - 1 \in Int /\ ~(b.addr > Top(b) - 1) /\ Top(b) - 1 - b.addr + 1 = b.len
    BY <1>1, <1>2
  <2>2. /\ IsFiniteSet(b.addr .. Top(b) - 1)
        /\ Cardinality(b.addr .. Top(b) - 1)
              = IF b.addr > Top(b) - 1 THEN 0 ELSE Top(b) - 1 - b.addr + 1
    <3>1. b.addr \in Int
      BY <1>1
    <3> QED BY <2>1, <3>1, FS_Interval
  <2> QED BY <2>1, <2>2 DEF Bytes
<1> QED BY <1>1, <1>2, <1>3, <1>4, <1>5, <1>6 DEF Apart

\* The bytes of a free list, by the blocks of it.
LEMMA FreeByteIs ==
    ASSUME NEW x
    PROVE  /\ x \in FreeBytes <=> \E i \in DOMAIN memlist : x \in Bytes(memlist[i])
           /\ x \in FreeBytes' <=> \E i \in DOMAIN memlist' : x \in Bytes(memlist'[i])
           /\ x \in HeldBytes <=> \E b \in blocks : x \in Bytes(b)
           /\ x \in HeldBytes' <=> \E b \in blocks' : x \in Bytes(b)
  BY DEF FreeBytes, HeldBytes

\* A block of n bytes is taken from the bottom or the top of a free block.
LEMMA TakenKeeps ==
    ASSUME MemInv, NEW i \in DOMAIN memlist, NEW n \in Nat \ {0}, NEW t, NEW rest,
           n <= memlist[i].len,
           \/ t = Block(memlist[i].addr, n) /\ rest = Block(memlist[i].addr + n, memlist[i].len - n)
           \/ t = Block(Top(memlist[i]) - n, n) /\ rest = Block(memlist[i].addr, memlist[i].len - n),
           memlist' = IF memlist[i].len = n THEN RemoveAt(memlist, i)
                                            ELSE ReplaceAt(memlist, i, rest),
           blocks' = blocks \cup {t}, mlength' = mlength - n
    PROVE  MemInv' /\ t \in Blk /\ t.len = n /\ \A c \in blocks : Apart(c, t)
<1>1. /\ FreeList(memlist) /\ memlist \in Seq(Blk)
      /\ \A j \in DOMAIN memlist : memlist[j] \in Blk
      /\ \A c \in blocks : c \in Blk
  BY DEF MemInv, FreeList
<1>2. PICK b \in Blk : b = memlist[i]
  BY <1>1
<1>3. /\ b.addr \in Nat /\ b.len \in Nat \ {0} /\ Top(b) = b.addr + b.len /\ Top(b) \in Nat
      /\ b.addr < Top(b)
  BY ApartBytes
<1>4. /\ t \in Blk /\ t.len = n /\ b.addr <= t.addr /\ Top(t) <= Top(b)
      /\ t.addr \in Nat /\ Top(t) = t.addr + n /\ Top(t) \in Nat
  <2>1. t.addr \in Nat /\ b.addr <= t.addr /\ t.addr + n <= Top(b) /\ t.len = n /\ t = Block(t.addr, n)
    BY <1>2, <1>3 DEF Block
  <2>2. t \in Blk
    BY <2>1 DEF Block, Blk
  <2> QED BY <2>1, <2>2 DEF Top
<1>5. b.len # n =>
         /\ rest \in Blk /\ b.addr <= rest.addr /\ Top(rest) <= Top(b)
         /\ rest.addr \in Nat /\ Top(rest) \in Nat
         /\ \/ t.addr = b.addr /\ rest.addr = Top(t) /\ Top(rest) = Top(b)
            \/ Top(t) = Top(b) /\ rest.addr = b.addr /\ Top(rest) = t.addr
  <2> SUFFICES ASSUME b.len # n
               PROVE  /\ rest \in Blk /\ b.addr <= rest.addr /\ Top(rest) <= Top(b)
                      /\ rest.addr \in Nat /\ Top(rest) \in Nat
                      /\ \/ t.addr = b.addr /\ rest.addr = Top(t) /\ Top(rest) = Top(b)
                         \/ Top(t) = Top(b) /\ rest.addr = b.addr /\ Top(rest) = t.addr
    OBVIOUS
  <2>1. b.len - n \in Nat \ {0}
    BY <1>2, <1>3
  <2>2. CASE t = Block(b.addr, n) /\ rest = Block(b.addr + n, b.len - n)
    <3>1. rest.addr = b.addr + n /\ rest.len = b.len - n /\ t.addr = b.addr
      BY <2>2 DEF Block
    <3>2. rest \in Blk
      BY <1>3, <2>1, <2>2 DEF Block, Blk
    <3>3. Top(rest) = b.addr + n + (b.len - n)
      BY <3>1 DEF Top
    <3> QED BY <1>3, <1>4, <2>1, <3>1, <3>2, <3>3
  <2>3. CASE t = Block(Top(b) - n, n) /\ rest = Block(b.addr, b.len - n)
    <3>1. rest.addr = b.addr /\ rest.len = b.len - n /\ t.addr = Top(b) - n
      BY <2>3 DEF Block
    <3>2. rest \in Blk
      BY <1>3, <2>1, <2>3 DEF Block, Blk
    <3>3. Top(rest) = b.addr + (b.len - n)
      BY <3>1 DEF Top
    <3> QED BY <1>3, <1>4, <2>1, <3>1, <3>2, <3>3
  <2> QED BY <1>2, <2>2, <2>3
<1>6. /\ FreeList(memlist')
      /\ \A j \in DOMAIN memlist' : \/ b.len # n /\ memlist'[j] = rest
                                    \/ \E k \in DOMAIN memlist : memlist'[j] = memlist[k] /\ k # i
      /\ \A k \in DOMAIN memlist : k # i => \E j \in DOMAIN memlist' : memlist'[j] = memlist[k]
      /\ b.len # n => \E j \in DOMAIN memlist' : memlist'[j] = rest
  <2>1. CASE b.len = n
    BY <1>1, <1>2, <2>1, RemovedList
  <2>2. CASE b.len # n
    <3>1. memlist' = ReplaceAt(memlist, i, rest)
      BY <1>2, <2>2
    <3> QED BY <1>1, <1>2, <1>5, <2>2, <3>1, ReplacedList
  <2> QED BY <2>1, <2>2
<1>7. \A x : x \in Bytes(t) <=> x \in Nat /\ t.addr <= x /\ x < Top(t)
  BY <1>4, ApartBytes
<1>8. \A x : x \in Bytes(b) <=> x \in Nat /\ b.addr <= x /\ x < Top(b)
  BY ApartBytes
<1>9. b.len # n => \A x : x \in Bytes(rest) <=> x \in Nat /\ rest.addr <= x /\ x < Top(rest)
  BY <1>5, ApartBytes
<1>10. ASSUME NEW k \in DOMAIN memlist, k # i
       PROVE  Apart(memlist[k], b) /\ Apart(memlist[k], t)
  <2>1. PICK c \in Blk : c = memlist[k]
    BY <1>1
  <2>2. Top(c) < b.addr \/ Top(b) < c.addr
    <3>1. k \in Nat /\ i \in Nat
      BY <1>1
    <3>2. k < i \/ i < k
      BY <1>10, <3>1
    <3> QED BY <1>1, <1>2, <2>1, <3>2 DEF FreeList
  <2>3. c.addr \in Nat /\ Top(c) \in Nat
    BY <2>1, ApartBytes
  <2> QED BY <1>3, <1>4, <2>1, <2>2, <2>3 DEF Apart
<1>11. ASSUME NEW c \in blocks
       PROVE  /\ Apart(c, t) /\ Apart(t, c)
              /\ b.len # n => Apart(c, rest)
  <2>1. c \in Blk /\ Apart(c, b)
    BY <1>1, <1>2 DEF MemInv
  <2>2. c.addr \in Nat /\ Top(c) \in Nat
    BY <2>1, ApartBytes
  <2>3. Apart(c, t) /\ Apart(t, c)
    BY <1>3, <1>4, <2>1, <2>2 DEF Apart
  <2>4. b.len # n => Apart(c, rest)
    BY <1>3, <1>5, <2>1, <2>2 DEF Apart
  <2> QED BY <2>3, <2>4
<1>12. b.len # n => Apart(t, rest)
  BY <1>5 DEF Apart
<1>13. \A c \in blocks' : \A j \in DOMAIN memlist' : Apart(c, memlist'[j])
  <2> SUFFICES ASSUME NEW c \in blocks', NEW j \in DOMAIN memlist' PROVE Apart(c, memlist'[j])
    OBVIOUS
  <2>1. CASE b.len # n /\ memlist'[j] = rest
    BY <1>11, <1>12, <2>1
  <2>2. ASSUME NEW k \in DOMAIN memlist, memlist'[j] = memlist[k], k # i PROVE Apart(c, memlist'[j])
    <3>1. CASE c \in blocks
      BY <2>2, <3>1 DEF MemInv
    <3>2. CASE c = t
      <4>1. Apart(memlist[k], t) /\ memlist[k] \in Blk
        BY <1>1, <1>10, <2>2
      <4> QED BY <1>4, <2>2, <3>2, <4>1, ApartBytes
    <3> QED BY <3>1, <3>2
  <2> QED BY <1>6, <2>1, <2>2
<1>14. \A x : x \in FreeBytes' <=> x \in FreeBytes /\ x \notin Bytes(t)
  <2>1. ASSUME NEW x \in FreeBytes' PROVE x \in FreeBytes /\ x \notin Bytes(t)
    <3>1. PICK j \in DOMAIN memlist' : x \in Bytes(memlist'[j])
      BY <2>1, FreeByteIs
    <3>2. CASE b.len # n /\ memlist'[j] = rest
      <4>1. x \in Nat /\ rest.addr <= x /\ x < Top(rest)
        BY <1>9, <3>1, <3>2
      <4>2. x \in Bytes(b) /\ x \notin Bytes(t)
        BY <1>3, <1>4, <1>5, <1>7, <1>8, <3>2, <4>1
      <4> QED BY <1>2, <4>2, FreeByteIs
    <3>3. ASSUME NEW k \in DOMAIN memlist, memlist'[j] = memlist[k], k # i
          PROVE  x \in FreeBytes /\ x \notin Bytes(t)
      <4>1. Bytes(memlist[k]) \cap Bytes(t) = {}
        BY <1>1, <1>4, <1>10, <3>3, ApartBytes
      <4> QED BY <3>1, <3>3, <4>1, FreeByteIs
    <3> QED BY <1>6, <3>2, <3>3
  <2>2. ASSUME NEW x \in FreeBytes, x \notin Bytes(t) PROVE x \in FreeBytes'
    <3>1. PICK k \in DOMAIN memlist : x \in Bytes(memlist[k])
      BY <2>2, FreeByteIs
    <3>2. CASE k # i
      BY <1>6, <3>1, <3>2, FreeByteIs
    <3>3. CASE k = i
      <4>1. x \in Nat /\ b.addr <= x /\ x < Top(b) /\ ~(t.addr <= x /\ x < Top(t))
        BY <1>2, <1>7, <1>8, <2>2, <3>1, <3>3
      <4>2. b.len # n
        <5>1. SUFFICES ASSUME b.len = n PROVE FALSE
          OBVIOUS
        <5>2. t.addr <= b.addr /\ Top(b) <= Top(t)
          BY <1>3, <1>4, <5>1
        <5> QED BY <1>3, <1>4, <4>1, <5>2
      <4>3. x \in Bytes(rest)
        BY <1>3, <1>4, <1>5, <1>9, <4>1, <4>2
      <4> QED BY <1>6, <4>2, <4>3, FreeByteIs
    <3> QED BY <3>2, <3>3
  <2> QED BY <2>1, <2>2
<1>15. \A x : x \in HeldBytes' <=> x \in HeldBytes \/ x \in Bytes(t)
  BY FreeByteIs
<1>16. Bytes(t) \subseteq FreeBytes
  <2>1. Bytes(t) \subseteq Bytes(b)
    BY <1>3, <1>4, <1>7, <1>8
  <2> QED BY <1>2, <2>1, FreeByteIs
<1>17. (FreeBytes \cup HeldBytes = HeapBytes)'
  <2>1. FreeBytes \cup HeldBytes = HeapBytes
    BY DEF MemInv
  <2>2. \A x : x \in FreeBytes' \cup HeldBytes' <=> x \in FreeBytes \cup HeldBytes
    BY <1>14, <1>15, <1>16
  <2>3. HeapBytes' = HeapBytes
    BY DEF HeapBytes, Bytes, Top
  <2>4. FreeBytes' \cup HeldBytes' = FreeBytes \cup HeldBytes
    BY <2>2
  <2> QED BY <2>1, <2>3, <2>4
<1>18. IsFiniteSet(FreeBytes') /\ mlength' = Cardinality(FreeBytes')
  <2>1. FreeBytes' = FreeBytes \ Bytes(t)
    BY <1>14
  <2>2. IsFiniteSet(FreeBytes) /\ mlength = Cardinality(FreeBytes)
    BY DEF MemInv
  <2>3. FreeBytes \cap Bytes(t) = Bytes(t)
    BY <1>16
  <2>4. Cardinality(Bytes(t)) = n
    BY <1>4, ApartBytes
  <2>5. IsFiniteSet(FreeBytes \ Bytes(t)) /\ Cardinality(FreeBytes \ Bytes(t)) = Cardinality(FreeBytes) - Cardinality(FreeBytes \cap Bytes(t))
    BY <2>2, FS_Difference
  <2> QED BY <2>1, <2>2, <2>3, <2>4, <2>5
<1>19. blocks' \subseteq Blk /\ \A c, d \in blocks' : c # d => Apart(c, d)
  BY <1>1, <1>4, <1>11 DEF MemInv
<1> QED BY <1>4, <1>6, <1>11, <1>13, <1>17, <1>18, <1>19 DEF MemInv

\* The first block that fits, and the last, when there is one.
LEMMA FitsFound ==
    ASSUME MemInv, NEW n, Fits(n) # {}
    PROVE  /\ Min(Fits(n)) \in DOMAIN memlist /\ memlist[Min(Fits(n))].len >= n
           /\ Max(Fits(n)) \in DOMAIN memlist /\ memlist[Max(Fits(n))].len >= n
<1>1. DOMAIN memlist = 1 .. Len(memlist) /\ Len(memlist) \in Nat
  BY DEF MemInv, FreeList
<1>2. Fits(n) \subseteq DOMAIN memlist /\ \A i \in Fits(n) : memlist[i].len >= n
  BY DEF Fits
<1>3. Fits(n) \subseteq Nat /\ \A i \in Fits(n) : i <= Len(memlist)
  BY <1>1, <1>2
<1>4. Min(Fits(n)) \in Fits(n)
  BY <1>3, MinNat
<1>5. Max(Fits(n)) \in Fits(n)
  BY <1>1, <1>3, MaxNat
<1> QED BY <1>2, <1>4, <1>5

\* A request takes one block that nobody holds.

\* A block of n bytes that nobody held becomes held.
Taken(t, n) ==
    /\ MemInv' /\ blocks' = blocks \cup {t}
    /\ t \in Blk /\ t.len = n /\ t \notin blocks
    /\ \A c \in blocks : Apart(c, t)

\* Whichever end of a free block a request is served from, it takes a new
\* block of the size that was asked for.
LEMMA GetmemTakes ==
    ASSUME MemInv, NEW n \in Nat \ {0}, Getmem(n) \/ Getstk(n)
    PROVE  \E t : Taken(t, n)
<1>1. Fits(n) # {} /\ mlength' = mlength - n
  BY DEF Getmem, Getstk
<1>2. CASE Getmem(n)
  <2>1. PICK i \in DOMAIN memlist : i = Min(Fits(n)) /\ memlist[i].len >= n
    BY <1>1, FitsFound
  <2>2. PICK t : t = Block(memlist[i].addr, n)
    OBVIOUS
  <2>3. PICK rest : rest = Block(memlist[i].addr + n, memlist[i].len - n)
    OBVIOUS
  <2>4. /\ memlist' = IF memlist[i].len = n THEN RemoveAt(memlist, i)
                                            ELSE ReplaceAt(memlist, i, rest)
        /\ blocks' = blocks \cup {t}
    BY <1>2, <2>1, <2>2, <2>3 DEF Getmem
  <2>5. n <= memlist[i].len
    <3>1. memlist[i] \in Blk
      BY DEF MemInv, FreeList
    <3>2. memlist[i].len \in Nat
      BY <3>1 DEF Blk
    <3> QED BY <2>1, <3>2
  <2>6. MemInv' /\ t \in Blk /\ t.len = n /\ \A c \in blocks : Apart(c, t)
    BY <1>1, <2>2, <2>3, <2>4, <2>5, TakenKeeps
  <2>7. t \notin blocks
    BY <2>6, ApartBytes
  <2> QED BY <2>4, <2>6, <2>7 DEF Taken
<1>3. CASE Getstk(n)
  <2>1. PICK i \in DOMAIN memlist : i = Max(Fits(n)) /\ memlist[i].len >= n
    BY <1>1, FitsFound
  <2>2. PICK t : t = Block(Top(memlist[i]) - n, n)
    OBVIOUS
  <2>3. PICK rest : rest = Block(memlist[i].addr, memlist[i].len - n)
    OBVIOUS
  <2>4. /\ memlist' = IF memlist[i].len = n THEN RemoveAt(memlist, i)
                                            ELSE ReplaceAt(memlist, i, rest)
        /\ blocks' = blocks \cup {t}
    BY <1>3, <2>1, <2>2, <2>3 DEF Getstk
  <2>5. n <= memlist[i].len
    <3>1. memlist[i] \in Blk
      BY DEF MemInv, FreeList
    <3>2. memlist[i].len \in Nat
      BY <3>1 DEF Blk
    <3> QED BY <2>1, <3>2
  <2>6. MemInv' /\ t \in Blk /\ t.len = n /\ \A c \in blocks : Apart(c, t)
    BY <1>1, <2>2, <2>3, <2>4, <2>5, TakenKeeps
  <2>7. t \notin blocks
    BY <2>6, ApartBytes
  <2> QED BY <2>4, <2>6, <2>7 DEF Taken
<1> QED BY <1>2, <1>3

\* The walk of freemem stops between the blocks below an address and the others.
LEMMA PassedStops ==
    ASSUME MemInv, NEW b \in Blk
    PROVE  /\ Passed(b) \in 0 .. Len(memlist)
           /\ \A i \in 1 .. Passed(b) : memlist[i].addr < b.addr
           /\ Passed(b) < Len(memlist) => memlist[Passed(b) + 1].addr >= b.addr
<1> DEFINE Stops(k) == /\ \A i \in 1 .. k : memlist[i].addr < b.addr
                       /\ k < Len(memlist) => memlist[k + 1].addr >= b.addr
           T == {i \in DOMAIN memlist : memlist[i].addr >= b.addr}
<1>1. DOMAIN memlist = 1 .. Len(memlist) /\ Len(memlist) \in Nat /\ b.addr \in Nat
      /\ \A i \in DOMAIN memlist : memlist[i].addr \in Nat
  <2>1. \A i \in DOMAIN memlist : memlist[i] \in Blk
    BY DEF MemInv, FreeList
  <2> QED BY <2>1 DEF MemInv, FreeList, Blk
<1>2. \E k \in 0 .. Len(memlist) : Stops(k)
  <2>1. CASE T = {}
    <3>1. Stops(Len(memlist))
      BY <1>1, <2>1
    <3> QED BY <1>1, <3>1
  <2>2. CASE T # {}
    <3>1. T \subseteq Nat
      BY <1>1
    <3>2. Min(T) \in T /\ \A y \in T : Min(T) <= y
      BY <2>2, <3>1, MinNat
    <3>3. PICK l \in 1 .. Len(memlist) : l = Min(T) /\ memlist[l].addr >= b.addr
      BY <1>1, <3>2
    <3>4. \A i \in 1 .. l - 1 : memlist[i].addr < b.addr
      <4> SUFFICES ASSUME NEW i \in 1 .. l - 1 PROVE memlist[i].addr < b.addr
        OBVIOUS
      <4>1. i \in DOMAIN memlist /\ i < l /\ i \in Nat /\ l \in Nat
        BY <1>1
      <4>2. i \notin T
        <5>1. SUFFICES ASSUME i \in T PROVE FALSE
          OBVIOUS
        <5>2. l <= i
          BY <3>2, <3>3, <5>1
        <5> QED BY <4>1, <5>2
      <4> QED BY <1>1, <4>1, <4>2
    <3>5. PICK k \in 0 .. Len(memlist) : k = l - 1
      BY <1>1
    <3>6. k + 1 = l
      BY <1>1, <3>5
    <3>7. Stops(k)
      BY <3>3, <3>4, <3>5, <3>6
    <3> QED BY <3>7
  <2> QED BY <2>1, <2>2
<1>3. Passed(b) = CHOOSE k \in 0 .. Len(memlist) : Stops(k)
  BY DEF Passed
<1> HIDE DEF Stops
<1>4. Passed(b) \in 0 .. Len(memlist) /\ Stops(Passed(b))
  BY <1>2, <1>3
<1> QED BY <1>4 DEF Stops

\* Memory that is free already is refused: what is freed is held.
LEMMA FreedTwiceRefused ==
    ASSUME MemInv, NEW b \in MayFree, ~Refused(b)
    PROVE  b \in blocks
<1> SUFFICES ASSUME b \notin blocks PROVE FALSE
  OBVIOUS
<1>0. PICK a \in FreeBytes, n \in Sizes : b = Block(a, n)
  BY DEF MayFree, FreeBytes
<1>1. PICK i \in DOMAIN memlist : a \in Bytes(memlist[i])
  BY FreeByteIs
<1>2. PICK c \in Blk : c = memlist[i]
  BY DEF MemInv, FreeList
<1>3. /\ c.addr \in Nat /\ Top(c) \in Nat /\ a \in Nat /\ c.addr <= a /\ a < Top(c)
  BY <1>1, <1>2, ApartBytes
<1>4. n \in Nat \ {0}
  BY MemoryAssumption
<1>5. b \in Blk /\ b.addr = a /\ Top(b) = a + n
  BY <1>0, <1>3, <1>4 DEF Block, Blk, Top
<1>6. PICK k \in 0 .. Len(memlist) : k = Passed(b)
  BY <1>5, PassedStops
<1>7. /\ \A j \in 1 .. k : memlist[j].addr < a
      /\ k < Len(memlist) => memlist[k + 1].addr >= a
  BY <1>5, <1>6, PassedStops
<1>8. /\ k > 0 => ~(a < Top(memlist[k]))
      /\ k < Len(memlist) => ~(Top(b) > memlist[k + 1].addr)
  BY <1>5, <1>6 DEF Refused
<1>9. /\ DOMAIN memlist = 1 .. Len(memlist) /\ Len(memlist) \in Nat /\ i \in 1 .. Len(memlist)
      /\ k \in Nat /\ k <= Len(memlist) /\ i \in Nat
      /\ \A j \in DOMAIN memlist : memlist[j] \in Blk
      /\ \A j, l \in DOMAIN memlist : j < l => Top(memlist[j]) < memlist[l].addr
  BY DEF MemInv, FreeList
<1>10. \A j \in DOMAIN memlist : memlist[j].addr \in Nat /\ Top(memlist[j]) \in Nat /\ memlist[j].addr < Top(memlist[j])
  BY <1>9, ApartBytes
<1>11. CASE i <= k
  <2>1. k > 0 /\ k \in DOMAIN memlist
    BY <1>9, <1>11
  <2>2. Top(c) <= Top(memlist[k])
    <3>1. CASE i = k
      BY <1>2, <1>3, <3>1
    <3>2. CASE i < k
      <4>1. Top(memlist[i]) < memlist[k].addr
        BY <1>9, <2>1, <3>2
      <4> QED BY <1>2, <1>3, <1>10, <2>1, <4>1
    <3> QED BY <1>9, <1>11, <3>1, <3>2
  <2> QED BY <1>3, <1>8, <1>10, <2>1, <2>2
<1>12. CASE i = k + 1
  <2>1. k < Len(memlist) /\ c.addr = a
    BY <1>2, <1>3, <1>7, <1>9, <1>12
  <2>2. ~(Top(b) > c.addr)
    BY <1>2, <1>8, <1>12, <2>1
  <2> QED BY <1>3, <1>4, <1>5, <2>1, <2>2
<1>13. CASE i > k + 1
  <2>1. PICK l \in DOMAIN memlist : l = k + 1 /\ l < i
    BY <1>9, <1>13
  <2>2. k < Len(memlist)
    BY <1>9, <1>13
  <2>3. memlist[l].addr >= a
    BY <1>7, <2>1, <2>2
  <2>4. Top(memlist[l]) < c.addr
    BY <1>2, <1>9, <2>1
  <2> QED BY <1>3, <1>10, <2>3, <2>4
<1> QED BY <1>9, <1>11, <1>12, <1>13

\* A block that is freed goes between the two that the walk has found, joined
\* to those of them that it touches.
LEMMA FreedKeeps ==
    ASSUME MemInv, NEW b \in blocks, Freemem(b)
    PROVE  MemInv' /\ blocks' = blocks \ {b}
<1>1. /\ FreeList(memlist) /\ memlist \in Seq(Blk)
      /\ DOMAIN memlist = 1 .. Len(memlist) /\ Len(memlist) \in Nat
      /\ \A j \in DOMAIN memlist : memlist[j] \in Blk
      /\ \A j, l \in DOMAIN memlist : j < l => Top(memlist[j]) < memlist[l].addr
      /\ \A c \in blocks : c \in Blk
      /\ b \in Blk
  BY DEF MemInv, FreeList
<1>2. /\ memlist' = WithFree(b) /\ mlength' = mlength + b.len /\ blocks' = blocks \ {b}
  BY DEF Freemem
<1>3. PICK k \in 0 .. Len(memlist) :
         /\ k = Passed(b)
         /\ \A i \in 1 .. k : memlist[i].addr < b.addr
         /\ k < Len(memlist) => memlist[k + 1].addr >= b.addr
  BY <1>1, PassedStops
<1>4. k \in Nat /\ k <= Len(memlist)
  BY <1>1
<1>5. \A j \in DOMAIN memlist : memlist[j].addr \in Nat /\ Top(memlist[j]) \in Nat /\ memlist[j].addr < Top(memlist[j])
  BY <1>1, ApartBytes
<1>6. b.addr \in Nat /\ Top(b) \in Nat /\ b.addr < Top(b) /\ Top(b) = b.addr + b.len
      /\ b.len \in Nat
  BY <1>1, ApartBytes
<1>7. \A j \in DOMAIN memlist : Top(b) <= memlist[j].addr \/ Top(memlist[j]) <= b.addr
  BY DEF MemInv, Apart
<1>8. k > 0 => k \in DOMAIN memlist /\ Top(memlist[k]) <= b.addr
  <2> SUFFICES ASSUME k > 0 PROVE k \in DOMAIN memlist /\ Top(memlist[k]) <= b.addr
    OBVIOUS
  <2>1. k \in 1 .. k /\ k \in DOMAIN memlist
    BY <1>1, <1>4
  <2>2. memlist[k].addr < b.addr
    BY <1>3, <2>1
  <2> QED BY <1>5, <1>6, <1>7, <2>1, <2>2
<1>9. k < Len(memlist) => k + 1 \in DOMAIN memlist /\ Top(b) <= memlist[k + 1].addr
  <2> SUFFICES ASSUME k < Len(memlist) PROVE k + 1 \in DOMAIN memlist /\ Top(b) <= memlist[k + 1].addr
    OBVIOUS
  <2>1. PICK l \in DOMAIN memlist : l = k + 1
    BY <1>1, <1>4
  <2>2. memlist[l].addr >= b.addr
    BY <1>3, <2>1
  <2>3. ~(Top(memlist[l]) <= b.addr)
    BY <1>5, <1>6, <2>1, <2>2
  <2>4. Top(b) <= memlist[l].addr
    BY <1>7, <2>3
  <2> QED BY <2>1, <2>4
<1>10. PICK prev \in BOOLEAN : prev <=> k > 0 /\ Top(memlist[k]) = b.addr
  OBVIOUS
<1>11. PICK next \in BOOLEAN : next <=> k < Len(memlist) /\ Top(b) = memlist[k + 1].addr
  OBVIOUS
<1>12. PICK lo \in 0 .. Len(memlist) : lo = IF prev THEN k - 1 ELSE k
  BY <1>1, <1>4, <1>10
<1>13. PICK hi \in lo + 1 .. Len(memlist) + 1 : hi = IF next THEN k + 2 ELSE k + 1
  BY <1>1, <1>4, <1>11, <1>12
<1>14. PICK low \in Nat : low = IF prev THEN memlist[k].addr ELSE b.addr
  BY <1>5, <1>6, <1>8, <1>10
<1>15. PICK high \in Nat : high = IF next THEN Top(memlist[k + 1]) ELSE Top(b)
  BY <1>5, <1>6, <1>9, <1>11
<1>16. low <= b.addr /\ Top(b) <= high
  <2>1. low <= b.addr
    <3>1. CASE prev
      BY <1>5, <1>6, <1>8, <1>10, <1>14, <3>1
    <3>2. CASE ~prev
      BY <1>6, <1>14, <3>2
    <3> QED BY <3>1, <3>2
  <2>2. Top(b) <= high
    <3>1. CASE next
      BY <1>5, <1>6, <1>9, <1>11, <1>15, <3>1
    <3>2. CASE ~next
      BY <1>6, <1>15, <3>2
    <3> QED BY <3>1, <3>2
  <2> QED BY <2>1, <2>2
<1>17. PICK e : e = Block(low, high - low)
  OBVIOUS
<1>18. e \in Blk /\ e.addr = low /\ Top(e) = high
  <2>1. high - low \in Nat \ {0}
    BY <1>6, <1>16
  <2>2. e.addr = low /\ e.len = high - low
    BY <1>17 DEF Block
  <2>3. e \in Blk
    BY <1>17, <2>1 DEF Block, Blk
  <2>4. low + (high - low) = high
    OBVIOUS
  <2> QED BY <2>2, <2>3, <2>4 DEF Top
<1>19. Spliced(memlist', memlist, lo, hi, e)
  <2>1. memlist' = SubSeq(memlist, 1, lo) \o <<e>> \o SubSeq(memlist, hi, Len(memlist))
    BY <1>2, <1>3, <1>10, <1>11, <1>12, <1>13, <1>14, <1>15, <1>17, Zenon DEF WithFree
  <2> QED BY <1>1, <1>18, <2>1, SplicedElements, SMTT(60)
<1>20. lo > 0 => lo \in DOMAIN memlist /\ Top(memlist[lo]) < low
  <2> SUFFICES ASSUME lo > 0 PROVE lo \in DOMAIN memlist /\ Top(memlist[lo]) < low
    OBVIOUS
  <2>1. lo \in DOMAIN memlist /\ lo <= k /\ k > 0 /\ k \in DOMAIN memlist
    BY <1>1, <1>4, <1>12
  <2>2. CASE prev
    <3>1. lo < k
      BY <1>4, <1>12, <2>2
    <3> QED BY <1>1, <1>14, <2>1, <2>2, <3>1
  <2>3. CASE ~prev
    <3>1. lo = k /\ Top(memlist[k]) # b.addr /\ low = b.addr
      BY <1>10, <1>12, <1>14, <2>1, <2>3
    <3>2. Top(memlist[k]) <= b.addr /\ Top(memlist[k]) \in Nat
      BY <1>5, <1>8, <2>1
    <3>3. Top(memlist[k]) < low
      BY <1>6, <3>1, <3>2
    <3> QED BY <2>1, <3>1, <3>3
  <2> QED BY <2>2, <2>3
<1>21. hi <= Len(memlist) => hi \in DOMAIN memlist /\ high < memlist[hi].addr
  <2> SUFFICES ASSUME hi <= Len(memlist) PROVE hi \in DOMAIN memlist /\ high < memlist[hi].addr
    OBVIOUS
  <2>1. hi \in DOMAIN memlist /\ k + 1 <= hi /\ k < Len(memlist)
    BY <1>1, <1>4, <1>13
  <2>2. PICK l \in DOMAIN memlist : l = k + 1
    BY <1>9, <2>1
  <2>3. CASE next
    <3>1. l < hi
      BY <1>4, <1>13, <2>2, <2>3
    <3> QED BY <1>1, <1>15, <2>1, <2>2, <2>3, <3>1
  <2>4. CASE ~next
    <3>1. hi = l /\ Top(b) # memlist[l].addr /\ high = Top(b)
      BY <1>11, <1>13, <1>15, <2>1, <2>2, <2>4
    <3>2. Top(b) <= memlist[l].addr /\ memlist[l].addr \in Nat
      BY <1>5, <1>9, <2>1, <2>2
    <3>3. high < memlist[l].addr
      BY <1>6, <3>1, <3>2
    <3> QED BY <2>1, <3>1, <3>3
  <2> QED BY <2>3, <2>4
<1>22. /\ FreeList(memlist')
       /\ \E i \in DOMAIN memlist' : memlist'[i] = e
       /\ \A i \in DOMAIN memlist' : \/ memlist'[i] = e
                                     \/ \E j \in DOMAIN memlist : memlist'[i] = memlist[j] /\ (j <= lo \/ j >= hi)
       /\ \A j \in DOMAIN memlist : j <= lo \/ j >= hi => \E i \in DOMAIN memlist' : memlist'[i] = memlist[j]
  <2>1. PICK r : r = memlist'
    OBVIOUS
  <2>2. PICK m : m = memlist
    OBVIOUS
  <2>3. /\ FreeList(m) /\ Spliced(r, m, lo, hi, e)
        /\ lo \in 0 .. Len(m) /\ hi \in lo + 1 .. Len(m) + 1
        /\ lo > 0 => Top(m[lo]) < e.addr
        /\ hi <= Len(m) => Top(e) < m[hi].addr
    BY <1>1, <1>18, <1>19, <1>20, <1>21, <2>1, <2>2
  <2>4. /\ FreeList(r)
        /\ \E i \in DOMAIN r : r[i] = e
        /\ \A i \in DOMAIN r : r[i] = e \/ \E j \in DOMAIN m : r[i] = m[j] /\ (j <= lo \/ j >= hi)
        /\ \A j \in DOMAIN m : j <= lo \/ j >= hi => \E i \in DOMAIN r : r[i] = m[j]
    BY <1>18, <2>3, SplicedList
  <2> QED BY <2>1, <2>2, <2>4
<1>23. \A x : x \in Bytes(e) <=> x \in Nat /\ low <= x /\ x < high
  BY <1>18, ApartBytes
<1>24. \A x : x \in Bytes(b) <=> x \in Nat /\ b.addr <= x /\ x < Top(b)
  BY <1>1, ApartBytes
<1>25. prev => \A x : x \in Bytes(memlist[k]) <=> x \in Nat /\ low <= x /\ x < b.addr
  <2>1. prev => k \in DOMAIN memlist /\ memlist[k] \in Blk /\ Top(memlist[k]) = b.addr /\ memlist[k].addr = low
    BY <1>1, <1>8, <1>10, <1>14
  <2> QED BY <2>1, ApartBytes
<1>26. next => \A x : x \in Bytes(memlist[k + 1]) <=> x \in Nat /\ Top(b) <= x /\ x < high
  <2>1. next => k + 1 \in DOMAIN memlist /\ memlist[k + 1] \in Blk /\ Top(memlist[k + 1]) = high /\ memlist[k + 1].addr = Top(b)
    BY <1>1, <1>9, <1>11, <1>15
  <2>2. CASE next
    <3>1. PICK c \in Blk : c = memlist[k + 1]
      BY <2>1, <2>2
    <3> QED BY <2>1, <2>2, <3>1, ApartBytes
  <2> QED BY <2>2
<1>27. \A x : x \in Bytes(e) <=> \/ x \in Bytes(b)
                                 \/ prev /\ x \in Bytes(memlist[k])
                                 \/ next /\ x \in Bytes(memlist[k + 1])
  <2> SUFFICES ASSUME NEW x
               PROVE  x \in Bytes(e) <=> \/ x \in Bytes(b)
                                         \/ prev /\ x \in Bytes(memlist[k])
                                         \/ next /\ x \in Bytes(memlist[k + 1])
    OBVIOUS
  <2>1. ~prev => low = b.addr
    BY <1>14
  <2>2. ~next => high = Top(b)
    BY <1>15
  <2>3. x \in Bytes(e) <=> x \in Nat /\ low <= x /\ x < high
    BY <1>23
  <2>4. x \in Bytes(b) <=> x \in Nat /\ b.addr <= x /\ x < Top(b)
    BY <1>24
  <2>5. prev => (x \in Bytes(memlist[k]) <=> x \in Nat /\ low <= x /\ x < b.addr)
    BY <1>25
  <2>6. next => (x \in Bytes(memlist[k + 1]) <=> x \in Nat /\ Top(b) <= x /\ x < high)
    BY <1>26
  <2>7. CASE x \in Nat
    <3>1. CASE prev
      <4>1. CASE next
        BY <1>6, <1>16, <2>3, <2>4, <2>5, <2>6, <2>7, <3>1, <4>1
      <4>2. CASE ~next
        BY <1>6, <1>16, <2>2, <2>3, <2>4, <2>5, <2>7, <3>1, <4>2
      <4> QED BY <4>1, <4>2
    <3>2. CASE ~prev
      <4>1. CASE next
        BY <1>6, <1>16, <2>1, <2>3, <2>4, <2>6, <2>7, <3>2, <4>1
      <4>2. CASE ~next
        BY <2>1, <2>2, <2>3, <2>4, <2>7, <3>2, <4>2
      <4> QED BY <4>1, <4>2
    <3> QED BY <3>1, <3>2
  <2>8. CASE x \notin Nat
    BY <2>3, <2>4, <2>5, <2>6, <2>8
  <2> QED BY <2>7, <2>8
<1>28. \A j \in DOMAIN memlist : \/ j <= lo \/ j >= hi
                                 \/ prev /\ j = k
                                 \/ next /\ j = k + 1
  BY <1>1, <1>4, <1>12, <1>13
<1>29. \A x : x \in FreeBytes' <=> x \in FreeBytes \/ x \in Bytes(b)
  <2>1. ASSUME NEW x \in FreeBytes' PROVE x \in FreeBytes \/ x \in Bytes(b)
    <3>1. PICK i \in DOMAIN memlist' : x \in Bytes(memlist'[i])
      BY <2>1, FreeByteIs
    <3>2. CASE memlist'[i] = e
      <4>1. prev => k \in DOMAIN memlist
        BY <1>8, <1>10
      <4>2. next => k + 1 \in DOMAIN memlist
        BY <1>9, <1>11
      <4> QED BY <1>27, <3>1, <3>2, <4>1, <4>2, FreeByteIs
    <3>3. CASE \E j \in DOMAIN memlist : memlist'[i] = memlist[j]
      BY <3>1, <3>3, FreeByteIs
    <3> QED BY <1>22, <3>2, <3>3
  <2>2. ASSUME NEW x, x \in Bytes(e) PROVE x \in FreeBytes'
    BY <1>22, <2>2, FreeByteIs
  <2>3. ASSUME NEW x \in FreeBytes PROVE x \in FreeBytes'
    <3>1. PICK j \in DOMAIN memlist : x \in Bytes(memlist[j])
      BY <2>3, FreeByteIs
    <3>2. CASE j <= lo \/ j >= hi
      BY <1>22, <3>1, <3>2, FreeByteIs
    <3>3. CASE (prev /\ j = k) \/ (next /\ j = k + 1)
      <4>1. x \in Bytes(e)
        BY <1>27, <3>1, <3>3
      <4> QED BY <2>2, <4>1
    <3> QED BY <1>28, <3>2, <3>3
  <2> QED BY <1>27, <2>1, <2>2, <2>3
<1>30. \A x : x \in HeldBytes <=> x \in HeldBytes' \/ x \in Bytes(b)
  BY <1>2, FreeByteIs
<1>31. FreeBytes \cap Bytes(b) = {}
  <2>1. ASSUME NEW j \in DOMAIN memlist PROVE Bytes(memlist[j]) \cap Bytes(b) = {}
    <3>1. Apart(b, memlist[j]) /\ memlist[j] \in Blk
      BY <1>1 DEF MemInv
    <3> QED BY <1>1, <3>1, ApartBytes
  <2> QED BY <2>1, FreeByteIs
<1>32. (FreeBytes \cup HeldBytes = HeapBytes)'
  <2>1. FreeBytes \cup HeldBytes = HeapBytes
    BY DEF MemInv
  <2>2. \A x : x \in FreeBytes' \cup HeldBytes' <=> x \in FreeBytes \cup HeldBytes
    BY <1>29, <1>30
  <2>3. HeapBytes' = HeapBytes
    BY DEF HeapBytes, Bytes, Top
  <2>4. FreeBytes' \cup HeldBytes' = FreeBytes \cup HeldBytes
    BY <2>2
  <2> QED BY <2>1, <2>3, <2>4
<1>33. IsFiniteSet(FreeBytes') /\ mlength' = Cardinality(FreeBytes')
  <2>1. FreeBytes' = FreeBytes \cup Bytes(b)
    BY <1>29
  <2>2. IsFiniteSet(FreeBytes) /\ mlength = Cardinality(FreeBytes)
    BY DEF MemInv
  <2>3. IsFiniteSet(Bytes(b)) /\ Cardinality(Bytes(b)) = b.len
    BY <1>1, ApartBytes
  <2>4. /\ IsFiniteSet(FreeBytes \cup Bytes(b))
        /\ Cardinality(FreeBytes \cup Bytes(b))
              = Cardinality(FreeBytes) + Cardinality(Bytes(b)) - Cardinality(FreeBytes \cap Bytes(b))
    BY <2>2, <2>3, FS_Union
  <2>5. Cardinality(FreeBytes \cap Bytes(b)) = 0
    BY <1>31, FS_EmptySet
  <2>6. Cardinality(FreeBytes) \in Nat
    BY <2>2, FS_CardinalityType
  <2> QED BY <1>2, <1>6, <2>1, <2>2, <2>3, <2>4, <2>5, <2>6
<1>34. ASSUME NEW c \in blocks' PROVE Apart(c, e)
  <2>1. c \in blocks /\ c # b /\ c \in Blk
    BY <1>1, <1>2
  <2>2. c.addr \in Nat /\ Top(c) \in Nat /\ c.addr < Top(c)
    BY <2>1, ApartBytes
  <2>3. Top(c) <= b.addr \/ Top(b) <= c.addr
    BY <2>1 DEF MemInv, Apart
  <2>4. CASE Top(c) <= b.addr
    <3>1. Top(c) <= low
      <4>1. CASE prev
        <5>1. k \in DOMAIN memlist /\ Top(memlist[k]) = b.addr /\ memlist[k].addr = low
          BY <1>8, <1>10, <1>14, <4>1
        <5>2. Top(c) <= memlist[k].addr \/ Top(memlist[k]) <= c.addr
          BY <2>1, <5>1 DEF MemInv, Apart
        <5> QED BY <1>6, <2>2, <2>4, <5>1, <5>2
      <4>2. CASE ~prev
        BY <1>14, <2>4, <4>2
      <4> QED BY <4>1, <4>2
    <3> QED BY <1>18, <3>1 DEF Apart
  <2>5. CASE Top(b) <= c.addr
    <3>1. high <= c.addr
      <4>1. CASE next
        <5>1. PICK l \in DOMAIN memlist : l = k + 1
          BY <1>9, <1>11, <4>1
        <5>2. memlist[l].addr = Top(b) /\ Top(memlist[l]) = high
          BY <1>11, <1>15, <4>1, <5>1
        <5>3. Top(c) <= memlist[l].addr \/ Top(memlist[l]) <= c.addr
          BY <2>1, <5>1 DEF MemInv, Apart
        <5> QED BY <1>6, <2>2, <2>5, <5>2, <5>3
      <4>2. CASE ~next
        BY <1>15, <2>5, <4>2
      <4> QED BY <4>1, <4>2
    <3> QED BY <1>18, <3>1 DEF Apart
  <2> QED BY <2>3, <2>4, <2>5
<1>35. \A c \in blocks' : \A i \in DOMAIN memlist' : Apart(c, memlist'[i])
  BY <1>2, <1>22, <1>34 DEF MemInv
<1>36. blocks' \subseteq Blk /\ \A c, d \in blocks' : c # d => Apart(c, d)
  BY <1>2 DEF MemInv
<1> QED BY <1>2, <1>22, <1>32, <1>33, <1>35, <1>36 DEF MemInv

\* What the theorems say of the heap: no region of it touches the next, and
\* the sum that meminit makes of their lengths is the number of their bytes.
HeapOK ==
    /\ \A i, j \in DOMAIN Heap : i < j => Top(Heap[i]) < Heap[j].addr
    /\ HeapLength = Cardinality(HeapBytes)

\* The heap is a free list at the start, and no block of it is held.
LEMMA MemoryInitInv ==
    ASSUME HeapOK, MemoryInit
    PROVE  MemInv
<1>1. /\ memlist = Heap /\ mlength = HeapLength /\ blocks = {}
      /\ Heap \in Seq([addr : Nat \ {0}, len : Nat \ {0}])
  BY MemoryAssumption DEF MemoryInit
<1>2. Heap \in Seq(Blk) /\ DOMAIN Heap = 1 .. Len(Heap) /\ Len(Heap) \in Nat
  <2>1. [addr : Nat \ {0}, len : Nat \ {0}] \subseteq Blk
    BY DEF Blk
  <2>2. DOMAIN Heap = 1 .. Len(Heap) /\ Len(Heap) \in Nat
    BY <1>1
  <2>3. Heap = [i \in 1 .. Len(Heap) |-> Heap[i]]
    BY <1>1
  <2>4. \A i \in 1 .. Len(Heap) : Heap[i] \in Blk
    <3>1. PICK S : S = [addr : Nat \ {0}, len : Nat \ {0}]
      OBVIOUS
    <3>2. Heap \in Seq(S) /\ S \subseteq Blk
      BY <1>1, <2>1, <3>1
    <3> QED BY <2>2, <3>2
  <2>5. [i \in 1 .. Len(Heap) |-> Heap[i]] \in Seq(Blk)
    BY <2>2, <2>4
  <2> QED BY <2>2, <2>3, <2>5
<1>3. FreeList(memlist)
  BY <1>1, <1>2 DEF FreeList, HeapOK
<1>4. FreeBytes = HeapBytes /\ HeldBytes = {}
  BY <1>1 DEF FreeBytes, HeapBytes, HeldBytes
<1>5. IsFiniteSet(HeapBytes)
  <2>0. \A i \in DOMAIN Heap : Heap[i] \in Blk
    BY <1>2
  <2>1. HeapBytes \subseteq Nat
    BY <2>0, ApartBytes DEF HeapBytes
  <2>2. CASE Len(Heap) = 0
    <3>1. HeapBytes = {}
      BY <1>2, <2>2 DEF HeapBytes
    <3> QED BY <3>1, FS_EmptySet
  <2>3. CASE Len(Heap) # 0
    <3>1. PICK l \in DOMAIN Heap : l = Len(Heap)
      BY <1>2, <2>3
    <3>2. ASSUME NEW x \in HeapBytes PROVE x <= Top(Heap[l])
      <4>1. PICK i \in DOMAIN Heap : x \in Bytes(Heap[i])
        BY <3>2 DEF HeapBytes
      <4>2. x \in Nat /\ x < Top(Heap[i]) /\ Top(Heap[i]) \in Nat
        BY <2>0, <4>1, ApartBytes
      <4>3. Heap[l].addr \in Nat /\ Top(Heap[l]) \in Nat /\ Heap[l].addr < Top(Heap[l])
        BY <2>0, ApartBytes
      <4>4. i \in Nat /\ l \in Nat /\ i <= l
        BY <1>2, <3>1
      <4>5. CASE i = l
        BY <4>2, <4>3, <4>5
      <4>6. CASE i < l
        <5>1. Top(Heap[i]) < Heap[l].addr
          BY <4>6 DEF HeapOK
        <5> QED BY <4>2, <4>3, <5>1
      <4> QED BY <4>4, <4>5, <4>6
    <3>3. Top(Heap[l]) \in Nat
      BY <2>0, ApartBytes
    <3> QED BY <2>1, <3>2, <3>3, FS_BoundedSetOfNaturals
  <2> QED BY <2>2, <2>3
<1> QED BY <1>1, <1>3, <1>4, <1>5 DEF MemInv, HeapOK

\* The invariant says what is wanted of memory.
LEMMA MemInvConserves ==
    ASSUME MemInv
    PROVE  MemoryConserved
<1>1. /\ memlist \in Seq(Blk) /\ DOMAIN memlist = 1 .. Len(memlist) /\ Len(memlist) \in Nat
      /\ \A i \in DOMAIN memlist : memlist[i] \in Blk
      /\ \A i, j \in DOMAIN memlist : i < j => Top(memlist[i]) < memlist[j].addr
      /\ \A b \in blocks : b \in Blk
  BY DEF MemInv, FreeList
<1>2. ListJoined
  <2>1. \A i \in DOMAIN memlist : memlist[i].len > 0
    BY <1>1, ApartBytes
  <2>2. ASSUME NEW i \in 1 .. Len(memlist) - 1 PROVE Top(memlist[i]) < memlist[i + 1].addr
    <3>1. i \in DOMAIN memlist /\ i + 1 \in DOMAIN memlist /\ i < i + 1
      BY <1>1
    <3> QED BY <1>1, <3>1
  <2> QED BY <2>1, <2>2 DEF ListJoined
<1>3. ASSUME NEW x \in FreeBytes, x \in HeldBytes PROVE FALSE
  <2>1. PICK i \in DOMAIN memlist : x \in Bytes(memlist[i])
    BY <1>3, FreeByteIs
  <2>2. PICK b \in blocks : x \in Bytes(b)
    BY <1>3, FreeByteIs
  <2>3. Apart(b, memlist[i])
    BY DEF MemInv
  <2> QED BY <1>1, <2>1, <2>2, <2>3, ApartBytes
<1>4. \A b, c \in blocks : b # c => Bytes(b) \cap Bytes(c) = {}
  BY <1>1, ApartBytes DEF MemInv
<1> QED BY <1>2, <1>3, <1>4 DEF MemoryConserved, MemInv

\* A call of the allocator takes a new block, or frees one that is held.
LEMMA MemoryKeeps ==
    ASSUME MemInv, MemoryNext
    PROVE  /\ MemInv'
           /\ \/ \E t, n : Taken(t, n)
              \/ \E b \in blocks : blocks' = blocks \ {b}
<1>1. ASSUME NEW n \in Sizes, Getmem(n) \/ Getstk(n)
      PROVE  MemInv' /\ \E t : Taken(t, n)
  <2>1. n \in Nat \ {0}
    BY MemoryAssumption
  <2>2. PICK t : Taken(t, n)
    BY <1>1, <2>1, GetmemTakes
  <2> QED BY <2>2 DEF Taken
<1>2. ASSUME NEW b \in MayFree, Freemem(b)
      PROVE  MemInv' /\ \E c \in blocks : blocks' = blocks \ {c}
  <2>1. ~Refused(b)
    BY <1>2 DEF Freemem
  <2>2. b \in blocks
    BY <2>1, FreedTwiceRefused
  <2> QED BY <1>2, <2>2, FreedKeeps
<1> QED BY <1>1, <1>2 DEF MemoryNext

\* Calls that do not use memory keep it as it is.
LEMMA MemoryStays ==
    ASSUME MemInv, UNCHANGED memvars
    PROVE  MemInv'
  BY DEF MemInv, memvars, FreeBytes, HeldBytes, HeapBytes, Bytes, Top

\* The allocator by itself.
MemorySpec == MemoryInit /\ [][MemoryNext]_memvars

\* Memory is free or held by one caller, the free list is joined and in order,
\* and mlength counts its bytes, whatever is freed twice.
THEOREM MemoryKept ==
    ASSUME HeapOK
    PROVE  MemorySpec => []MemoryConserved
<1>1. MemoryInit => MemInv
  BY MemoryInitInv
<1>2. MemInv /\ [MemoryNext]_memvars => MemInv'
  BY MemoryKeeps, MemoryStays
<1>3. MemInv => MemoryConserved
  BY MemInvConserves
<1> QED BY <1>1, <1>2, <1>3, PTL DEF MemorySpec
-----------------------------------------------------------------------------
\* Buffer pools.

PoolsSpec == PoolsInit /\ [][PoolsNext]_poolvars

BpEntry == [bpnext : Queue(Nat),
            bpsem  : [count : Int, line : Queue(User)],
            memory : Blk]

\* Who the semaphore of a pool has let in, in the terms of the pool.
Admitted(i) ==
    {p \in User : bpcall[p] = BpGet(i) /\ p \notin InLine(buftab[i].bpsem)}

\* Processes in line are in a call on the pool; there is a buffer for every
\* unit and for everyone who has been let in; and the list has buffers of the
\* memory of the pool.
PoolOK(i) ==
    /\ SemOK(buftab[i].bpsem, User)
    /\ \A p \in InLine(buftab[i].bpsem) : bpcall[p] = BpGet(i)
    /\ Units(buftab[i].bpsem) + Cardinality(Admitted(i)) <= Len(buftab[i].bpnext)
    /\ Range(buftab[i].bpnext) \subseteq Bytes(buftab[i].memory)

\* A buffer that is held is of the memory of some pool, is not on the list of
\* it, and no other process holds it.
HoldsOK ==
    /\ holds \in [User -> SUBSET Nat]
    /\ \A p \in User : \A x \in holds[p] : \E i \in Pool : x \in Bytes(buftab[i].memory)
    /\ \A p \in User : \A i \in Pool : Range(buftab[i].bpnext) \cap holds[p] = {}
    /\ \A p, q \in User : p # q => holds[p] \cap holds[q] = {}

\* Stacks and the memory of pools are blocks that are held, each once.
OwnersOK ==
    /\ stack \in [User -> Blk \cup {NoBlock}]
    /\ \A p \in User : Alive(p) => stack[p] \in blocks
    /\ \A i \in Pool : buftab[i].memory \in blocks
    /\ \A p, q \in User : p # q /\ Alive(p) => stack[p] # stack[q]
    /\ \A i, j \in Pool : i # j => buftab[i].memory # buftab[j].memory
    /\ \A p \in User : \A i \in Pool : stack[p] # buftab[i].memory

PoolsInv ==
    /\ MemInv /\ OwnersOK /\ HoldsOK
    /\ buftab \in Seq(BpEntry)
    /\ bpcall \in [User -> {BpIdle} \cup {BpGet(i) : i \in Pool}]
    /\ \A i \in Pool : PoolOK(i)

\* What the parts of the table are, and that the memory of pools is apart.
LEMMA PoolFacts ==
    ASSUME PoolsInv
    PROVE  /\ Pool = DOMAIN buftab /\ Len(buftab) \in Nat /\ Pool = 1 .. Len(buftab)
           /\ \A i \in Pool :
                 /\ buftab[i] \in BpEntry
                 /\ buftab[i] = [bpnext |-> buftab[i].bpnext, bpsem |-> buftab[i].bpsem,
                                 memory |-> buftab[i].memory]
                 /\ buftab[i].bpnext \in Queue(Nat)
                 /\ buftab[i].memory \in Blk
                 /\ SemOK(buftab[i].bpsem, User)
           /\ \A i, j \in Pool :
                 i # j => Bytes(buftab[i].memory) \cap Bytes(buftab[j].memory) = {}
<1>1. Pool = DOMAIN buftab /\ Len(buftab) \in Nat /\ Pool = 1 .. Len(buftab)
  BY DEF PoolsInv, Pool
<1>2. ASSUME NEW i \in Pool
      PROVE  /\ buftab[i] \in BpEntry
             /\ buftab[i] = [bpnext |-> buftab[i].bpnext, bpsem |-> buftab[i].bpsem,
                             memory |-> buftab[i].memory]
             /\ buftab[i].bpnext \in Queue(Nat)
             /\ buftab[i].memory \in Blk
             /\ SemOK(buftab[i].bpsem, User)
  <2>1. buftab[i] \in BpEntry
    BY <1>1 DEF PoolsInv
  <2>2. SemOK(buftab[i].bpsem, User)
    BY DEF PoolsInv, PoolOK
  <2> QED BY <2>1, <2>2 DEF BpEntry
<1>3. ASSUME NEW i \in Pool, NEW j \in Pool, i # j
      PROVE  Bytes(buftab[i].memory) \cap Bytes(buftab[j].memory) = {}
  <2>1. Apart(buftab[i].memory, buftab[j].memory)
    BY <1>3 DEF PoolsInv, OwnersOK, MemInv
  <2> QED BY <1>2, <2>1, ApartBytes
<1> QED BY <1>1, <1>2, <1>3

\* Calls on different pools are different, and none is the idle one.
LEMMA BpCalls ==
    ASSUME NEW i, NEW j
    PROVE  /\ BpGet(i) # BpIdle /\ BpGet(i).op = "getbuf" /\ BpGet(i).pool = i
           /\ BpIdle.op # "getbuf"
           /\ BpGet(i) = BpGet(j) => i = j
  BY DEF BpGet, BpIdle

\* Those who have been let in, in the terms of the pool.
LEMMA EnteringIs ==
    ASSUME PoolsInv, NEW i \in Pool
    PROVE  Entering(i) = Admitted(i)
<1>1. ASSUME NEW p \in User
      PROVE  (LetIn(p) /\ bpcall[p].pool = i) <=> (bpcall[p] = BpGet(i) /\ p \notin InLine(buftab[i].bpsem))
  <2>1. bpcall[p] = BpIdle \/ \E j \in Pool : bpcall[p] = BpGet(j)
    BY DEF PoolsInv
  <2>2. CASE bpcall[p] = BpIdle
    BY <2>2, BpCalls DEF LetIn
  <2>3. CASE \E j \in Pool : bpcall[p] = BpGet(j)
    BY <2>3, BpCalls DEF LetIn
  <2> QED BY <2>1, <2>2, <2>3
<1> QED BY <1>1 DEF Entering, Admitted

\* The invariant says what is wanted of buffers.
LEMMA PoolsInvOwns ==
    ASSUME PoolsInv
    PROVE  BuffersOwned
<1>1. BufferForEveryUnit
  BY EnteringIs DEF BufferForEveryUnit, PoolsInv, PoolOK
<1>2. ASSUME NEW i \in Pool
      PROVE  /\ IsInjective(buftab[i].bpnext)
             /\ Range(buftab[i].bpnext) \subseteq Bytes(buftab[i].memory)
             /\ Range(buftab[i].bpnext) \cap Held = {}
  <2>1. IsInjective(buftab[i].bpnext)
    BY PoolFacts DEF Queue
  <2> QED BY <2>1, SMTT(60) DEF PoolsInv, PoolOK, HoldsOK, Held
<1> QED BY <1>1, <1>2 DEF BuffersOwned, PoolsInv, HoldsOK

\* At the start there is no pool, no stack and no buffer.
LEMMA PoolsInitInv ==
    ASSUME HeapOK, PoolsInit
    PROVE  PoolsInv
<1>1. /\ MemoryInit /\ buftab = <<>>
      /\ bpcall = [p \in User |-> BpIdle] /\ holds = [p \in User |-> {}]
      /\ stack = [p \in User |-> NoBlock]
  BY DEF PoolsInit
<1>2. MemInv
  BY <1>1, MemoryInitInv
<1>3. buftab \in Seq(BpEntry) /\ Pool = {}
  <2>1. Len(<<>>) = 0 /\ <<>> \in Seq(BpEntry)
    OBVIOUS
  <2> QED BY <1>1, <2>1 DEF Pool
<1>4. OwnersOK
  BY <1>1, <1>3 DEF OwnersOK, Alive
<1>5. HoldsOK
  BY <1>1, <1>3 DEF HoldsOK
<1> QED BY <1>1, <1>2, <1>3, <1>4, <1>5 DEF PoolsInv

\* A step of process p on pool i: it moves no memory and changes nothing that
\* other pools see.
PoolStep(p, i) ==
    /\ UNCHANGED <<memvars, stack>>
    /\ buftab' \in Seq(BpEntry) /\ Len(buftab') = Len(buftab)
    /\ \A j \in Pool : buftab'[j].memory = buftab[j].memory
    /\ \A j \in Pool : j # i => buftab'[j] = buftab[j]
    /\ bpcall' \in [User -> {BpIdle} \cup {BpGet(j) : j \in Pool}]
    /\ \A q \in User : q # p => bpcall'[q] = bpcall[q]
    /\ \A j \in Pool : bpcall[p] = BpGet(j) \/ bpcall'[p] = BpGet(j) => j = i

\* Who has which block is the same while no memory moves.
LEMMA OwnersStay ==
    ASSUME OwnersOK, UNCHANGED <<memvars, stack>>, Pool' = Pool,
           \A j \in Pool : buftab'[j].memory = buftab[j].memory
    PROVE  OwnersOK'
BY DEF OwnersOK, Alive, NoBlock, Block, memvars

\* Such a step keeps the invariant if it does so for the pool it is on.
LEMMA OtherPools ==
    ASSUME PoolsInv, NEW p \in User, NEW i \in Pool, PoolStep(p, i), PoolOK(i)', HoldsOK'
    PROVE  PoolsInv'
<1>1. Pool' = Pool
  BY DEF PoolStep, Pool
<1>2. MemInv' /\ OwnersOK'
  BY <1>1, MemoryStays, OwnersStay DEF PoolsInv, PoolStep
<1>3. bpcall' \in [User -> {BpIdle} \cup {BpGet(j) : j \in Pool'}]
  BY <1>1 DEF PoolStep
<1>4. ASSUME NEW j \in Pool, j # i PROVE PoolOK(j)'
  <2>1. buftab'[j] = buftab[j] /\ PoolOK(j)
    BY <1>4 DEF PoolStep, PoolsInv
  <2>2. \A q \in User : (bpcall'[q] = BpGet(j)) <=> (bpcall[q] = BpGet(j))
    BY <1>4 DEF PoolStep
  <2>3. Admitted(j)' = Admitted(j)
    BY <2>1, <2>2 DEF Admitted
  <2>4. InLine(buftab[j].bpsem) \subseteq User
    BY <2>1, NobodyInLine DEF PoolOK
  <2> QED BY <2>1, <2>2, <2>3, <2>4 DEF PoolOK
<1> QED BY <1>1, <1>2, <1>3, <1>4 DEF PoolsInv, PoolStep

\* The list of a pool with a buffer put in front of it.
LEMMA PushQueue ==
    ASSUME NEW S, NEW q \in Queue(S), NEW x \in S, x \notin Range(q)
    PROVE  /\ <<x>> \o q \in Queue(S)
           /\ Len(<<x>> \o q) = Len(q) + 1
           /\ Range(<<x>> \o q) = Range(q) \cup {x}
<1>1. q \in Seq(S) /\ DOMAIN q = 1 .. Len(q) /\ Len(q) \in Nat /\ IsInjective(q)
  BY DEF Queue
<1>2. PICK r : r = <<x>> \o q
  OBVIOUS
<1>3. <<x>> \in Seq(S) /\ Len(<<x>>) = 1 /\ <<x>>[1] = x
  OBVIOUS
<1>4. /\ r \in Seq(S) /\ Len(r) = 1 + Len(q)
      /\ \A j \in 1 .. 1 + Len(q) : r[j] = IF j <= 1 THEN <<x>>[j] ELSE q[j - 1]
  BY <1>1, <1>2, <1>3, ConcatProperties
<1>5. DOMAIN r = 1 .. Len(q) + 1 /\ Len(r) = Len(q) + 1
  BY <1>1, <1>4
<1>6. r[1] = x /\ \A j \in 2 .. Len(q) + 1 : j - 1 \in 1 .. Len(q) /\ r[j] = q[j - 1]
  BY <1>1, <1>3, <1>4
<1>7. \A j \in 1 .. Len(q) : j + 1 \in 2 .. Len(q) + 1 /\ r[j + 1] = q[j]
  <2> SUFFICES ASSUME NEW j \in 1 .. Len(q)
               PROVE  j + 1 \in 2 .. Len(q) + 1 /\ r[j + 1] = q[j]
    OBVIOUS
  <2>1. PICK k \in 2 .. Len(q) + 1 : k = j + 1
    BY <1>1
  <2>2. r[k] = q[k - 1] /\ k - 1 = j
    BY <1>1, <1>6, <2>1
  <2> QED BY <2>1, <2>2
<1>8. Range(r) = Range(q) \cup {x}
  <2>1. \A y \in Range(r) : y \in Range(q) \cup {x}
    <3> SUFFICES ASSUME NEW j \in 1 .. Len(q) + 1 PROVE r[j] \in Range(q) \cup {x}
      BY <1>5 DEF Range
    <3>1. CASE j = 1
      BY <1>6, <3>1
    <3>2. CASE j # 1
      <4>1. j \in 2 .. Len(q) + 1
        BY <1>1, <3>2
      <4> QED BY <1>1, <1>6, <4>1 DEF Range
    <3> QED BY <3>1, <3>2
  <2>2. \A y \in Range(q) \cup {x} : y \in Range(r)
    <3>1. x \in Range(r)
      BY <1>1, <1>5, <1>6 DEF Range
    <3>2. ASSUME NEW j \in 1 .. Len(q) PROVE q[j] \in Range(r)
      <4>1. j + 1 \in DOMAIN r /\ r[j + 1] = q[j]
        BY <1>1, <1>5, <1>7
      <4> QED BY <4>1 DEF Range
    <3> QED BY <1>1, <3>1, <3>2 DEF Range
  <2> QED BY <2>1, <2>2
<1>9. IsInjective(r)
  <2> SUFFICES ASSUME NEW j \in 1 .. Len(q) + 1, NEW k \in 1 .. Len(q) + 1, r[j] = r[k]
               PROVE  j = k
    BY <1>5 DEF IsInjective
  <2>1. ASSUME NEW l \in 2 .. Len(q) + 1 PROVE r[l] # x
    BY <1>1, <1>6, <2>1 DEF Range
  <2>2. CASE j = 1
    <3>1. ~(k \in 2 .. Len(q) + 1)
      BY <1>6, <2>1, <2>2
    <3> QED BY <1>1, <2>2, <3>1
  <2>3. CASE k = 1
    <3>1. ~(j \in 2 .. Len(q) + 1)
      BY <1>6, <2>1, <2>3
    <3> QED BY <1>1, <2>3, <3>1
  <2>4. CASE j # 1 /\ k # 1
    <3>1. /\ j \in 2 .. Len(q) + 1 /\ k \in 2 .. Len(q) + 1
      BY <1>1, <2>4
    <3>2. PICK a \in 1 .. Len(q) : a = j - 1 /\ r[j] = q[a]
      BY <1>6, <3>1
    <3>3. PICK b \in 1 .. Len(q) : b = k - 1 /\ r[k] = q[b]
      BY <1>6, <3>1
    <3>4. a = b
      BY <1>1, <3>2, <3>3 DEF IsInjective
    <3> QED BY <3>2, <3>3, <3>4
  <2> QED BY <2>2, <2>3, <2>4
<1> QED BY <1>2, <1>4, <1>5, <1>8, <1>9 DEF Queue

\* A table with one entry replaced.
LEMMA EntryReplaced ==
    ASSUME NEW S, NEW m \in Seq(S), NEW k \in DOMAIN m, NEW e \in S, NEW r, r = [m EXCEPT ![k] = e]
    PROVE  /\ r \in Seq(S) /\ Len(r) = Len(m) /\ DOMAIN r = DOMAIN m
           /\ \A j \in DOMAIN m : r[j] = IF j = k THEN e ELSE m[j]
OBVIOUS

\* A process whom the semaphore has let in takes the first buffer.
LEMMA UnlinkKeeps ==
    ASSUME PoolsInv, NEW p \in User, NEW i \in Pool, NEW w,
           SemOK(w, User), InLine(w) = InLine(buftab[i].bpsem), p \notin InLine(w),
           Units(w) + Cardinality(Admitted(i) \ {p}) + 1 <= Len(buftab[i].bpnext),
           bpcall[p] = BpIdle \/ bpcall[p] = BpGet(i),
           Unlink(p, i, [buftab[i] EXCEPT !.bpsem = w]), UNCHANGED <<memvars, stack>>
    PROVE  PoolsInv'
<1>1. PICK b : b = buftab[i]
  OBVIOUS
<1>2. /\ b = [bpnext |-> b.bpnext, bpsem |-> b.bpsem, memory |-> b.memory]
      /\ b.bpnext \in Queue(Nat) /\ b.memory \in Blk
      /\ PoolOK(i)
  BY <1>1, PoolFacts DEF PoolsInv
<1>3. PICK t : t = Tail(b.bpnext)
  OBVIOUS
<1>4. /\ Units(w) \in Nat /\ Cardinality(Admitted(i) \ {p}) \in Nat
      /\ b.bpnext # <<>>
  <2>1. Units(w) \in Nat
    BY UnitsAre
  <2>2. Admitted(i) \ {p} \subseteq User
    BY DEF Admitted
  <2>3. Cardinality(Admitted(i) \ {p}) \in Nat
    BY <2>2, PoolsAssumption, SubsetCard
  <2>4. Len(<<>>) = 0
    OBVIOUS
  <2>5. Len(b.bpnext) \in Nat /\ Len(b.bpnext) >= 1
    BY <1>1, <1>2, <2>1, <2>3 DEF Queue
  <2> QED BY <2>1, <2>3, <2>4, <2>5
<1>5. /\ Head(b.bpnext) \in Range(b.bpnext) /\ Head(b.bpnext) \in Nat
      /\ t \in Queue(Nat)
      /\ Len(t) = Len(b.bpnext) - 1
      /\ Range(t) = Range(b.bpnext) \ {Head(b.bpnext)}
  BY <1>2, <1>3, <1>4, DequeueQueue DEF IsEmpty
<1>6. PICK x \in Nat : x = Head(b.bpnext)
  BY <1>5
<1>7. PICK e : e = [bpnext |-> t, bpsem |-> w, memory |-> b.memory]
  OBVIOUS
<1>8. /\ buftab' = [buftab EXCEPT ![i] = e]
      /\ holds' = [holds EXCEPT ![p] = @ \cup {x}]
      /\ bpcall' = [bpcall EXCEPT ![p] = BpIdle]
  <2>1. PICK pool : pool = [b EXCEPT !.bpsem = w]
    OBVIOUS
  <2>2. pool = [bpnext |-> b.bpnext, bpsem |-> w, memory |-> b.memory]
    BY <1>2, <2>1
  <2>3. pool.bpnext = b.bpnext
    BY <2>2
  <2>4. [pool EXCEPT !.bpnext = t] = e
    BY <1>7, <2>2
  <2>5. /\ buftab' = [buftab EXCEPT ![i] = [pool EXCEPT !.bpnext = Tail(pool.bpnext)]]
        /\ holds' = [holds EXCEPT ![p] = @ \cup {Head(pool.bpnext)}]
        /\ bpcall' = [bpcall EXCEPT ![p] = BpIdle]
    BY <1>1, <2>1 DEF Unlink
  <2> QED BY <1>3, <1>6, <2>3, <2>4, <2>5
<1>9. e \in BpEntry /\ e.bpnext = t /\ e.bpsem = w /\ e.memory = b.memory
  <2>1. w \in [count : Int, line : Queue(User)]
    BY DEF SemOK
  <2> QED BY <1>2, <1>3, <1>5, <1>7, <2>1 DEF BpEntry
<1>10. /\ buftab' \in Seq(BpEntry) /\ Len(buftab') = Len(buftab)
       /\ \A j \in Pool : buftab'[j] = IF j = i THEN e ELSE buftab[j]
       /\ Pool' = Pool
  <2>1. buftab \in Seq(BpEntry) /\ Pool = DOMAIN buftab /\ i \in DOMAIN buftab
    BY PoolFacts DEF PoolsInv
  <2> QED BY <1>8, <1>9, <2>1, EntryReplaced DEF Pool
<1>11. /\ buftab'[i].bpnext = t /\ buftab'[i].bpsem = w
       /\ buftab'[i].memory = b.memory
       /\ \A j \in Pool : buftab'[j].memory = buftab[j].memory
  BY <1>1, <1>9, <1>10
<1>12. /\ \A q \in User : holds'[q] = IF q = p THEN holds[p] \cup {x} ELSE holds[q]
       /\ \A q \in User : bpcall'[q] = IF q = p THEN BpIdle ELSE bpcall[q]
       /\ holds' \in [User -> SUBSET Nat]
       /\ bpcall' \in [User -> {BpIdle} \cup {BpGet(j) : j \in Pool}]
  BY <1>8 DEF PoolsInv, HoldsOK
<1>13. Admitted(i)' \subseteq Admitted(i) \ {p}
  BY <1>12, <1>11, BpCalls DEF Admitted
<1>14. Units(w) + Cardinality(Admitted(i)') <= Len(t)
  <2>1. Admitted(i) \ {p} \subseteq User
    BY DEF Admitted
  <2>2. Cardinality(Admitted(i)') <= Cardinality(Admitted(i) \ {p}) /\ Cardinality(Admitted(i)') \in Nat
    <3>1. PICK S : S = Admitted(i)'
      OBVIOUS
    <3>2. S \subseteq User /\ S \subseteq Admitted(i) \ {p}
      BY <1>13, <2>1, <3>1
    <3> QED BY <2>1, <3>1, <3>2, PoolsAssumption, SubsetCard
  <2>3. Len(b.bpnext) \in Nat
    BY <1>2 DEF Queue
  <2> QED BY <1>1, <1>4, <1>5, <2>2, <2>3
<1>15. PoolOK(i)'
  <2>1. \A q \in InLine(w) : bpcall'[q] = BpGet(i)
    <3>1. InLine(w) \subseteq User
      BY NobodyInLine
    <3> QED BY <1>2, <1>12, <3>1 DEF PoolOK
  <2>2. Range(t) \subseteq Bytes(b.memory)
    BY <1>1, <1>2, <1>5 DEF PoolOK
  <2>3. Bytes(b.memory) = Bytes(buftab'[i].memory)
    BY <1>11
  <2> QED BY <1>11, <1>14, <2>1, <2>2, <2>3 DEF PoolOK, Bytes, Top
<1>16. HoldsOK'
  <2>1. ASSUME NEW q \in User, NEW j \in Pool
        PROVE  Range(buftab'[j].bpnext) \cap holds'[q] = {}
    <3>1. Range(buftab[j].bpnext) \cap holds[q] = {}
      BY DEF PoolsInv, HoldsOK
    <3>2. CASE j = i
      BY <1>1, <1>5, <1>6, <1>11, <1>12, <3>1, <3>2
    <3>3. CASE j # i
      <4>1. buftab'[j] = buftab[j]
        BY <1>10, <3>3
      <4>2. Range(buftab[j].bpnext) \subseteq Bytes(buftab[j].memory) /\ x \in Bytes(buftab[i].memory)
        BY <1>1, <1>2, <1>5, <1>6 DEF PoolsInv, PoolOK
      <4>3. x \notin Range(buftab[j].bpnext)
        BY <3>3, <4>2, PoolFacts
      <4> QED BY <1>12, <3>1, <4>1, <4>3
    <3> QED BY <3>2, <3>3
  <2>2. ASSUME NEW q \in User, NEW y \in holds'[q]
        PROVE  \E j \in Pool : y \in Bytes(buftab[j].memory)
    <3>1. CASE y \in holds[q]
      BY <3>1 DEF PoolsInv, HoldsOK
    <3>2. CASE y = x
      BY <1>1, <1>2, <1>5, <1>6, <3>2 DEF PoolOK
    <3> QED BY <1>12, <2>2, <3>1, <3>2
  <2>3. ASSUME NEW q \in User, NEW r \in User, q # r
        PROVE  holds'[q] \cap holds'[r] = {}
    <3>1. \A s \in User : x \notin holds[s]
      BY <1>1, <1>5, <1>6 DEF PoolsInv, HoldsOK
    <3>2. holds[q] \cap holds[r] = {}
      BY <2>3 DEF PoolsInv, HoldsOK
    <3> QED BY <1>12, <2>3, <3>1, <3>2
  <2>4. \A j \in Pool : Bytes(buftab[j].memory) = (Bytes(buftab[j].memory))'
    BY <1>11 DEF Bytes, Top
  <2>5. (\A q \in User : \A y \in holds[q] : \E j \in Pool : y \in Bytes(buftab[j].memory))'
    BY <1>10, <2>2, <2>4
  <2>6. (\A q \in User : \A j \in Pool : Range(buftab[j].bpnext) \cap holds[q] = {})'
    BY <1>10, <2>1
  <2>7. (\A q, r \in User : q # r => holds[q] \cap holds[r] = {})'
    BY <2>3
  <2> QED BY <1>12, <2>5, <2>6, <2>7 DEF HoldsOK
<1>17. PoolStep(p, i)
  BY <1>10, <1>11, <1>12, BpCalls DEF PoolStep
<1> QED BY <1>15, <1>16, <1>17, OtherPools

\* A process that the semaphore has let in runs again and takes its buffer.
LEMMA GetbufEndKeeps ==
    ASSUME PoolsInv, NEW p \in User, GetbufEnd(p)
    PROVE  PoolsInv'
<1>1. PICK i \in Pool : bpcall[p] = BpGet(i) /\ p \notin InLine(buftab[i].bpsem)
  <2>1. bpcall[p] = BpIdle \/ \E j \in Pool : bpcall[p] = BpGet(j)
    BY DEF PoolsInv
  <2> QED BY <2>1, BpCalls DEF GetbufEnd, LetIn
<1>2. PICK w : w = buftab[i].bpsem
  OBVIOUS
<1>3. SemOK(w, User) /\ PoolOK(i)
  BY <1>2, PoolFacts DEF PoolsInv
<1>4. Unlink(p, i, [buftab[i] EXCEPT !.bpsem = w]) /\ UNCHANGED <<memvars, stack>>
  <2>1. PICK b : b = buftab[i]
    OBVIOUS
  <2>2. b = [bpnext |-> b.bpnext, bpsem |-> b.bpsem, memory |-> b.memory]
    BY <2>1, PoolFacts
  <2>3. [b EXCEPT !.bpsem = w] = b
    BY <1>2, <2>1, <2>2
  <2>4. bpcall[p].pool = i
    BY <1>1, BpCalls
  <2>5. Unlink(p, i, b)
    BY <2>1, <2>4 DEF GetbufEnd
  <2> QED BY <2>1, <2>3, <2>5 DEF GetbufEnd
<1>5. Units(w) + Cardinality(Admitted(i) \ {p}) + 1 <= Len(buftab[i].bpnext)
  <2>1. p \in Admitted(i) /\ Admitted(i) \subseteq User
    BY <1>1 DEF Admitted
  <2>2. /\ Cardinality(Admitted(i) \ {p}) <= Cardinality(Admitted(i)) - 1
        /\ Cardinality(Admitted(i) \ {p}) \in Nat /\ Cardinality(Admitted(i)) \in Nat
    <3>1. PICK S : S = Admitted(i) \ {p}
      OBVIOUS
    <3>2. S \subseteq User /\ S \subseteq Admitted(i) \ {p}
      BY <2>1, <3>1
    <3> QED BY <2>1, <3>1, <3>2, PoolsAssumption, SubsetCard
  <2>3. Units(w) \in Nat /\ Len(buftab[i].bpnext) \in Nat
    BY <1>3, UnitsAre, PoolFacts DEF Queue
  <2>4. Units(w) + Cardinality(Admitted(i)) <= Len(buftab[i].bpnext)
    BY <1>2, <1>3 DEF PoolOK
  <2> QED BY <2>2, <2>3, <2>4
<1> QED BY <1>1, <1>2, <1>3, <1>4, <1>5, UnlinkKeeps

\* A step that changes only the semaphore of a pool, and one process.
LEMMA SemStepKeeps ==
    ASSUME PoolsInv, NEW p \in User, NEW i \in Pool, NEW w, SemOK(w, User),
           buftab' = [buftab EXCEPT ![i] = [buftab[i] EXCEPT !.bpsem = w]],
           bpcall' \in [User -> {BpIdle} \cup {BpGet(j) : j \in Pool}],
           \A q \in User : q # p => bpcall'[q] = bpcall[q],
           bpcall[p] = BpIdle, bpcall'[p] = BpIdle \/ bpcall'[p] = BpGet(i),
           \A q \in InLine(w) : bpcall'[q] = BpGet(i),
           Units(w) <= Units(buftab[i].bpsem),
           \A q \in User : bpcall'[q] = BpGet(i) /\ q \notin InLine(w) => q \in Admitted(i),
           UNCHANGED <<memvars, stack, holds>>
    PROVE  PoolsInv'
<1>1. PICK b : b = buftab[i]
  OBVIOUS
<1>2. /\ b = [bpnext |-> b.bpnext, bpsem |-> b.bpsem, memory |-> b.memory]
      /\ b \in BpEntry /\ PoolOK(i) /\ SemOK(b.bpsem, User)
      /\ b.bpnext \in Queue(Nat) /\ b.memory \in Blk
  BY <1>1, PoolFacts DEF PoolsInv
<1>3. PICK e : e = [b EXCEPT !.bpsem = w]
  OBVIOUS
<1>4. e = [bpnext |-> b.bpnext, bpsem |-> w, memory |-> b.memory]
  BY <1>2, <1>3
<1>5. e \in BpEntry
  <2>1. w \in [count : Int, line : Queue(User)]
    BY DEF SemOK
  <2> QED BY <1>2, <1>4, <2>1 DEF BpEntry
<1>6. /\ buftab' \in Seq(BpEntry) /\ Len(buftab') = Len(buftab)
      /\ \A j \in Pool : buftab'[j] = IF j = i THEN e ELSE buftab[j]
      /\ Pool' = Pool
  <2>1. buftab \in Seq(BpEntry) /\ Pool = DOMAIN buftab /\ i \in DOMAIN buftab
    BY PoolFacts DEF PoolsInv
  <2>2. buftab' = [buftab EXCEPT ![i] = e]
    BY <1>1, <1>3
  <2>3. /\ buftab' \in Seq(BpEntry) /\ Len(buftab') = Len(buftab)
        /\ \A j \in DOMAIN buftab : buftab'[j] = IF j = i THEN e ELSE buftab[j]
    BY <1>5, <2>1, <2>2, EntryReplaced
  <2> QED BY <2>1, <2>3 DEF Pool
<1>7. /\ buftab'[i].bpsem = w
      /\ \A j \in Pool : /\ buftab'[j].memory = buftab[j].memory
                         /\ buftab'[j].bpnext = buftab[j].bpnext
  BY <1>1, <1>4, <1>6
<1>8. Admitted(i)' \subseteq Admitted(i)
  BY <1>7 DEF Admitted
<1>9. Units(w) + Cardinality(Admitted(i)') <= Len(b.bpnext)
  <2>1. Admitted(i) \subseteq User
    BY DEF Admitted
  <2>2. /\ Cardinality(Admitted(i)') <= Cardinality(Admitted(i))
        /\ Cardinality(Admitted(i)') \in Nat /\ Cardinality(Admitted(i)) \in Nat
    <3>1. PICK S : S = Admitted(i)'
      OBVIOUS
    <3>2. S \subseteq User /\ S \subseteq Admitted(i)
      BY <1>8, <2>1, <3>1
    <3> QED BY <2>1, <3>1, <3>2, PoolsAssumption, SubsetCard
  <2>3. Units(w) \in Nat /\ Units(b.bpsem) \in Nat /\ Units(w) <= Units(b.bpsem) /\ Len(b.bpnext) \in Nat
    BY <1>1, <1>2, UnitsAre DEF Queue
  <2>4. Units(b.bpsem) + Cardinality(Admitted(i)) <= Len(b.bpnext)
    BY <1>1, <1>2 DEF PoolOK
  <2> QED BY <2>2, <2>3, <2>4
<1>10. PoolOK(i)'
  <2>1. Range(b.bpnext) \subseteq Bytes(b.memory)
    BY <1>1, <1>2 DEF PoolOK
  <2>2. buftab'[i].bpnext = b.bpnext /\ buftab'[i].memory = b.memory
    BY <1>1, <1>7
  <2> QED BY <1>7, <1>9, <2>1, <2>2 DEF PoolOK, Bytes, Top
<1>11. HoldsOK'
  <2>1. HoldsOK
    BY DEF PoolsInv
  <2>2. \A j \in Pool : Bytes(buftab[j].memory) = (Bytes(buftab[j].memory))'
    BY <1>7 DEF Bytes, Top
  <2>3. (\A q \in User : \A y \in holds[q] : \E j \in Pool : y \in Bytes(buftab[j].memory))'
    BY <1>6, <2>1, <2>2 DEF HoldsOK
  <2>4. (\A q \in User : \A j \in Pool : Range(buftab[j].bpnext) \cap holds[q] = {})'
    BY <1>6, <1>7, <2>1 DEF HoldsOK
  <2> QED BY <2>1, <2>3, <2>4 DEF HoldsOK
<1>12. PoolStep(p, i)
  BY <1>6, <1>7, BpCalls DEF PoolStep
<1> QED BY <1>10, <1>11, <1>12, OtherPools

\* getbuf takes a buffer at once, or gets in line.
LEMMA GetbufKeeps ==
    ASSUME PoolsInv, NEW p \in User, NEW i \in Pool, Getbuf(p, i)
    PROVE  PoolsInv'
<1>1. PICK s : s = buftab[i].bpsem
  OBVIOUS
<1>2. PICK w : w = SemWait(s, p)
  OBVIOUS
<1>3. bpcall[p] = BpIdle /\ SemOK(s, User) /\ s.count \in Int /\ PoolOK(i)
  <2>1. SemOK(s, User)
    BY <1>1, PoolFacts
  <2> QED BY <2>1 DEF Getbuf, PoolCall, PoolsInv, SemOK
<1>4. p \notin InLine(s)
  BY <1>1, <1>3, BpCalls DEF PoolOK
<1>5. /\ SemOK(w, User) /\ w.count = s.count - 1
      /\ InLine(w) = IF s.count <= 0 THEN InLine(s) \cup {p} ELSE {}
  BY <1>2, <1>3, <1>4, SemWaitOK
<1>6. Units(s) \in Nat /\ Units(w) \in Nat
      /\ (s.count <= 0 => Units(w) = Units(s))
      /\ (s.count > 0 => Units(w) = Units(s) - 1)
  BY <1>3, <1>5 DEF Units
<1>7. PICK pool : /\ pool = [buftab[i] EXCEPT !.bpsem = w]
                  /\ \/ /\ p \in InLine(w)
                        /\ buftab' = [buftab EXCEPT ![i] = pool]
                        /\ bpcall' = [bpcall EXCEPT ![p] = BpGet(i)]
                        /\ UNCHANGED holds
                     \/ /\ p \notin InLine(w)
                        /\ Unlink(p, i, pool)
  <2>1. PICK b : b = buftab[i]
    OBVIOUS
  <2>2. b = [bpnext |-> b.bpnext, bpsem |-> b.bpsem, memory |-> b.memory]
    BY <2>1, PoolFacts
  <2>3. PICK pool : pool = [b EXCEPT !.bpsem = w]
    OBVIOUS
  <2>4. pool.bpsem = w
    BY <2>2, <2>3
  <2>5. pool = [b EXCEPT !.bpsem = SemWait(@, p)]
    BY <1>1, <1>2, <2>1, <2>3
  <2> QED BY <2>1, <2>3, <2>4, <2>5 DEF Getbuf
<1>8. UNCHANGED <<memvars, stack>>
  BY DEF Getbuf
<1>9. CASE p \in InLine(w)
  <2>1. s.count <= 0 /\ InLine(w) = InLine(s) \cup {p}
    BY <1>5, <1>9
  <2>2. buftab' = [buftab EXCEPT ![i] = [buftab[i] EXCEPT !.bpsem = w]]
        /\ bpcall' = [bpcall EXCEPT ![p] = BpGet(i)] /\ holds' = holds
    BY <1>7, <1>9
  <2>3. /\ \A q \in User : bpcall'[q] = IF q = p THEN BpGet(i) ELSE bpcall[q]
        /\ bpcall' \in [User -> {BpIdle} \cup {BpGet(j) : j \in Pool}]
    BY <2>2 DEF PoolsInv
  <2>4. \A q \in InLine(w) : bpcall'[q] = BpGet(i)
    <3>1. InLine(s) \subseteq User
      BY <1>3, NobodyInLine
    <3> QED BY <1>1, <1>3, <2>1, <2>3, <3>1 DEF PoolOK
  <2>5. \A q \in User : bpcall'[q] = BpGet(i) /\ q \notin InLine(w) => q \in Admitted(i)
    BY <1>1, <2>1, <2>3 DEF Admitted
  <2>6. Units(w) <= Units(buftab[i].bpsem)
    BY <1>1, <1>6, <2>1
  <2> QED BY <1>3, <1>5, <1>8, <2>2, <2>3, <2>4, <2>5, <2>6, SemStepKeeps
<1>10. CASE p \notin InLine(w)
  <2>1. s.count > 0 /\ InLine(w) = {} /\ InLine(s) = {}
    <3>1. ~(s.count <= 0)
      BY <1>5, <1>10
    <3>2. s.count > 0 /\ s.count >= 0
      BY <1>3, <3>1
    <3> QED BY <1>3, <1>5, <3>1, <3>2, NobodyInLine
  <2>2. Units(w) + Cardinality(Admitted(i) \ {p}) + 1 <= Len(buftab[i].bpnext)
    <3>1. Admitted(i) \ {p} = Admitted(i) /\ Admitted(i) \subseteq User
      BY <1>3, BpCalls DEF Admitted
    <3>2. Cardinality(Admitted(i)) \in Nat
      BY <3>1, PoolsAssumption, SubsetCard
    <3>3. Units(s) + Cardinality(Admitted(i)) <= Len(buftab[i].bpnext)
      BY <1>1, <1>3 DEF PoolOK
    <3>4. Len(buftab[i].bpnext) \in Nat
      BY PoolFacts DEF Queue
    <3>5. Units(w) + 1 = Units(s)
      BY <1>6, <2>1
    <3>6. Units(w) + Cardinality(Admitted(i)) + 1 <= Len(buftab[i].bpnext)
      BY <1>6, <3>2, <3>3, <3>4, <3>5
    <3> QED BY <3>1, <3>6
  <2>3. Unlink(p, i, [buftab[i] EXCEPT !.bpsem = w])
    BY <1>7, <1>10
  <2>4. InLine(w) = InLine(buftab[i].bpsem)
    BY <1>1, <2>1
  <2> QED BY <1>3, <1>5, <1>8, <1>10, <2>2, <2>3, <2>4, UnlinkKeeps
<1> QED BY <1>9, <1>10

\* A buffer that is passed changes its holder.
LEMMA PassKeeps ==
    ASSUME PoolsInv, NEW p \in User, NEW q \in User, NEW x \in holds[p], Pass(p, q, x)
    PROVE  PoolsInv'
<1>1. /\ p # q /\ UNCHANGED <<memvars, buftab, bpcall, stack>>
      /\ holds' = [holds EXCEPT ![p] = @ \ {x}, ![q] = @ \cup {x}]
  BY DEF Pass
<1>2. HoldsOK /\ holds \in [User -> SUBSET Nat] /\ x \in Nat
  BY DEF PoolsInv, HoldsOK
<1>3. /\ holds' \in [User -> SUBSET Nat]
      /\ \A r \in User : holds'[r] = IF r = q THEN holds[q] \cup {x}
                                     ELSE IF r = p THEN holds[p] \ {x} ELSE holds[r]
  BY <1>1, <1>2
<1>4. Pool' = Pool
  BY <1>1 DEF Pool
<1>5. HoldsOK'
  <2>1. (\A r \in User : \A y \in holds[r] : \E j \in Pool : y \in Bytes(buftab[j].memory))'
    BY <1>1, <1>2, <1>3, <1>4 DEF HoldsOK, Bytes, Top
  <2>2. (\A r \in User : \A j \in Pool : Range(buftab[j].bpnext) \cap holds[r] = {})'
    BY <1>1, <1>2, <1>3, <1>4 DEF HoldsOK
  <2>3. (\A r, s \in User : r # s => holds[r] \cap holds[s] = {})'
    BY <1>1, <1>2, <1>3 DEF HoldsOK
  <2> QED BY <1>3, <2>1, <2>2, <2>3 DEF HoldsOK
<1>6. MemInv' /\ OwnersOK'
  BY <1>1, <1>4, MemoryStays, OwnersStay DEF PoolsInv
<1>7. \A i \in Pool : PoolOK(i)'
  BY <1>1 DEF PoolsInv, PoolOK, Admitted, Bytes, Top
<1> QED BY <1>1, <1>4, <1>5, <1>6, <1>7 DEF PoolsInv

\* A buffer goes back to the pool whose memory it is of.
LEMMA FreebufKeeps ==
    ASSUME PoolsInv, NEW p \in User, NEW x \in holds[p], Freebuf(p, x)
    PROVE  PoolsInv'
<1>1. PICK i \in Pool : i = PoolOf(x) /\ x \in Bytes(buftab[i].memory)
  <2>1. \E j \in Pool : x \in Bytes(buftab[j].memory)
    BY DEF PoolsInv, HoldsOK
  <2> QED BY <2>1 DEF PoolOf
<1>2. PICK b : b = buftab[i]
  OBVIOUS
<1>3. /\ b = [bpnext |-> b.bpnext, bpsem |-> b.bpsem, memory |-> b.memory]
      /\ b \in BpEntry /\ PoolOK(i) /\ SemOK(b.bpsem, User)
      /\ b.bpnext \in Queue(Nat) /\ b.memory \in Blk
      /\ HoldsOK /\ x \in Nat /\ x \notin Range(b.bpnext)
      /\ bpcall[p] = BpIdle
  BY <1>2, PoolFacts DEF PoolsInv, HoldsOK, Freebuf, PoolCall
<1>4. PICK t : t = <<x>> \o b.bpnext
  OBVIOUS
<1>5. t \in Queue(Nat) /\ Len(t) = Len(b.bpnext) + 1 /\ Range(t) = Range(b.bpnext) \cup {x}
  BY <1>3, <1>4, PushQueue
<1>6. PICK w : w = SemSignal(b.bpsem)
  OBVIOUS
<1>7. /\ SemOK(w, User)
      /\ \E h : /\ InLine(w) \subseteq InLine(b.bpsem)
                /\ InLine(b.bpsem) \subseteq InLine(w) \cup {h}
                /\ \/ Units(w) = Units(b.bpsem)
                   \/ Units(w) = Units(b.bpsem) + 1 /\ InLine(b.bpsem) = InLine(w)
  BY <1>3, <1>6, SemSignalOK, SignalLetsIn
<1>8. PICK e : e = [bpnext |-> t, bpsem |-> w, memory |-> b.memory]
  OBVIOUS
<1>9. e \in BpEntry /\ e.bpnext = t /\ e.bpsem = w /\ e.memory = b.memory
  <2>1. w \in [count : Int, line : Queue(User)]
    BY <1>7 DEF SemOK
  <2> QED BY <1>3, <1>5, <1>8, <2>1 DEF BpEntry
<1>10. /\ buftab' = [buftab EXCEPT ![i] = e]
       /\ holds' = [holds EXCEPT ![p] = @ \ {x}]
       /\ UNCHANGED <<memvars, bpcall, stack>>
  <2>1. buftab' = [buftab EXCEPT ![i].bpnext = <<x>> \o @, ![i].bpsem = SemSignal(@)]
    BY <1>1 DEF Freebuf
  <2>2. PICK c : c = [b EXCEPT !.bpnext = t]
    OBVIOUS
  <2>3. PICK f : f = [buftab EXCEPT ![i].bpnext = <<x>> \o @]
    OBVIOUS
  <2>4. i \in DOMAIN buftab
    BY PoolFacts
  <2>5. f = [buftab EXCEPT ![i] = c]
    BY <1>2, <1>4, <2>2, <2>3
  <2>6. f[i] = c /\ c.bpsem = b.bpsem
    BY <1>3, <2>2, <2>4, <2>5
  <2>7. buftab' = [f EXCEPT ![i].bpsem = SemSignal(@)]
    BY <2>1, <2>3
  <2>8. buftab' = [f EXCEPT ![i] = [c EXCEPT !.bpsem = w]]
    BY <1>6, <2>6, <2>7
  <2>9. [c EXCEPT !.bpsem = w] = e
    <3>1. c = [bpnext |-> t, bpsem |-> b.bpsem, memory |-> b.memory]
      BY <1>3, <2>2
    <3> QED BY <1>8, <3>1
  <2>10. buftab' = [f EXCEPT ![i] = e]
    BY <2>8, <2>9
  <2> QED BY <2>5, <2>10 DEF Freebuf
<1>11. /\ buftab' \in Seq(BpEntry) /\ Len(buftab') = Len(buftab)
       /\ \A j \in Pool : buftab'[j] = IF j = i THEN e ELSE buftab[j]
       /\ Pool' = Pool
  <2>1. buftab \in Seq(BpEntry) /\ Pool = DOMAIN buftab /\ i \in DOMAIN buftab
    BY PoolFacts DEF PoolsInv
  <2>2. /\ buftab' \in Seq(BpEntry) /\ Len(buftab') = Len(buftab)
        /\ \A j \in DOMAIN buftab : buftab'[j] = IF j = i THEN e ELSE buftab[j]
    BY <1>9, <1>10, <2>1, EntryReplaced
  <2> QED BY <2>1, <2>2 DEF Pool
<1>12. /\ buftab'[i].bpnext = t /\ buftab'[i].bpsem = w /\ buftab'[i].memory = b.memory
       /\ \A j \in Pool : buftab'[j].memory = buftab[j].memory
  BY <1>2, <1>9, <1>11
<1>13. /\ \A q \in User : holds'[q] = IF q = p THEN holds[p] \ {x} ELSE holds[q]
       /\ holds' \in [User -> SUBSET Nat]
  BY <1>3, <1>10 DEF HoldsOK
<1>14. Units(w) + Cardinality(Admitted(i)') <= Len(t)
  <2>1. PICK h : /\ InLine(b.bpsem) \subseteq InLine(w) \cup {h}
                 /\ \/ Units(w) = Units(b.bpsem)
                    \/ Units(w) = Units(b.bpsem) + 1 /\ InLine(b.bpsem) = InLine(w)
    BY <1>7
  <2>2. PICK S : S = Admitted(i)'
    OBVIOUS
  <2>3. /\ S \subseteq User /\ Admitted(i) \subseteq User
        /\ S \subseteq Admitted(i) \cup {h}
        /\ InLine(b.bpsem) = InLine(w) => S \subseteq Admitted(i)
    BY <1>2, <1>10, <1>12, <2>1, <2>2 DEF Admitted
  <2>4. /\ Cardinality(S) \in Nat /\ Cardinality(Admitted(i)) \in Nat
        /\ Cardinality(S) <= Cardinality(Admitted(i)) + 1
        /\ InLine(b.bpsem) = InLine(w) => Cardinality(S) <= Cardinality(Admitted(i))
    BY <2>3, PoolsAssumption, SubsetCard
  <2>5. Units(w) \in Nat /\ Units(b.bpsem) \in Nat /\ Len(b.bpnext) \in Nat
    BY <1>3, <1>7, UnitsAre DEF Queue
  <2>6. Units(b.bpsem) + Cardinality(Admitted(i)) <= Len(b.bpnext)
    BY <1>2, <1>3 DEF PoolOK
  <2>7. Units(w) + Cardinality(S) <= Len(b.bpnext) + 1
    BY <2>1, <2>4, <2>5, <2>6
  <2> QED BY <1>5, <2>2, <2>7
<1>15. PoolOK(i)'
  <2>1. \A q \in InLine(w) : bpcall'[q] = BpGet(i)
    BY <1>2, <1>3, <1>7, <1>10 DEF PoolOK
  <2>2. Range(t) \subseteq Bytes(b.memory)
    BY <1>1, <1>2, <1>3, <1>5 DEF PoolOK
  <2> QED BY <1>7, <1>12, <1>14, <2>1, <2>2 DEF PoolOK, Bytes, Top
<1>16. HoldsOK'
  <2>1. \A j \in Pool : Bytes(buftab[j].memory) = (Bytes(buftab[j].memory))'
    BY <1>12 DEF Bytes, Top
  <2>2. (\A q \in User : \A y \in holds[q] : \E j \in Pool : y \in Bytes(buftab[j].memory))'
    BY <1>3, <1>11, <1>13, <2>1 DEF HoldsOK
  <2>3. \A q \in User : x \notin holds'[q]
    BY <1>3, <1>13 DEF HoldsOK
  <2>4. ASSUME NEW q \in User, NEW j \in Pool
        PROVE  Range(buftab'[j].bpnext) \cap holds'[q] = {}
    <3>1. Range(buftab[j].bpnext) \cap holds[q] = {} /\ holds'[q] \subseteq holds[q]
      BY <1>3, <1>13 DEF HoldsOK
    <3>2. CASE j = i
      BY <1>2, <1>5, <1>12, <2>3, <3>1, <3>2
    <3>3. CASE j # i
      BY <1>11, <3>1, <3>3
    <3> QED BY <3>2, <3>3
  <2>5. (\A q \in User : \A j \in Pool : Range(buftab[j].bpnext) \cap holds[q] = {})'
    BY <1>11, <2>4
  <2>6. (\A q, r \in User : q # r => holds[q] \cap holds[r] = {})'
    BY <1>3, <1>13 DEF HoldsOK
  <2> QED BY <1>13, <2>2, <2>5, <2>6 DEF HoldsOK
<1>17. PoolStep(p, i)
  <2>1. bpcall' \in [User -> {BpIdle} \cup {BpGet(j) : j \in Pool}]
    BY <1>10 DEF PoolsInv
  <2>2. \A j \in Pool : bpcall[p] # BpGet(j)
    BY <1>3, BpCalls
  <2> QED BY <1>10, <1>11, <1>12, <2>1, <2>2 DEF PoolStep
<1> QED BY <1>15, <1>16, <1>17, OtherPools

\* What only takes or frees memory leaves the pools as they are.
LEMMA MemoryFrame ==
    ASSUME PoolsInv, MemInv', OwnersOK', UNCHANGED <<buftab, bpcall, holds>>
    PROVE  PoolsInv'
<1>1. Pool' = Pool
  BY DEF Pool
<1>2. HoldsOK'
  BY <1>1 DEF PoolsInv, HoldsOK, Bytes, Top
<1>3. \A i \in Pool : PoolOK(i)'
  BY DEF PoolsInv, PoolOK, Admitted, Bytes, Top
<1> QED BY <1>1, <1>2, <1>3 DEF PoolsInv

\* Others use the allocator beside the pools.
LEMMA PoolMemoryKeeps ==
    ASSUME PoolsInv, MemoryNext, UNCHANGED <<buftab, bpcall, holds, stack>>,
           \A b \in blocks \ blocks' :
              b \notin {stack[p] : p \in User} \cup {buftab[i].memory : i \in Pool}
    PROVE  PoolsInv'
<1>1. /\ MemInv'
      /\ \/ \E t, n : Taken(t, n)
         \/ \E b \in blocks : blocks' = blocks \ {b}
  BY MemoryKeeps DEF PoolsInv
<1>2. \A b \in blocks : \/ b \in blocks'
                        \/ b \notin {stack[p] : p \in User} \cup {buftab[i].memory : i \in Pool}
  OBVIOUS
<1>3. Pool' = Pool /\ OwnersOK
  BY DEF Pool, PoolsInv
<1>4. OwnersOK'
  BY <1>2, <1>3 DEF OwnersOK, Alive, NoBlock, Block
<1> QED BY <1>1, <1>4, MemoryFrame

\* A new process gets a stack of its own.
LEMMA CreateStackKeeps ==
    ASSUME PoolsInv, NEW p \in User, CreateStack(p)
    PROVE  PoolsInv'
<1>1. StackSize \in Nat \ {0} /\ MemInv /\ OwnersOK
  BY PoolsAssumption DEF PoolsInv
<1>2. PICK t : Taken(t, StackSize)
  BY <1>1, GetmemTakes DEF CreateStack
<1>3. /\ MemInv' /\ blocks' = blocks \cup {t} /\ t \in Blk /\ t \notin blocks
  BY <1>2 DEF Taken
<1>4. stack' = [stack EXCEPT ![p] = t] /\ UNCHANGED <<buftab, bpcall, holds>> /\ ~Alive(p)
  <2>1. (CHOOSE b \in blocks' : b \notin blocks) = t
    BY <1>3
  <2> QED BY <2>1 DEF CreateStack
<1>5. /\ \A q \in User : stack'[q] = IF q = p THEN t ELSE stack[q]
      /\ stack' \in [User -> Blk \cup {NoBlock}]
  BY <1>1, <1>3, <1>4 DEF OwnersOK
<1>6. Pool' = Pool /\ \A i \in Pool : buftab'[i].memory = buftab[i].memory
  BY <1>4 DEF Pool
<1>7. stack[p] = NoBlock /\ NoBlock' = NoBlock
  BY <1>4 DEF Alive, NoBlock, Block
<1>8. NoBlock # t
  BY <1>3 DEF NoBlock, Block, Blk
<1>9. OwnersOK'
  <2>1. (\A q \in User : Alive(q) => stack[q] \in blocks)'
    BY <1>1, <1>3, <1>5, <1>7 DEF OwnersOK, Alive
  <2>2. (\A i \in Pool : buftab[i].memory \in blocks)'
    BY <1>1, <1>3, <1>6 DEF OwnersOK
  <2>3. (\A q, r \in User : q # r /\ Alive(q) => stack[q] # stack[r])'
    BY <1>1, <1>3, <1>5, <1>7, <1>8 DEF OwnersOK, Alive
  <2>4. (\A i, j \in Pool : i # j => buftab[i].memory # buftab[j].memory)'
    BY <1>1, <1>6 DEF OwnersOK
  <2>5. (\A q \in User : \A i \in Pool : stack[q] # buftab[i].memory)'
    BY <1>1, <1>3, <1>5, <1>6 DEF OwnersOK
  <2>6. (stack \in [User -> Blk \cup {NoBlock}])'
    BY <1>5, <1>7 DEF Blk
  <2> QED BY <2>1, <2>2, <2>3, <2>4, <2>5, <2>6 DEF OwnersOK
<1> QED BY <1>3, <1>4, <1>9, MemoryFrame

\* A new pool: the list has every buffer of the new block once.
LEMMA NewPoolList ==
    ASSUME NEW t \in Blk, NEW q, q = [k \in 1 .. t.len |-> t.addr + k - 1]
    PROVE  q \in Queue(Nat) /\ Len(q) = t.len /\ Range(q) \subseteq Bytes(t)
<1>1. t.addr \in Nat /\ t.len \in Nat /\ Top(t) = t.addr + t.len
  BY ApartBytes
<1>2. \A k \in 1 .. t.len : t.addr + k - 1 \in Nat /\ t.addr + k - 1 \in Bytes(t)
  BY <1>1 DEF Bytes
<1>3. DOMAIN q = 1 .. t.len /\ \A k \in 1 .. t.len : q[k] = t.addr + k - 1
  OBVIOUS
<1>4. q \in Seq(Nat) /\ Len(q) = t.len
  BY <1>1, <1>2
<1>5. IsInjective(q)
  BY <1>1, <1>3 DEF IsInjective
<1>6. Range(q) \subseteq Bytes(t)
  BY <1>2, <1>3 DEF Range
<1> QED BY <1>4, <1>5, <1>6 DEF Queue

\* mkbufpool, with the semaphore it got or without one.
LEMMA MkbufpoolKeeps ==
    ASSUME PoolsInv, NEW n \in PoolSizes, NEW sem \in {TRUE, SemsLast}, Mkbufpool(n, sem)
    PROVE  PoolsInv'
<1>1. n \in Nat \ {0} /\ sem \in BOOLEAN /\ MemInv /\ OwnersOK /\ HoldsOK
  BY PoolsAssumption DEF PoolsInv
<1>2. PICK t : Taken(t, n)
  BY <1>1, GetmemTakes DEF Mkbufpool
<1>3. /\ MemInv' /\ blocks' = blocks \cup {t} /\ t \in Blk /\ t \notin blocks /\ t.len = n
      /\ \A c \in blocks : Apart(c, t)
  BY <1>2 DEF Taken
<1>4. PICK q : q = [k \in 1 .. t.len |-> t.addr + k - 1]
  OBVIOUS
<1>5. PICK e : e = [bpnext |-> q, bpsem |-> NewSem(n), memory |-> t]
  OBVIOUS
<1>6. /\ buftab' = IF sem THEN Append(buftab, e) ELSE buftab
      /\ UNCHANGED <<bpcall, holds, stack>>
  <2>1. (CHOOSE b \in blocks' : b \notin blocks) = t
    BY <1>3
  <2>2. NewPool(t, n) = e
    BY <1>3, <1>4, <1>5 DEF NewPool
  <2>3. buftab' = IF sem THEN Append(buftab, NewPool(CHOOSE b \in blocks' : b \notin blocks, n))
                         ELSE buftab
    BY DEF Mkbufpool
  <2>4. UNCHANGED <<bpcall, holds, stack>>
    BY DEF Mkbufpool
  <2>5. NewPool(CHOOSE b \in blocks' : b \notin blocks, n) = e
    BY <2>1, <2>2
  <2>6. buftab' = IF sem THEN Append(buftab, e) ELSE buftab
    BY <2>3, <2>5
  <2> QED BY <2>4, <2>6
<1>7. stack \in [User -> Blk \cup {NoBlock}] /\ \A p \in User : stack[p] # t
  <2>1. NoBlock # t
    BY <1>3 DEF NoBlock, Block, Blk
  <2> QED BY <1>1, <1>3, <2>1 DEF OwnersOK, Alive
<1>8. CASE ~sem
  <2>1. UNCHANGED <<buftab, bpcall, holds, stack>> /\ Pool' = Pool
    BY <1>6, <1>8 DEF Pool
  <2>2. OwnersOK'
    BY <1>1, <1>3, <2>1 DEF OwnersOK, Alive, NoBlock, Block
  <2> QED BY <1>3, <2>1, <2>2, MemoryFrame
<1>9. CASE sem
  <2>1. /\ q \in Queue(Nat) /\ Len(q) = n /\ Range(q) \subseteq Bytes(t)
    BY <1>3, <1>4, NewPoolList
  <2>2. /\ SemOK(NewSem(n), User) /\ InLine(NewSem(n)) = {} /\ NewSem(n).count = n
    BY <1>1, NewSemOK
  <2>3. Units(NewSem(n)) = n
    BY <1>1, <2>2, UnitsAre
  <2>4. PICK w : w = NewSem(n)
    OBVIOUS
  <2>5. e = [bpnext |-> q, bpsem |-> w, memory |-> t]
    BY <1>5, <2>4
  <2>6. e \in BpEntry /\ e.bpnext = q /\ e.bpsem = w /\ e.memory = t
    <3>1. w \in [count : Int, line : Queue(User)]
      BY <2>2, <2>4 DEF SemOK
    <3> QED BY <1>3, <2>1, <2>5, <3>1 DEF BpEntry
  <2>7. PICK l : l = Len(buftab) + 1
    OBVIOUS
  <2>8. /\ buftab \in Seq(BpEntry) /\ Pool = 1 .. Len(buftab) /\ Len(buftab) \in Nat
    BY PoolFacts DEF PoolsInv
  <2>9. buftab' = Append(buftab, e)
    BY <1>6, <1>9
  <2>10. /\ buftab' \in Seq(BpEntry) /\ Len(buftab') = l
         /\ \A j \in 1 .. Len(buftab) : buftab'[j] = buftab[j]
         /\ buftab'[l] = e
    BY <2>6, <2>7, <2>8, <2>9
  <2>11. Pool' = Pool \cup {l} /\ l \notin Pool /\ \A j \in Pool : buftab'[j] = buftab[j]
    <3>1. Pool' = 1 .. Len(buftab')
      BY DEF Pool
    <3> QED BY <2>7, <2>8, <2>10, <3>1
  <2>12. \A p \in User : bpcall[p] # BpGet(l)
    BY <2>11, BpCalls DEF PoolsInv
  <2>13. PoolOK(l)'
    <3>1. Admitted(l)' = {}
      BY <1>6, <2>12 DEF Admitted
    <3>2. Cardinality({}) = 0
      BY FS_EmptySet
    <3>3. Units(w) + Cardinality(Admitted(l)') <= Len(q)
      <4>1. Units(w) + 0 = Len(q)
        BY <1>1, <2>1, <2>3, <2>4
      <4> QED BY <1>1, <2>1, <3>1, <3>2, <4>1
    <3> QED BY <2>1, <2>2, <2>4, <2>6, <2>10, <3>3 DEF PoolOK, Bytes, Top
  <2>14. \A j \in Pool : PoolOK(j)'
    BY <1>6, <2>11 DEF PoolsInv, PoolOK, Admitted, Bytes, Top
  <2>15. HoldsOK'
    <3>1. ASSUME NEW p \in User, NEW x \in holds[p] PROVE x \notin Range(q)
      <4>1. PICK j \in Pool : x \in Bytes(buftab[j].memory)
        BY <1>1 DEF HoldsOK
      <4>2. buftab[j].memory \in Blk /\ Apart(buftab[j].memory, t)
        BY <1>1, <1>3, PoolFacts DEF OwnersOK
      <4> QED BY <1>3, <2>1, <4>1, <4>2, ApartBytes
    <3>2. (\A p \in User : \A x \in holds[p] : \E j \in Pool : x \in Bytes(buftab[j].memory))'
      BY <1>1, <1>6, <2>11 DEF HoldsOK, Bytes, Top
    <3>3. (\A p \in User : \A j \in Pool : Range(buftab[j].bpnext) \cap holds[p] = {})'
      BY <1>1, <1>6, <2>6, <2>10, <2>11, <3>1, ZenonT(60) DEF HoldsOK
    <3> QED BY <1>1, <1>6, <3>2, <3>3 DEF HoldsOK
  <2>16. OwnersOK'
    <3>1. (\A p \in User : Alive(p) => stack[p] \in blocks)'
      BY <1>1, <1>3, <1>6 DEF OwnersOK, Alive, NoBlock, Block
    <3>2. (\A j \in Pool : buftab[j].memory \in blocks)'
      BY <1>1, <1>3, <2>6, <2>10, <2>11 DEF OwnersOK
    <3>3. (\A p, r \in User : p # r /\ Alive(p) => stack[p] # stack[r])'
      BY <1>1, <1>6 DEF OwnersOK, Alive, NoBlock, Block
    <3>4. (\A i, j \in Pool : i # j => buftab[i].memory # buftab[j].memory)'
      BY <1>1, <1>3, <2>6, <2>10, <2>11 DEF OwnersOK
    <3>5. (\A p \in User : \A j \in Pool : stack[p] # buftab[j].memory)'
      <4>1. ASSUME NEW p \in User, NEW j \in Pool' PROVE stack[p] # buftab'[j].memory
        <5>1. CASE j = l
          BY <1>7, <2>6, <2>10, <5>1
        <5>2. CASE j # l
          BY <1>1, <2>11, <5>2 DEF OwnersOK
        <5> QED BY <5>1, <5>2
      <4> QED BY <1>6, <4>1
    <3>6. (stack \in [User -> Blk \cup {NoBlock}])'
      BY <1>6, <1>7 DEF Blk, NoBlock, Block
    <3> QED BY <3>1, <3>2, <3>3, <3>4, <3>5, <3>6 DEF OwnersOK
  <2>17. (bpcall \in [User -> {BpIdle} \cup {BpGet(j) : j \in Pool}])'
    <3>1. {BpIdle} \cup {BpGet(j) : j \in Pool} \subseteq {BpIdle} \cup {BpGet(j) : j \in Pool'}
      BY <2>11
    <3>2. bpcall \in [User -> {BpIdle} \cup {BpGet(j) : j \in Pool}]
      BY DEF PoolsInv
    <3> QED BY <1>6, <3>1, <3>2
  <2>18. (\A j \in Pool : PoolOK(j))'
    BY <2>11, <2>13, <2>14
  <2> QED BY <1>3, <2>10, <2>15, <2>16, <2>17, <2>18 DEF PoolsInv
<1> QED BY <1>1, <1>8, <1>9

\* kill: the stack goes back, the buffers of the process are lost, and whoever
\* waits in line leaves it.
LEMMA KillUserKeeps ==
    ASSUME PoolsInv, NEW p \in User, KillUser(p)
    PROVE  PoolsInv'
<1>1. /\ MemInv /\ OwnersOK /\ HoldsOK /\ Alive(p) /\ Freemem(stack[p])
      /\ stack' = [stack EXCEPT ![p] = NoBlock]
      /\ bpcall' = [bpcall EXCEPT ![p] = BpIdle]
      /\ holds' = [holds EXCEPT ![p] = {}]
  BY DEF PoolsInv, KillUser
<1>2. PICK t \in blocks : t = stack[p]
  BY <1>1 DEF OwnersOK
<1>3. MemInv' /\ blocks' = blocks \ {t}
  BY <1>1, <1>2, FreedKeeps
<1>4. /\ buftab \in Seq(BpEntry) /\ Pool = DOMAIN buftab /\ Pool = 1 .. Len(buftab)
      /\ bpcall \in [User -> {BpIdle} \cup {BpGet(i) : i \in Pool}]
  BY PoolFacts DEF PoolsInv
<1>5. \A i \in Pool : bpcall[p] # BpGet(i) => p \notin InLine(buftab[i].bpsem)
  BY DEF PoolsInv, PoolOK
<1>6. /\ buftab' \in Seq(BpEntry) /\ Len(buftab') = Len(buftab) /\ Pool' = Pool
      /\ \A i \in Pool : /\ buftab'[i].bpnext = buftab[i].bpnext
                         /\ buftab'[i].memory = buftab[i].memory
                         /\ buftab'[i].bpsem = SemKill(buftab[i].bpsem, p)
  <2>1. buftab' = KilledInLine(p)
    BY DEF KillUser
  <2>2. bpcall[p] = BpIdle \/ \E i \in Pool : bpcall[p] = BpGet(i)
    BY <1>4
  <2>3. CASE bpcall[p] = BpIdle
    <3>1. buftab' = buftab
      BY <2>1, <2>3, BpCalls DEF KilledInLine
    <3>2. \A i \in Pool : buftab[i].bpsem = SemKill(buftab[i].bpsem, p)
      BY <1>5, <2>3, BpCalls DEF SemKill
    <3> QED BY <1>4, <3>1, <3>2 DEF Pool
  <2>4. ASSUME NEW i \in Pool, bpcall[p] = BpGet(i)
        PROVE  /\ buftab' \in Seq(BpEntry) /\ Len(buftab') = Len(buftab) /\ Pool' = Pool
               /\ \A j \in Pool : /\ buftab'[j].bpnext = buftab[j].bpnext
                                  /\ buftab'[j].memory = buftab[j].memory
                                  /\ buftab'[j].bpsem = SemKill(buftab[j].bpsem, p)
    <3>1. PICK b : b = buftab[i]
      OBVIOUS
    <3>2. /\ b = [bpnext |-> b.bpnext, bpsem |-> b.bpsem, memory |-> b.memory]
          /\ b \in BpEntry /\ SemOK(b.bpsem, User)
          /\ b.bpnext \in Queue(Nat) /\ b.memory \in Blk
      BY <3>1, PoolFacts
    <3>3. PICK w : w = SemKill(b.bpsem, p)
      OBVIOUS
    <3>4. PICK e : e = [bpnext |-> b.bpnext, bpsem |-> w, memory |-> b.memory]
      OBVIOUS
    <3>5. e \in BpEntry
      <4>1. SemOK(w, User)
        BY <3>2, <3>3, SemKillOK
      <4>2. w \in [count : Int, line : Queue(User)]
        BY <4>1 DEF SemOK
      <4> QED BY <3>2, <3>4, <4>2 DEF BpEntry
    <3>6. buftab' = [buftab EXCEPT ![i] = e]
      <4>1. bpcall[p].op = "getbuf" /\ bpcall[p].pool = i
        BY <2>4, BpCalls
      <4>2. buftab' = [buftab EXCEPT ![i].bpsem = SemKill(@, p)]
        BY <2>1, <4>1 DEF KilledInLine
      <4>3. buftab' = [buftab EXCEPT ![i] = [b EXCEPT !.bpsem = w]]
        BY <3>1, <3>3, <4>2
      <4>4. [b EXCEPT !.bpsem = w] = e
        BY <3>2, <3>4
      <4> QED BY <4>3, <4>4
    <3>7. /\ buftab' \in Seq(BpEntry) /\ Len(buftab') = Len(buftab)
          /\ \A j \in DOMAIN buftab : buftab'[j] = IF j = i THEN e ELSE buftab[j]
      <4>1. i \in DOMAIN buftab
        BY <1>4
      <4> QED BY <1>4, <3>5, <3>6, <4>1, EntryReplaced
    <3>8. ASSUME NEW j \in Pool
          PROVE  /\ buftab'[j].bpnext = buftab[j].bpnext
                 /\ buftab'[j].memory = buftab[j].memory
                 /\ buftab'[j].bpsem = SemKill(buftab[j].bpsem, p)
      <4>1. CASE j = i
        BY <1>4, <3>1, <3>3, <3>4, <3>7, <4>1
      <4>2. CASE j # i
        <5>1. buftab'[j] = buftab[j] /\ bpcall[p] # BpGet(j)
          BY <1>4, <2>4, <3>7, <4>2, BpCalls
        <5> QED BY <1>5, <5>1 DEF SemKill
      <4> QED BY <4>1, <4>2
    <3> QED BY <1>4, <3>7, <3>8 DEF Pool
  <2> QED BY <2>2, <2>3, <2>4
<1>7. /\ \A q \in User : bpcall'[q] = IF q = p THEN BpIdle ELSE bpcall[q]
      /\ \A q \in User : holds'[q] = IF q = p THEN {} ELSE holds[q]
      /\ \A q \in User : stack'[q] = IF q = p THEN NoBlock ELSE stack[q]
      /\ bpcall' \in [User -> {BpIdle} \cup {BpGet(i) : i \in Pool}]
      /\ holds' \in [User -> SUBSET Nat]
      /\ stack' \in [User -> Blk \cup {NoBlock}]
  BY <1>1, <1>4 DEF HoldsOK, OwnersOK
<1>8. ASSUME NEW i \in Pool PROVE PoolOK(i)'
  <2>1. PICK s : s = buftab[i].bpsem
    OBVIOUS
  <2>2. PICK w : w = SemKill(s, p)
    OBVIOUS
  <2>3. PoolOK(i) /\ SemOK(s, User)
    BY <2>1, PoolFacts DEF PoolsInv
  <2>4. /\ SemOK(w, User) /\ InLine(w) = InLine(s) \ {p}
        /\ p \in InLine(s) => w.count = s.count + 1 /\ s.count < 0
        /\ p \notin InLine(s) => w = s
    BY <2>2, <2>3, SemKillOK
  <2>5. Units(w) = Units(s) /\ Units(s) \in Nat
    <3>1. s.count \in Int /\ Units(s) \in Nat
      BY <2>3, UnitsAre DEF SemOK
    <3>2. CASE p \in InLine(s)
      BY <2>4, <3>1, <3>2 DEF Units
    <3> QED BY <2>4, <3>1, <3>2
  <2>6. buftab'[i].bpsem = w
    BY <1>6, <2>1, <2>2
  <2>7. PICK S : S = Admitted(i)'
    OBVIOUS
  <2>8. S \subseteq Admitted(i) /\ Admitted(i) \subseteq User
    BY <1>7, <2>1, <2>4, <2>6, <2>7, BpCalls DEF Admitted
  <2>9. /\ Cardinality(S) <= Cardinality(Admitted(i))
        /\ Cardinality(S) \in Nat /\ Cardinality(Admitted(i)) \in Nat
    <3>1. S \subseteq User
      BY <2>8
    <3> QED BY <2>8, <3>1, PoolsAssumption, SubsetCard
  <2>10. Units(w) + Cardinality(Admitted(i)') <= Len(buftab'[i].bpnext)
    <3>1. Units(s) + Cardinality(Admitted(i)) <= Len(buftab[i].bpnext)
      BY <2>1, <2>3 DEF PoolOK
    <3>2. PICK n : n = Len(buftab[i].bpnext) /\ n = Len(buftab'[i].bpnext)
      BY <1>6
    <3>3. n \in Nat
      BY <3>2, PoolFacts DEF Queue
    <3>4. Units(w) + Cardinality(S) <= n
      BY <2>5, <2>9, <3>1, <3>2, <3>3
    <3> QED BY <2>7, <3>2, <3>4
  <2>11. \A q \in InLine(w) : bpcall'[q] = BpGet(i)
    <3>1. InLine(w) \subseteq User
      BY <2>4, NobodyInLine
    <3> QED BY <1>7, <2>1, <2>3, <2>4, <3>1 DEF PoolOK
  <2>12. Range(buftab'[i].bpnext) \subseteq Bytes(buftab'[i].memory)
    <3>1. buftab'[i].bpnext = buftab[i].bpnext /\ buftab'[i].memory = buftab[i].memory
      BY <1>6
    <3> QED BY <2>3, <3>1 DEF PoolOK, Bytes, Top
  <2> QED BY <2>4, <2>6, <2>10, <2>11, <2>12 DEF PoolOK, Bytes, Top
<1>9. HoldsOK'
  <2>1. (\A q \in User : \A x \in holds[q] : \E i \in Pool : x \in Bytes(buftab[i].memory))'
    <3>1. \A i \in Pool : Bytes(buftab[i].memory) = (Bytes(buftab[i].memory))'
      BY <1>6 DEF Bytes, Top
    <3> QED BY <1>1, <1>6, <1>7, <3>1 DEF HoldsOK
  <2>2. (\A q \in User : \A i \in Pool : Range(buftab[i].bpnext) \cap holds[q] = {})'
    BY <1>1, <1>6, <1>7 DEF HoldsOK
  <2>3. (\A q, r \in User : q # r => holds[q] \cap holds[r] = {})'
    BY <1>1, <1>7 DEF HoldsOK
  <2> QED BY <1>7, <2>1, <2>2, <2>3 DEF HoldsOK
<1>10. OwnersOK'
  <2>1. NoBlock' = NoBlock /\ \A q \in User : q # p => stack[q] # t
    BY <1>1, <1>2 DEF OwnersOK, Alive, NoBlock, Block
  <2>2. \A i \in Pool : buftab[i].memory # t
    BY <1>1, <1>2 DEF OwnersOK
  <2>3. (\A q \in User : Alive(q) => stack[q] \in blocks)'
    BY <1>1, <1>3, <1>7, <2>1 DEF OwnersOK, Alive
  <2>4. (\A i \in Pool : buftab[i].memory \in blocks)'
    BY <1>1, <1>3, <1>6, <2>2 DEF OwnersOK
  <2>5. (\A q, r \in User : q # r /\ Alive(q) => stack[q] # stack[r])'
    BY <1>1, <1>7, <2>1 DEF OwnersOK, Alive
  <2>6. (\A i, j \in Pool : i # j => buftab[i].memory # buftab[j].memory)'
    BY <1>1, <1>6 DEF OwnersOK
  <2>7. (\A q \in User : \A i \in Pool : stack[q] # buftab[i].memory)'
    <3>1. \A i \in Pool : buftab[i].memory # NoBlock
      BY PoolFacts DEF Blk, NoBlock, Block
    <3> QED BY <1>1, <1>6, <1>7, <3>1 DEF OwnersOK
  <2>8. (stack \in [User -> Blk \cup {NoBlock}])'
    BY <1>7, <2>1 DEF Blk
  <2> QED BY <2>3, <2>4, <2>5, <2>6, <2>7, <2>8 DEF OwnersOK
<1> QED BY <1>3, <1>6, <1>7, <1>8, <1>9, <1>10 DEF PoolsInv

\* Memory is kept whole, and a buffer is on the list of its pool once or held
\* by one process, with one on the list for every unit of the semaphore and
\* every process that it has let in.
THEOREM PoolsOwn ==
    ASSUME HeapOK
    PROVE  PoolsSpec => [](MemoryConserved /\ BuffersOwned)
<1>1. PoolsInit => PoolsInv
  BY PoolsInitInv
<1>2. PoolsInv /\ [PoolsNext]_poolvars => PoolsInv'
  <2> SUFFICES ASSUME PoolsInv, [PoolsNext]_poolvars PROVE PoolsInv'
    OBVIOUS
  <2>1. CASE UNCHANGED poolvars
    <3>1. UNCHANGED <<memvars, buftab, bpcall, holds, stack>> /\ Pool' = Pool
      BY <2>1 DEF poolvars, memvars, Pool
    <3>2. MemInv' /\ OwnersOK'
      BY <3>1, MemoryStays, OwnersStay DEF PoolsInv
    <3> QED BY <3>1, <3>2, MemoryFrame
  <2>2. ASSUME MemoryNext, UNCHANGED <<buftab, bpcall, holds, stack>>,
               \A b \in blocks \ blocks' :
                  b \notin {stack[p] : p \in User} \cup {buftab[i].memory : i \in Pool}
        PROVE  PoolsInv'
    BY <2>2, PoolMemoryKeeps
  <2>3. ASSUME NEW n \in PoolSizes, NEW sem \in {TRUE, SemsLast}, Mkbufpool(n, sem)
        PROVE  PoolsInv'
    BY <2>3, MkbufpoolKeeps
  <2>4. ASSUME NEW p \in User, CreateStack(p) PROVE PoolsInv'
    BY <2>4, CreateStackKeeps
  <2>5. ASSUME NEW p \in User, KillUser(p) PROVE PoolsInv'
    BY <2>5, KillUserKeeps
  <2>6. ASSUME NEW p \in User, GetbufEnd(p) PROVE PoolsInv'
    BY <2>6, GetbufEndKeeps
  <2>7. ASSUME NEW p \in User, NEW i \in Pool, Getbuf(p, i) PROVE PoolsInv'
    BY <2>7, GetbufKeeps
  <2>8. ASSUME NEW p \in User, NEW x \in holds[p], Freebuf(p, x) PROVE PoolsInv'
    BY <2>8, FreebufKeeps
  <2>9. ASSUME NEW p \in User, NEW x \in holds[p], NEW q \in User, Pass(p, q, x) PROVE PoolsInv'
    BY <2>9, PassKeeps
  <2> QED BY <2>1, <2>2, <2>3, <2>4, <2>5, <2>6, <2>7, <2>8, <2>9 DEF PoolsNext
<1>3. PoolsInv => MemoryConserved /\ BuffersOwned
  BY MemInvConserves, PoolsInvOwns DEF PoolsInv
<1> QED BY <1>1, <1>2, <1>3, PTL DEF PoolsSpec
=============================================================================
