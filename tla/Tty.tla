--------------------------------- MODULE Tty ---------------------------------
(***************************************************************************)
(* The serial line (device/tty): the input and output rings between the    *)
(* interrupt handler and the processes that read and write, line editing,  *)
(* flow control and echo.  Calls run with interrupts disabled: cpu is the  *)
(* process inside one, and until it waits or returns nothing else happens. *)
(*                                                                         *)
(* Characters are ordinary ones (Plain) and those with a meaning; carriage *)
(* return on input is mapped to newline before anything looks at it.  What *)
(* is echoed is left out, and the echo ring is the number of characters in *)
(* it.                                                                     *)
(*                                                                         *)
(* TtyCareless says what the driver leaves to chance:                      *)
(*   "flood"  input arrives although the ring is full                      *)
(*   "wrap"   the end-of-file character or a raw character is put into the *)
(*            last place, or a line that goes round the end is killed      *)
(*   "held"   while output is held, another key than ^S and ^Q is pressed  *)
(*   "drain"  the device drains the ring before a writer that was let in   *)
(*            has run, and the handler takes its place for a character     *)
(***************************************************************************)
EXTENDS SemLine, FiniteSets, SequencesExt

CONSTANTS Reader, Writer,        \* processes that read, processes that write
          Plain,                 \* ordinary characters
          Keys,                  \* the characters that arrive
          Modes,                 \* the input modes that are set
          Texts,                 \* what is written: sequences of characters
          Counts,                \* how many characters a read asks for
          TY_IBUFLEN, TY_OBUFLEN, TY_EBUFLEN, UART_FIFO_SIZE,
          TtyCareless

ASSUME TtyAssumption ==
    /\ {TY_IBUFLEN, TY_OBUFLEN, TY_EBUFLEN, UART_FIFO_SIZE} \subseteq Nat \ {0}
    /\ Reader \cap Writer = {} /\ Counts \subseteq Nat
    /\ IsFiniteSet(Reader \cup Writer) /\ "nobody" \notin Reader \cup Writer
    /\ Keys \subseteq Plain \cup {"nl", "erase", "kill", "eof", "start", "stop"}
    /\ Plain \cap {"nl", "erase", "kill", "eof", "start", "stop"} = {}
    /\ Modes \subseteq {"cooked", "cbreak", "raw"}
    /\ TtyCareless \subseteq {"flood", "wrap", "held", "drain"}

VARIABLES tty,     \* ttytab[0], and the transmitter interrupt
          cpu,     \* the process inside a call, or Nobody
          rest,    \* what each process still has to do in its call
          got      \* the characters each reader has got in its last read

ttyvars == <<tty, cpu, rest, got>>

Nobody  == "nobody"
Done    == [op |-> "none"]
InRing  == 0 .. TY_IBUFLEN-1
OutRing == 0 .. TY_OBUFLEN-1

\* ttyinit.  unread and unsent are history variables: how many characters
\* there are in the input and the output ring.
TtyInit ==
    /\ tty = [imode |-> "cooked", iecho |-> TRUE, icursor |-> 0,
              ibuff |-> [k \in InRing |-> "nl"], ihead |-> 0, itail |-> 0,
              isem |-> NewSem(0),
              obuff |-> [k \in OutRing |-> "nl"], ohead |-> 0, otail |-> 0,
              osem |-> NewSem(TY_OBUFLEN), oheld |-> FALSE,
              echo |-> 0, thre |-> TRUE,
              unread |-> 0, unsent |-> 0, wire |-> <<>>]
    /\ cpu  = Nobody
    /\ rest = [p \in Reader \cup Writer |-> Done]
    /\ got  = [p \in Reader |-> <<>>]

-----------------------------------------------------------------------------
\* The lower half, as operators on the control block.

Avail(t) == Units(t.isem)

SemSignaln(s, n) ==
    [count |-> s.count + n,
     line  |-> SubSeq(s.line, 1 + Min({n, Len(s.line)}), Len(s.line))]

\* n times eputc: the interrupt is asked for each time, and nobody looks
\* whether the echo ring is full.
Eputc(t, n) == [t EXCEPT !.echo = (@ + n) % TY_EBUFLEN, !.thre = TRUE]

EchoLen(ch) == IF ch \in Plain THEN 1 ELSE 2
Echoch(t, ch) == IF t.iecho THEN Eputc(t, EchoLen(ch)) ELSE t

Stored(t, ch) == [t EXCEPT !.ibuff[t.itail] = ch, !.unread = @ + 1]
\* Where the code forgets the end of the ring.
IntoRingNoWrap(t, ch) == [Stored(t, ch) EXCEPT !.itail = @ + 1]
IntoRing(t, ch) == [Stored(t, ch) EXCEPT !.itail = (@ + 1) % TY_IBUFLEN]

HandleRaw(t, ch) ==
    IF Avail(t) >= TY_IBUFLEN THEN t
    ELSE [IntoRingNoWrap(t, ch) EXCEPT !.isem = SemSignal(@)]

\* Nobody is signalled in this mode.
HandleCbreak(t, ch) ==
    IF Avail(t) >= TY_IBUFLEN THEN Eputc(t, 1) ELSE Echoch(IntoRing(t, ch), ch)

\* The test for the end of the ring corrects the wrong pointer.
LineKill(t) ==
    LET tail == t.itail - t.icursor
    IN  Eputc([t EXCEPT !.itail   = tail,
                        !.ihead   = IF tail < 0 THEN @ + TY_IBUFLEN ELSE @,
                        !.unread  = @ - t.icursor,
                        !.icursor = 0], 2)

\* Mutant of Erase: the cursor stays where it is.
EraseOnly(t) ==
    IF t.icursor = 0 THEN t
    ELSE Eputc([t EXCEPT !.itail  = (@ - 1) % TY_IBUFLEN,
                         !.unread = @ - 1], IF t.iecho THEN 3 ELSE 0)

Erase(t) ==
    IF t.icursor = 0 THEN t
    ELSE LET u == [t EXCEPT !.icursor = @ - 1, !.itail = (@ - 1) % TY_IBUFLEN,
                            !.unread  = @ - 1]
         IN  IF t.iecho THEN Eputc(u, 3) ELSE u

\* Mutant of EndOfLine: the next line starts with the cursor of this one.
EndOfLineKeeps(t) ==
    [IntoRing(Echoch(t, "nl"), "nl") EXCEPT !.isem = SemSignaln(@, t.icursor + 1)]

EndOfLine(t) ==
    [IntoRing(Echoch(t, "nl"), "nl")
        EXCEPT !.isem = SemSignaln(@, t.icursor + 1), !.icursor = 0]

Eof(t) ==
    LET u == Echoch(t, "eof")
    IN  IF t.icursor # 0 THEN u
        ELSE [IntoRingNoWrap(u, "eof") EXCEPT !.isem = SemSignal(@)]

Full(t) == Avail(t) + t.icursor >= TY_IBUFLEN - 1

HandleCooked(t, ch) ==
    CASE ch = "kill"  -> LineKill(t)
      [] ch = "erase" -> Erase(t)
      [] ch = "nl"    -> EndOfLine(t)
      [] ch \notin {"kill", "erase", "nl"} /\ Full(t) -> Eputc(t, 1)
      [] ch = "eof" /\ ~Full(t) -> Eof(t)
      [] ch \in Plain /\ ~Full(t) ->
            [IntoRing(Echoch(t, ch), ch) EXCEPT !.icursor = @ + 1]

\* ttyhandle_in
HandleIn(t, ch) ==
    IF t.imode = "raw" THEN HandleRaw(t, ch)
    ELSE CASE ch = "start" -> [t EXCEPT !.oheld = FALSE, !.thre = TRUE]
           [] ch = "stop"  -> [t EXCEPT !.oheld = TRUE]
           [] ch \notin {"start", "stop"} ->
                 LET u == [t EXCEPT !.oheld = FALSE]
                 IN  IF t.imode = "cbreak" THEN HandleCbreak(u, ch)
                                           ELSE HandleCooked(u, ch)

\* What the handler finds to send in the output ring, and sends.
Ochars(t) == Min({UART_FIFO_SIZE - Min({UART_FIFO_SIZE, t.echo}),
                  TY_OBUFLEN - t.osem.count})

\* ttyhandle_out.  The interrupt comes again when what was sent has gone.
HandleOut(t) ==
    IF t.oheld \/ (t.echo = 0 /\ t.osem.count >= TY_OBUFLEN)
    THEN [t EXCEPT !.thre = FALSE, !.wire = <<>>]
    ELSE LET n == Ochars(t)
         IN  [t EXCEPT !.echo   = @ - Min({UART_FIFO_SIZE, @}),
                       !.wire   = [k \in 1 .. n |-> t.obuff[(t.ohead + k - 1) % TY_OBUFLEN]],
                       !.ohead  = (@ + n) % TY_OBUFLEN,
                       !.osem   = SemSignaln(@, n),
                       !.unsent = @ - n,
                       !.thre   = TRUE]

-----------------------------------------------------------------------------
\* The interrupts.

Pressed(ch) ==
    /\ tty.unread < TY_IBUFLEN \/ "flood" \in TtyCareless
    /\ \/ "wrap" \in TtyCareless
       \/ IF tty.imode = "cooked" /\ ch = "kill" THEN tty.icursor <= tty.itail
          ELSE tty.imode = "raw" \/ ch = "eof" => tty.itail < TY_IBUFLEN - 1
    /\ tty.oheld => ch \in {"start", "stop"} \/ "held" \in TtyCareless

Receive(ch) ==
    /\ cpu = Nobody
    /\ Pressed(ch)
    /\ tty' = [HandleIn(tty, ch) EXCEPT !.wire = <<>>]
    /\ UNCHANGED <<cpu, rest, got>>

Transmit ==
    /\ cpu = Nobody
    /\ tty.thre
    /\ Ochars(tty) <= tty.unsent \/ "drain" \in TtyCareless
    /\ tty' = HandleOut(tty)
    /\ UNCHANGED <<cpu, rest, got>>

-----------------------------------------------------------------------------
\* The upper half.  A process between two characters of its call has the cpu;
\* one that waited gets it back when it has been let in.

LetIn(p) == rest[p].op # "none" /\ p \notin InLine(tty.isem) \cup InLine(tty.osem)
Begins(p, r) ==
    /\ cpu = Nobody /\ rest[p] = Done
    /\ cpu' = p
    /\ rest' = [rest EXCEPT ![p] = r]
    /\ UNCHANGED tty

Returns(p) == cpu' = Nobody /\ rest' = [rest EXCEPT ![p] = Done]

\* Newline is written as carriage return and newline.
Expanded(text) == FlattenSeq([k \in DOMAIN text |->
                      IF text[k] = "nl" THEN <<"cr", "nl">> ELSE <<text[k]>>])

Ttywrite(p, text) == Begins(p, [op |-> "write", text |-> Expanded(text)]) /\ UNCHANGED got

\* Mutant of Placed: the device is not kicked.
PlacedQuietly(ch) ==
    [tty EXCEPT !.obuff[tty.otail] = ch, !.otail = (@ + 1) % TY_OBUFLEN,
                !.unsent = @ + 1, !.wire = <<>>]

Placed(ch) ==
    [tty EXCEPT !.obuff[tty.otail] = ch, !.otail = (@ + 1) % TY_OBUFLEN,
                !.unsent = @ + 1, !.thre = TRUE, !.wire = <<>>]

\* ttyputc, up to its wait ...
TtyputcWait(p) ==
    /\ cpu = p /\ rest[p].op = "write"
    /\ tty'  = [tty EXCEPT !.osem = SemWait(@, p), !.wire = <<>>]
    /\ cpu'  = IF p \in InLine(tty'.osem) THEN Nobody ELSE p
    /\ rest' = [rest EXCEPT ![p].op = "put"]
    /\ UNCHANGED got

\* ... and after it.
TtyputcPlace(p) ==
    /\ cpu \in {p, Nobody} /\ rest[p].op = "put" /\ LetIn(p)
    /\ tty' = Placed(Head(rest[p].text))
    /\ IF Len(rest[p].text) = 1 THEN Returns(p)
       ELSE /\ cpu'  = p
            /\ rest' = [rest EXCEPT ![p] = [op |-> "write", text |-> Tail(rest[p].text)]]
    /\ UNCHANGED got

\* ttyread: in the other modes a count of 0 asks for what is there.
Ttyread(p, count) ==
    /\ LET n == IF count = 0 /\ tty.imode # "cooked" THEN tty.isem.count ELSE count
       IN  /\ n > 0 \/ tty.imode = "cooked"
           /\ Begins(p, [op |-> "read", n |-> n, cooked |-> tty.imode = "cooked"])
    /\ got' = [got EXCEPT ![p] = <<>>]

TtygetcWait(p) ==
    /\ cpu = p /\ rest[p].op = "read"
    /\ tty'  = [tty EXCEPT !.isem = SemWait(@, p), !.wire = <<>>]
    /\ cpu'  = IF p \in InLine(tty'.isem) THEN Nobody ELSE p
    /\ rest' = [rest EXCEPT ![p].op = "get"]
    /\ UNCHANGED got

Taken == [tty EXCEPT !.ihead = (@ + 1) % TY_IBUFLEN, !.unread = @ - 1, !.wire = <<>>]

\* The read is over: a line or the count is complete.  The end of a file ends
\* a cooked read only if it is the first character.
LastOne(p, ch) ==
    \/ Len(got[p]) + 1 >= rest[p].n
    \/ rest[p].cooked /\ (ch = "nl" \/ (ch = "eof" /\ got[p] = <<>> /\ tty.imode = "cooked"))

TtygetcTake(p) ==
    /\ cpu \in {p, Nobody} /\ rest[p].op = "get" /\ LetIn(p)
    /\ LET ch == tty.ibuff[tty.ihead]
       IN  /\ got' = [got EXCEPT ![p] = Append(@, ch)]
           /\ IF LastOne(p, ch) THEN Returns(p)
              ELSE cpu' = p /\ rest' = [rest EXCEPT ![p].op = "read"]
    /\ tty' = Taken

\* TC_NEXTC waits for a character and gives its unit back.
TtyNextc(p) == Begins(p, [op |-> "next"]) /\ UNCHANGED got

TtyNextcWait(p) ==
    /\ cpu = p /\ rest[p].op = "next"
    /\ tty'  = [tty EXCEPT !.isem = SemWait(@, p), !.wire = <<>>]
    /\ cpu'  = IF p \in InLine(tty'.isem) THEN Nobody ELSE p
    /\ rest' = [rest EXCEPT ![p].op = "peek"]
    /\ UNCHANGED got

TtyNextcEnd(p) ==
    /\ cpu \in {p, Nobody} /\ rest[p].op = "peek" /\ LetIn(p)
    /\ tty' = [tty EXCEPT !.isem = SemSignal(@), !.wire = <<>>]
    /\ Returns(p)
    /\ UNCHANGED got

\* TC_MODER, TC_MODEC, TC_MODEK, TC_ECHO, TC_NOECHO
Ttycontrol(mode, echo) ==
    /\ cpu = Nobody
    /\ tty' = [tty EXCEPT !.imode = mode, !.iecho = echo, !.wire = <<>>]
    /\ UNCHANGED <<cpu, rest, got>>

Typing   == \E ch \in Keys : Receive(ch)
Writing  == \E p \in Writer : \/ \E text \in Texts : Ttywrite(p, text)
                              \/ TtyputcWait(p) \/ TtyputcPlace(p)
Settings == \E mode \in Modes, echo \in BOOLEAN : Ttycontrol(mode, echo)

ReadingBy(p, counts) ==
    \/ \E count \in counts : Ttyread(p, count)
    \/ TtygetcWait(p) \/ TtygetcTake(p)

LookingAhead(p) == TtyNextc(p) \/ TtyNextcWait(p) \/ TtyNextcEnd(p)

TtyNext == \/ Typing \/ Transmit \/ Writing \/ Settings
           \/ \E p \in Reader : ReadingBy(p, Counts) \/ LookingAhead(p)

TtySpec == TtyInit /\ [][TtyNext]_ttyvars

-----------------------------------------------------------------------------
\* Type invariant: the control block, with every pointer inside its ring and
\* the counts of the history within the size of the rings.
TtyTypeOK ==
    /\ tty.imode \in {"cooked", "cbreak", "raw"}
    /\ tty.iecho \in BOOLEAN /\ tty.oheld \in BOOLEAN /\ tty.thre \in BOOLEAN
    /\ {tty.ihead, tty.itail} \subseteq InRing
    /\ {tty.ohead, tty.otail} \subseteq OutRing
    /\ tty.icursor \in Nat
    /\ tty.echo \in 0 .. TY_EBUFLEN-1
    /\ tty.unread \in 0 .. TY_IBUFLEN /\ tty.unsent \in 0 .. TY_OBUFLEN
    /\ cpu \in Reader \cup Writer \cup {Nobody}
    /\ DOMAIN rest = Reader \cup Writer

\* The processes a semaphore has let in and that have not run since.
Admitted(ops) == {p \in Reader \cup Writer : rest[p].op \in ops /\ LetIn(p)}

\* Every place of the output ring is a unit of its semaphore, a character, or
\* promised to a writer that has been let in; and a reader is let in only for
\* a character that is there and does not belong to the line being typed
\* (signal, signaln and wait in ttyhandle_in, ttyhandle_out, ttyputc, ttygetc).
UnitsHaveChars ==
    /\ TtyTypeOK
    /\ Units(tty.osem) + Cardinality(Admitted({"put"})) + tty.unsent = TY_OBUFLEN
    /\ Units(tty.isem) + Cardinality(Admitted({"get", "peek"})) + tty.icursor
          <= tty.unread

\* The transmitter never sleeps with characters to send, unless output is
\* held: whoever adds a character, or lets output go on, kicks the device.
OutputGoesOn ==
    (tty.unsent > 0 \/ tty.echo > 0) /\ ~tty.oheld => tty.thre

\* The rings and pointers do what a terminal promises: nobody reads or sends
\* a character twice, out of order, or one that was taken back.
T == INSTANCE Terminal WITH
        User    <- Reader,
        Symbol  <- Plain \cup Keys \cup {"nl", "cr"},
        typed   <- [k \in 1 .. tty.unread |-> tty.ibuff[(tty.ihead + k - 1) % TY_IBUFLEN]],
        editing <- tty.icursor,
        queued  <- [k \in 1 .. tty.unsent |-> tty.obuff[(tty.ohead + k - 1) % TY_OBUFLEN]],
        sent    <- tty.wire,
        gotten  <- got

TerminalRefined == T!TerminalSpec
=============================================================================
