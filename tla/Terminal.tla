------------------------------ MODULE Terminal ------------------------------
(***************************************************************************)
(* What a terminal line promises, in terms of sequences of characters: the *)
(* keys typed are read in the order they were typed, except for those of   *)
(* the line being typed, which may be taken back; what is written goes out *)
(* in the order it was written, each character once.                       *)
(***************************************************************************)
EXTENDS Naturals, Sequences

CONSTANTS User, Symbol

VARIABLES typed,    \* the characters typed and not read, oldest first
          editing,  \* how many of them belong to the line being typed
          queued,   \* the characters written and not sent
          sent,     \* what the last step has sent
          gotten    \* what each reader has got in its last read

termvars == <<typed, editing, queued, sent, gotten>>

TerminalInit ==
    /\ typed = <<>> /\ editing = 0
    /\ queued = <<>> /\ sent = <<>>
    /\ gotten = [u \in User |-> <<>>]

Quiet == sent' = <<>>

\* A key is put at the end of what was typed; it may end the line.
Type ==
    /\ \E c \in Symbol : typed' = Append(typed, c)
    /\ editing' \in {0, editing, editing + 1}
    /\ Quiet /\ UNCHANGED <<queued, gotten>>

\* One or all of the characters of the line being typed are taken back.
TakeBack ==
    /\ \E n \in {1, editing} :
          /\ n <= editing
          /\ typed' = SubSeq(typed, 1, Len(typed) - n)
          /\ editing' = editing - n
    /\ Quiet /\ UNCHANGED <<queued, gotten>>

\* A finished character is read.
Read(u) ==
    /\ Len(typed) > editing
    /\ gotten' = [gotten EXCEPT ![u] = Append(@, Head(typed))]
    /\ typed' = Tail(typed)
    /\ Quiet /\ UNCHANGED <<editing, queued>>

Begin(u) ==
    /\ gotten' = [gotten EXCEPT ![u] = <<>>]
    /\ Quiet /\ UNCHANGED <<typed, editing, queued>>

Write ==
    /\ \E c \in Symbol : queued' = Append(queued, c)
    /\ Quiet /\ UNCHANGED <<typed, editing, gotten>>

Send ==
    /\ \E n \in 1 .. Len(queued) :
          /\ sent'   = SubSeq(queued, 1, n)
          /\ queued' = SubSeq(queued, n + 1, Len(queued))
    /\ UNCHANGED <<typed, editing, gotten>>

\* Nothing that the user sees.
Other == Quiet /\ UNCHANGED <<typed, editing, queued, gotten>>

TerminalNext == \/ Type \/ TakeBack \/ Write \/ Send \/ Other
                \/ \E u \in User : Read(u) \/ Begin(u)

TerminalSpec == TerminalInit /\ [][TerminalNext]_termvars
=============================================================================
