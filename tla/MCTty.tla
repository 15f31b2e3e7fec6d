------------------------------- MODULE MCTty --------------------------------
(***************************************************************************)
(* The serial line on a small instance.  To keep the state space a sum and *)
(* not a product, a behaviour explores one part of the driver:             *)
(*   "editing"  one reader, every key and mode                             *)
(*   "readers"  two readers and the lookahead, with echo turned off        *)
(*   "output"   two writers, flow control, and echo                        *)
(* Keys that edit a line are ordinary characters outside cooked mode, so   *)
(* they are only pressed in it.                                            *)
(***************************************************************************)
EXTENDS Tty, TLC

CONSTANTS r1, r2, w1, w2, a

VARIABLE part

MCReader == {r1, r2}
MCWriter == {w1, w2}
MCKeys   == {a, "nl", "erase", "kill", "eof", "start", "stop"}
MCPlain  == {a}
MCModes  == {"cooked", "cbreak", "raw"}
MCTexts  == {<<a>>, <<"nl">>, <<a, a>>}

MCInit == TtyInit /\ part \in {"editing", "readers", "output"}

Editing ==
    \/ \E ch \in Keys \ {"start", "stop"} :
          (ch \in {"erase", "kill"} => tty.imode = "cooked") /\ Receive(ch)
    \/ ReadingBy(r1, {2}) \/ Settings \/ Transmit

Readers ==
    \/ \E ch \in {a, "nl"} : ~tty.iecho /\ Receive(ch)
    \/ \E mode \in {"raw", "cooked"} : Ttycontrol(mode, FALSE)
    \/ ReadingBy(r1, {0}) \/ ReadingBy(r2, {2})
    \/ LookingAhead(r2) \/ Transmit

Output ==
    \/ \E ch \in {a, "erase", "start", "stop"} : Receive(ch)
    \/ Writing \/ Transmit

MCNext ==
    /\ UNCHANGED part
    /\ \/ part = "editing" /\ Editing
       \/ part = "readers" /\ Readers
       \/ part = "output"  /\ Output

MCSpec == MCInit /\ [][MCNext]_<<ttyvars, part>>

MCSymmetry == Permutations(MCWriter)
=============================================================================
