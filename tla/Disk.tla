-------------------------------- MODULE Disk --------------------------------
(***************************************************************************)
(* What a remote disk promises: it behaves as one disk on which a write    *)
(* takes effect at one moment, and a read returns what the block holds at  *)
(* one moment of the call.  It may be deleted, and is then made anew.      *)
(***************************************************************************)
CONSTANTS Client, Block, Value

VARIABLES content,  \* what each block holds
          reading,  \* the block each client is reading, or Idle
          answer    \* what its last read has returned

CONSTANT Idle

diskvars == <<content, reading, answer>>

DiskInit ==
    /\ content \in [Block -> Value]
    /\ reading = [c \in Client |-> Idle]
    /\ answer \in [Client -> Value]

DiskWrite ==
    /\ \E b \in Block, v \in Value : content' = [content EXCEPT ![b] = v]
    /\ UNCHANGED <<reading, answer>>

\* Writes that are under way come after it.
DiskAnew ==
    /\ \E v \in Value, B \in SUBSET Block :
          content' = [b \in Block |-> IF b \in B THEN v ELSE content[b]]
    /\ UNCHANGED <<reading, answer>>

BeginRead(c) ==
    /\ reading[c] = Idle
    /\ \E b \in Block : reading' = [reading EXCEPT ![c] = b]
    /\ UNCHANGED <<content, answer>>

EndRead(c) ==
    /\ reading[c] # Idle
    /\ answer'  = [answer EXCEPT ![c] = content[reading[c]]]
    /\ reading' = [reading EXCEPT ![c] = Idle]
    /\ UNCHANGED content

\* The block is at hand.
ReadAtOnce(c) ==
    /\ reading[c] = Idle
    /\ \E b \in Block : answer' = [answer EXCEPT ![c] = content[b]]
    /\ UNCHANGED <<content, reading>>

DiskNext ==
    DiskWrite \/ DiskAnew \/ \E c \in Client : BeginRead(c) \/ EndRead(c) \/ ReadAtOnce(c)

DiskSpec == DiskInit /\ [][DiskNext]_diskvars
=============================================================================
