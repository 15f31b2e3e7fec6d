-------------------------------- MODULE Tftp ---------------------------------
(***************************************************************************)
(* The download of a file over TFTP (net/tftp.c): the client asks, then    *)
(* acknowledges each block and gets the next.  Datagrams are lost, delayed *)
(* and delivered more than once: one that has been sent stays in the set   *)
(* of those that may be delivered.  The client sends again when nothing    *)
(* acceptable has come for TFTP_WAIT, and a server session does so by the  *)
(* set.  The server is external; it begins a session, with a port of its   *)
(* own, for each request that reaches it.                                  *)
(*                                                                         *)
(* A block is a number, the last one is shorter than TFTP_MAXDATA.         *)
(* TftpCareless says what the client leaves to chance:                     *)
(*   "sameport"  its local port is made of the time in seconds: a second   *)
(*               download in the same second has the port of the first,    *)
(*               and blocks of the first that come late are taken for its  *)
(*   "changed"   the file changes between two sessions of one download     *)
(***************************************************************************)
EXTENDS Integers, Sequences, FiniteSets, FiniteSetsExt, SequencesExt

CONSTANTS TFTP_MAXRETRIES,
          Blocks,          \* blocks of each version of the file
          Room,            \* blocks the buffers hold
          BlkMod,          \* block numbers are taken modulo this (2^16)
          MaxGets,         \* bound: downloads
          MaxSessions,     \* bound: sessions of the server
          TftpCareless

ASSUME TftpAssumption ==
    /\ {TFTP_MAXRETRIES, Blocks, Room, BlkMod} \subseteq Nat \ {0}
    /\ {MaxGets, MaxSessions} \subseteq Nat
    /\ Blocks < BlkMod
    /\ TftpCareless \subseteq {"sameport", "changed"}

VARIABLES client,       \* the download that goes on
          gets,         \* downloads so far
          rcv_bufs,     \* blocks in the buffers
          filesiz,      \* what the last download has returned
          tosrv, tocli, \* datagrams that may be delivered
          sessions      \* the server's

tftpvars == <<client, gets, rcv_bufs, filesiz, tosrv, tocli, sessions>>

TFTP_PORT == 0
ReadRequest == -1      \* in place of a block number
Failure     == -1
NoGet == [get |-> 0]

TftpInit ==
    /\ client = NoGet /\ gets = 0
    /\ rcv_bufs = <<>> /\ filesiz = "none"
    /\ tosrv = {} /\ tocli = {} /\ sessions = <<>>

\* What the client sends next: the request, or the acknowledgement of the
\* block before the one it expects.
Outmsg(c, remport) ==
    [to |-> remport, from |-> c.localport, get |-> c.get,
     ablk |-> IF c.first THEN ReadRequest ELSE (c.expected - 1) % BlkMod]

\* tftp_send1 sends; i counts the attempts.
Sends(c) == client' = c /\ tosrv' = tosrv \cup {Outmsg(c, c.remport)}

\* udp_release, and the result.
Returns(result) == client' = NoGet /\ filesiz' = result

\* tftpget_mb as far as the wait for the first block.
Tftpget ==
    /\ client = NoGet /\ gets < MaxGets
    /\ gets' = gets + 1
    /\ rcv_bufs' = <<>> /\ filesiz' = "none"
    /\ \E localport \in 1 .. gets + 1 :
          /\ localport = gets + 1 \/ "sameport" \in TftpCareless
          /\ Sends([get |-> gets', localport |-> localport, remport |-> TFTP_PORT,
                    first |-> TRUE, expected |-> 1, i |-> 0])
    /\ UNCHANGED <<tocli, sessions>>

\* Mutant of Acceptable: any block is taken for the one that is expected.
AcceptableAny(d, expected) == d.dblk # Failure

Acceptable(d, expected) == d.dblk = expected

\* A datagram for the local port, from any port of the server: its port is the
\* one to send to from now on, even if what it brings is not wanted.
Received(d) == d.to = client.localport

Ignore(d) ==
    /\ Received(d) /\ d.dblk # Failure /\ ~Acceptable(d, client.expected)
    /\ client' = [client EXCEPT !.remport = d.from]
    /\ UNCHANGED <<rcv_bufs, filesiz, tosrv>>

ErrorCame(d) == Received(d) /\ d.dblk = Failure /\ Returns("SYSERR") /\ UNCHANGED <<rcv_bufs, tosrv>>

\* The buffers are full: what has come so far is returned as if it were all.
BufferFull(d) ==
    /\ Received(d) /\ Acceptable(d, client.expected)
    /\ Len(rcv_bufs) = Room /\ ~d.empty
    /\ Returns("part")
    /\ UNCHANGED <<rcv_bufs, tosrv>>

Store(d) ==
    /\ Received(d) /\ Acceptable(d, client.expected)
    /\ Len(rcv_bufs) < Room \/ d.empty
    /\ rcv_bufs' = IF d.empty THEN rcv_bufs ELSE Append(rcv_bufs, d.data)
    /\ LET acked == [client EXCEPT !.remport = d.from, !.first = FALSE, !.i = 0,
                                   !.expected = (@ + 1) % BlkMod]
       IN  \/ d.last /\ Returns("whole") /\ tosrv' = tosrv \cup {Outmsg(acked, d.from)}
           \/ ~d.last /\ Sends(acked) /\ UNCHANGED filesiz

TftpReceives ==
    /\ client # NoGet
    /\ \E d \in tocli : Ignore(d) \/ ErrorCame(d) \/ BufferFull(d) \/ Store(d)
    /\ UNCHANGED <<gets, tocli, sessions>>

TftpTimeout ==
    /\ client # NoGet
    /\ \/ /\ client.i + 1 < TFTP_MAXRETRIES
          /\ Sends([client EXCEPT !.i = @ + 1])
          /\ UNCHANGED filesiz
       \/ /\ client.i + 1 >= TFTP_MAXRETRIES
          /\ Returns("SYSERR")
          /\ UNCHANGED tosrv
    /\ UNCHANGED <<gets, rcv_bufs, tocli, sessions>>

-----------------------------------------------------------------------------
\* The server, external.  Each download is of a file of its own; a file is its
\* version, and a block of it is empty when its length is a multiple of
\* TFTP_MAXDATA and it is the last.

Block(session, n) ==
    [to |-> session.peer, from |-> session.port, dblk |-> n % BlkMod,
     data |-> <<session.file, n>>, last |-> n = Blocks, empty |-> n = Blocks /\ session.even]

FileOf(get) ==
    {[get |-> get, version |-> v] : v \in IF "changed" \in TftpCareless THEN {1, 2} ELSE {1}}

NewSession ==
    /\ Len(sessions) < MaxSessions
    /\ \E m \in tosrv, even \in BOOLEAN : \E file \in FileOf(m.get) :
          /\ m.to = TFTP_PORT /\ m.ablk = ReadRequest
          /\ \A k \in DOMAIN sessions : sessions[k].file = file => sessions[k].even = even
          /\ LET s == [port |-> Len(sessions) + 1, peer |-> m.from, file |-> file, even |-> even]
             IN  /\ sessions' = Append(sessions, s)
                 /\ \/ tocli' = tocli \cup {Block(s, 1)}
                    \/ tocli' = tocli \cup {[to |-> s.peer, from |-> s.port, dblk |-> Failure]}
    /\ UNCHANGED <<client, gets, rcv_bufs, filesiz, tosrv>>

\* An acknowledgement that reaches the session's port from its peer: the next
\* block.
SessionAnswers ==
    /\ \E m \in tosrv, k \in DOMAIN sessions, n \in 1 .. Blocks-1 :
          /\ m.to = sessions[k].port /\ m.from = sessions[k].peer
          /\ m.ablk = n % BlkMod
          /\ Block(sessions[k], n) \in tocli
          /\ tocli' = tocli \cup {Block(sessions[k], n + 1)}
    /\ UNCHANGED <<client, gets, rcv_bufs, filesiz, tosrv, sessions>>

TftpNext == Tftpget \/ TftpReceives \/ TftpTimeout \/ NewSession \/ SessionAnswers

-----------------------------------------------------------------------------
\* What is in the buffers is the beginning of the file that was asked for, all
\* blocks of it in order and each once, however often requests, blocks and
\* acknowledgements are repeated and whichever session they come from; and a
\* download that says it has the whole file has it.
FileInOrder ==
    /\ \E v \in {1, 2} : \A n \in DOMAIN rcv_bufs :
          rcv_bufs[n] = <<[get |-> gets, version |-> v], n>>
    /\ filesiz = "whole" => Len(rcv_bufs) \in {Blocks, Blocks - 1}
    /\ filesiz = "part"  => Len(rcv_bufs) = Room
=============================================================================
