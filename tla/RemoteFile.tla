----------------------------- MODULE RemoteFile ------------------------------
(***************************************************************************)
(* The remote file system (device/rfs): a call holds one mutex for all     *)
(* descriptors over its whole exchange with the server, sends its request  *)
(* up to RF_RETRIES times, and takes the answer with its sequence number.  *)
(* Datagrams are lost, delayed and reordered; the server carries out every *)
(* copy of a request that reaches it.                                      *)
(*                                                                         *)
(* RfCareless says what the code leaves to chance:                         *)
(*   "late"   a copy of a request reaches the server after its exchange    *)
(*   "kill"   a process is killed while it holds the mutex                 *)
(*   "size"   the size is asked of a file that does not exist: the status  *)
(*            of the answer is not looked at                               *)
(* Left out: modes, directories, and renaming, whose request is sent with  *)
(* whatever the stack holds for the old name (rfscontrol.c:116-123).       *)
(***************************************************************************)
EXTENDS SemLine, FileServer, FiniteSets, FiniteSetsExt

CONSTANTS RfProc,       \* processes that use remote files
          Nrfl,         \* number of descriptors
          RfName,       \* names of files
          RfData,       \* characters
          RfCounts,     \* counts of characters to read or write
          RfSeeks,      \* positions for seek
          RF_RETRIES,   \* how often rfscomm sends
          MaxRfSeq,     \* bound: exchanges
          RfCareless

ASSUME RemoteFileAssumption ==
    /\ {Nrfl, RF_RETRIES, MaxRfSeq} \subseteq Nat \ {0}
    /\ RfCounts \subseteq Nat \ {0} /\ RfSeeks \subseteq Nat
    /\ "none" \notin RfProc
    /\ Pad \notin RfData /\ RfCareless \subseteq {"late", "kill", "size"}

VARIABLES rfltab,     \* the descriptors
          rf_mutex,
          rf_seq,     \* next sequence number
          rfcall,     \* the call each process is in
          exch,       \* the exchange of the holder of the mutex
          requests,   \* copies of requests under way
          replies,    \* answers under way or in the UDP queue
          files,      \* the server's files
          rfret,      \* what the last request of each process has returned
          gone        \* processes that were killed

rfnet    == <<requests, replies, files>>
rfilevars == <<rfltab, rf_mutex, rf_seq, rfcall, exch, rfnet, rfret, gone>>

Rfl     == 1 .. Nrfl
RfIdle  == [op |-> "none"]
NoExch  == [pid |-> "none"]
Failed  == [ok |-> FALSE, data |-> <<>>]

RfInit ==
    /\ rfltab = [d \in Rfl |-> [rfstate |-> "RF_FREE", rfname |-> CHOOSE n \in RfName : TRUE,
                                rfpos |-> 0]]
    /\ rf_mutex = NewSem(1) /\ rf_seq = 1
    /\ rfcall = [p \in RfProc |-> RfIdle]
    /\ exch = NoExch
    /\ requests = {} /\ replies = {} /\ files = <<>>
    /\ rfret = [p \in RfProc |-> RfIdle]
    /\ gone = {}

Holds(p) == rfcall[p] # RfIdle /\ p \notin InLine(rf_mutex)

\* Every call begins with wait(rf_mutex).
RfCalls ==
    {[op |-> "open", name |-> n] : n \in RfName}
    \cup [op : {"delete", "trunc"}, name : RfName]
    \cup [op : {"close", "size"}, desc : Rfl]
    \cup [op : {"seek"}, desc : Rfl, pos : RfSeeks]
    \cup [op : {"read"}, desc : Rfl, len : RfCounts]
    \cup [op : {"write"}, desc : Rfl, data : UNION {[1 .. n -> RfData] : n \in RfCounts}]

RfBegin(p, c) ==
    /\ p \notin gone /\ rfcall[p] = RfIdle
    /\ rfcall'   = [rfcall EXCEPT ![p] = c]
    /\ rf_mutex' = SemWait(rf_mutex, p)
    /\ UNCHANGED <<rfltab, rf_seq, exch, rfnet, rfret, gone>>

\* The call is over: the mutex is signalled.
Return(p) ==
    /\ rf_mutex' = SemSignal(rf_mutex)
    /\ rfcall'   = [rfcall EXCEPT ![p] = RfIdle]

FreeRfl == {d \in Rfl : rfltab[d].rfstate = "RF_FREE"}

\* The descriptor of a call: its own, the first free one for open, none for the
\* functions of the control device.
DescOf(c) == IF c.op = "open" THEN Min(FreeRfl)
             ELSE IF c.op \in {"delete", "trunc"} THEN 0 ELSE c.desc

CallRefused(c) ==
    CASE c.op = "open"                              -> FreeRfl = {}
      [] c.op \in {"close", "seek", "read", "write"} -> c.desc \in FreeRfl
      [] OTHER                                      -> FALSE

\* Calls that end without an exchange.
RfLocal(p) ==
    LET c == rfcall[p]
    IN  /\ Holds(p) /\ exch.pid # p /\ p \notin gone
        /\ \/ CallRefused(c) /\ UNCHANGED rfltab
           \/ /\ ~CallRefused(c) /\ c.op = "close"
              /\ rfltab' = [rfltab EXCEPT ![c.desc].rfstate = "RF_FREE"]
           \/ /\ ~CallRefused(c) /\ c.op = "seek"
              /\ rfltab' = [rfltab EXCEPT ![c.desc].rfpos = c.pos]
        /\ Return(p)
        /\ UNCHANGED <<rf_seq, exch, rfnet, rfret, gone>>

\* The request of call c, for descriptor d.
Request(c, d) ==
    [op   |-> c.op,
     desc |-> d,
     name |-> IF c.op \in {"open", "delete", "trunc"} THEN c.name ELSE rfltab[d].rfname,
     pos  |-> IF c.op \in {"read", "write"} THEN rfltab[d].rfpos ELSE 0,
     len  |-> IF c.op = "read" THEN c.len ELSE 0,
     data |-> IF c.op = "write" THEN c.data ELSE <<>>]

\* The request is formed and sent.  open has written the name into the entry.
RfSend(p) ==
    LET c == rfcall[p]
        m == Request(c, DescOf(c))
    IN  /\ Holds(p) /\ exch.pid # p /\ p \notin gone
        /\ ~CallRefused(c) /\ c.op \notin {"close", "seek"}
        /\ "size" \in RfCareless \/ (c.op = "size" => m.name \in DOMAIN files)
        /\ rf_seq <= MaxRfSeq
        /\ exch'     = [pid |-> p, req |-> m, seq |-> rf_seq, tries |-> 1, effect |-> RfIdle]
        /\ requests' = requests \cup {[seq |-> rf_seq, req |-> m]}
        /\ rf_seq'   = rf_seq + 1
        /\ rfltab'   = IF c.op = "open" THEN [rfltab EXCEPT ![m.desc].rfname = c.name] ELSE rfltab
        /\ UNCHANGED <<rf_mutex, rfcall, replies, files, rfret, gone>>

\* What the callers of rfscomm do with an answer that is not an error.
Updated(m, a) ==
    CASE m.op = "open" -> [rfltab EXCEPT ![m.desc].rfpos = 0, ![m.desc].rfstate = "RF_USED"]
      [] m.op \in {"read", "write"} -> [rfltab EXCEPT ![m.desc].rfpos = @ + Len(a.data)]
      [] OTHER -> rfltab

\* The exchange ends with answer a.
EndWith(p, a) ==
    /\ rfret'  = [rfret EXCEPT ![p] = a]
    /\ rfltab' = IF a.ok THEN Updated(exch.req, a) ELSE rfltab
    /\ exch'   = NoExch
    /\ Return(p)
    /\ requests' = IF "late" \in RfCareless THEN requests ELSE {}

\* Mutant of NextTry: the mutex is kept when nobody answers.
NextTryKeeps(p) ==
    \/ /\ exch.tries < RF_RETRIES
       /\ exch'     = [exch EXCEPT !.tries = @ + 1]
       /\ requests' = requests \cup {[seq |-> exch.seq, req |-> exch.req]}
       /\ UNCHANGED <<rfltab, rf_mutex, rfcall, rfret>>
    \/ /\ exch.tries = RF_RETRIES
       /\ rfret'    = [rfret EXCEPT ![p] = Failed]
       /\ exch'     = NoExch
       /\ rfcall'   = [rfcall EXCEPT ![p] = RfIdle]
       /\ requests' = {}
       /\ UNCHANGED <<rfltab, rf_mutex>>

\* One round of the loop is over without an answer.
NextTry(p) ==
    \/ /\ exch.tries < RF_RETRIES
       /\ exch'     = [exch EXCEPT !.tries = @ + 1]
       /\ requests' = requests \cup {[seq |-> exch.seq, req |-> exch.req]}
       /\ UNCHANGED <<rfltab, rf_mutex, rfcall, rfret>>
    \/ /\ exch.tries = RF_RETRIES
       /\ EndWith(p, Failed)

\* Mutant of Answers: any answer of the right type will do.
AnswersAnything(m) == m.op = exch.req.op

\* The answer to the request that was sent.
Answers(m) == m.seq = exch.seq /\ m.op = exch.req.op

RfReceive(p) ==
    /\ exch.pid = p /\ p \notin gone
    /\ \E m \in replies :
          /\ replies' = replies \ {m}
          /\ \/ Answers(m) /\ EndWith(p, [ok |-> m.ok \/ m.op = "size", data |-> m.data])
             \/ ~Answers(m) /\ NextTry(p)
    /\ UNCHANGED <<rf_seq, files, gone>>

RfTimeout(p) ==
    /\ exch.pid = p /\ p \notin gone
    /\ NextTry(p)
    /\ UNCHANGED <<rf_seq, replies, files, gone>>

\* The server carries out a copy of a request; the effect of the first copy is
\* kept for comparison (history).
Serve ==
    \E m \in requests :
       LET r == Performed(files, m.req)
       IN  /\ requests' = requests \ {m}
           /\ files'    = r.files
           /\ replies'  = replies \cup {[seq |-> m.seq, op |-> m.req.op, ok |-> r.ok, data |-> r.data]}
           /\ exch'     = IF exch # NoExch /\ exch.seq = m.seq /\ exch.effect = RfIdle
                          THEN [exch EXCEPT !.effect = [ok |-> r.ok, data |-> r.data]] ELSE exch
           /\ UNCHANGED <<rfltab, rf_mutex, rf_seq, rfcall, rfret, gone>>

RfLose ==
    /\ \/ \E m \in requests : requests' = requests \ {m} /\ UNCHANGED replies
       \/ \E m \in replies : replies' = replies \ {m} /\ UNCHANGED requests
    /\ UNCHANGED <<rfltab, rf_mutex, rf_seq, rfcall, exch, files, rfret, gone>>

\* kill takes its victim out of the line, but does not know what it holds.
KillRf(p) ==
    /\ p \notin gone
    /\ "kill" \in RfCareless \/ ~Holds(p)
    /\ gone'     = gone \cup {p}
    /\ rf_mutex' = SemKill(rf_mutex, p)
    /\ rfcall'   = [rfcall EXCEPT ![p] = RfIdle]
    /\ exch'     = IF exch.pid = p THEN NoExch ELSE exch
    /\ UNCHANGED <<rfltab, rf_seq, rfnet, rfret>>

RfNext ==
    \/ \E p \in RfProc :
          \/ \E c \in RfCalls : RfBegin(p, c)
          \/ RfLocal(p) \/ RfSend(p) \/ RfReceive(p) \/ RfTimeout(p) \/ KillRf(p)
    \/ Serve \/ RfLose

-----------------------------------------------------------------------------
\* The mutex is free or held by one process that is there to signal it, after
\* every error, timeout and kill.
MutexReturned ==
    /\ Units(rf_mutex) + Cardinality({p \in RfProc : Holds(p)}) = 1
    /\ exch # NoExch => Holds(exch.pid)

\* What the abstract files see of descriptors and of the exchange.
RfPositions == [d \in Rfl |-> rfltab[d].rfpos]
RfAsked     == [p \in RfProc |-> IF exch.pid = p THEN exch.req ELSE RfIdle]
RfEffects   == [p \in RfProc |-> IF exch.pid = p THEN exch.effect ELSE RfIdle]

RF == INSTANCE RemoteFiles WITH
        Caller  <- RfProc,
        Desc    <- Rfl,
        Nothing <- RfIdle,
        content <- files,
        pos     <- RfPositions,
        asked   <- RfAsked,
        effect  <- RfEffects,
        told    <- rfret

RemoteFilesRefined == RF!RFSpec
=============================================================================
