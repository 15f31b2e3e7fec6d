----------------------------- MODULE FileServer ------------------------------
(***************************************************************************)
(* The server of the remote file system, which is not in the repository:   *)
(* what its answers to the requests of device/rfs mean.  A file is a       *)
(* sequence of characters, and the files are a function on their names.    *)
(***************************************************************************)
EXTENDS Integers, Sequences, SequencesExt, Functions

CONSTANT Pad    \* fills a gap in front of a write

Ends(fs, n, f) == [x \in DOMAIN fs \cup {n} |-> IF x = n THEN f ELSE fs[x]]

\* Characters d over file f from position pos on.
Overlay(f, pos, d) ==
    [k \in 1 .. (IF pos + Len(d) > Len(f) THEN pos + Len(d) ELSE Len(f)) |->
        IF k > pos /\ k <= pos + Len(d) THEN d[k - pos]
        ELSE IF k <= Len(f) THEN f[k] ELSE Pad]

Part(f, pos, n) == SubSeq(f, pos + 1, IF pos + n > Len(f) THEN Len(f) ELSE pos + n)

\* The files after request c, and the answer; only open may name a new file.
Performed(fs, c) ==
    IF c.name \notin DOMAIN fs
    THEN IF c.op = "open" THEN [files |-> Ends(fs, c.name, <<>>), ok |-> TRUE,  data |-> <<>>]
                          ELSE [files |-> fs,                     ok |-> FALSE, data |-> <<>>]
    ELSE LET f == fs[c.name]
         IN  [ok    |-> TRUE,
              files |-> CASE c.op = "write"  -> Ends(fs, c.name, Overlay(f, c.pos, c.data))
                          [] c.op = "trunc"  -> Ends(fs, c.name, <<>>)
                          [] c.op = "delete" -> Restrict(fs, DOMAIN fs \ {c.name})
                          [] OTHER           -> fs,
              data  |-> CASE c.op = "read"  -> Part(f, c.pos, c.len)
                          [] c.op = "write" -> c.data
                          [] c.op = "size"  -> <<Len(f)>>
                          [] OTHER          -> <<>>]
=============================================================================
