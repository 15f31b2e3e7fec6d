-------------------------------- MODULE Files --------------------------------
(***************************************************************************)
(* What the local file system promises its users: a file is a sequence of  *)
(* bytes under a name, a descriptor is a position in a file, and a read    *)
(* returns the bytes that were written.  Blocks, caches, the directory and *)
(* locks are not seen.                                                     *)
(***************************************************************************)
EXTENDS Integers, Sequences, Functions

CONSTANTS Proc,  \* the processes
          Slot,  \* the descriptors
          Names, \* names of files
          Bytes  \* what is written

VARIABLES content, \* the bytes of each file that exists
          desc,    \* the file and the position of each descriptor
          got      \* what each process read last

vars == <<content, desc, got>>

closed == [name |-> "", pos |-> 0]

Init == /\ content = << >>
        /\ desc = [i \in Slot |-> closed]
        /\ got = [p \in Proc |-> "none"]

IsOpen(i) == desc[i].name # ""
Of(i)     == content[desc[i].name]
SetOf(i, bytes) == content' = [content EXCEPT ![desc[i].name] = bytes]

Forget(p) == got' = [got EXCEPT ![p] = "none"] /\ UNCHANGED <<content, desc>>

\* A file that does not exist is created, empty.
Open(i, name) ==
    /\ ~IsOpen(i)
    /\ content' = IF name \in DOMAIN content THEN content
                  ELSE [n \in DOMAIN content \cup {name} |->
                           IF n = name THEN <<>> ELSE content[n]]
    /\ desc' = [desc EXCEPT ![i] = [name |-> name, pos |-> 0]]
    /\ UNCHANGED got

Close(i) == IsOpen(i) /\ desc' = [desc EXCEPT ![i] = closed] /\ UNCHANGED <<content, got>>

\* A byte is put in the place of an old one, or after the last one.
Put(i, byte) ==
    /\ IsOpen(i)
    /\ SetOf(i, IF desc[i].pos = Len(Of(i)) THEN Append(Of(i), byte)
                ELSE [Of(i) EXCEPT ![desc[i].pos + 1] = byte])
    /\ desc' = [desc EXCEPT ![i].pos = @ + 1]
    /\ UNCHANGED got

Get(p, i) ==
    /\ IsOpen(i)
    /\ IF desc[i].pos < Len(Of(i))
       THEN /\ got' = [got EXCEPT ![p] = Of(i)[desc[i].pos + 1]]
            /\ desc' = [desc EXCEPT ![i].pos = @ + 1]
       ELSE got' = [got EXCEPT ![p] = "EOF"] /\ UNCHANGED desc
    /\ UNCHANGED content

Seek(i, n) ==
    /\ IsOpen(i) /\ n <= Len(Of(i))
    /\ desc' = [desc EXCEPT ![i].pos = n]
    /\ UNCHANGED <<content, got>>

Truncate(i) ==
    /\ IsOpen(i)
    /\ SetOf(i, <<>>)
    /\ desc' = [desc EXCEPT ![i].pos = 0]
    /\ UNCHANGED got

Remove(name) ==
    /\ content' = Restrict(content, DOMAIN content \ {name})
    /\ UNCHANGED <<desc, got>>

\* Descriptors go with the file.
Rename(old, new) ==
    /\ old \in DOMAIN content /\ new \notin DOMAIN content
    /\ content' = [n \in (DOMAIN content \ {old}) \cup {new} |->
                      content[IF n = new THEN old ELSE n]]
    /\ desc' = [i \in Slot |-> IF desc[i].name = old THEN [desc[i] EXCEPT !.name = new]
                                                     ELSE desc[i]]
    /\ UNCHANGED got

Next ==
    \/ \E p \in Proc : Forget(p) \/ \E i \in Slot : Get(p, i)
    \/ \E i \in Slot :
          \/ Close(i) \/ Truncate(i)
          \/ \E name \in Names : Open(i, name)
          \/ \E byte \in Bytes : Put(i, byte)
          \/ IsOpen(i) /\ \E n \in 0 .. Len(Of(i)) : Seek(i, n)
    \/ \E name \in Names : Remove(name) \/ \E new \in Names : Rename(name, new)

Spec == Init /\ [][Next]_vars
=============================================================================
