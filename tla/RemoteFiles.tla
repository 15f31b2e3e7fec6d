----------------------------- MODULE RemoteFiles -----------------------------
(***************************************************************************)
(* What remote files promise: a request that succeeds has taken effect     *)
(* between its call and its return, once as far as anybody can see; one    *)
(* that fails may have taken effect or not; and the position of a file     *)
(* moves by what a successful read or write has returned.                  *)
(***************************************************************************)
EXTENDS FileServer

CONSTANTS Caller, Desc, Nothing

VARIABLES content,  \* the files
          pos,      \* position of each descriptor
          asked,    \* the request each caller has made, or Nothing
          effect,   \* its effect, once there is one, or Nothing
          told      \* what each caller's last request has returned

rfvars == <<content, pos, asked, effect, told>>

RFInit ==
    /\ content = <<>>
    /\ pos = [d \in Desc |-> 0]
    /\ asked  = [p \in Caller |-> Nothing]
    /\ effect = [p \in Caller |-> Nothing]
    /\ told   = [p \in Caller |-> Nothing]

\* A read or write is for the position its descriptor has.
Begin(p) ==
    /\ asked[p] = Nothing
    /\ asked' = [asked EXCEPT ![p] = asked'[p]]
    /\ asked'[p].op \in {"read", "write"} => asked'[p].pos = pos[asked'[p].desc]
    /\ UNCHANGED <<content, pos, effect, told>>

TakeEffect(p) ==
    /\ asked[p] # Nothing /\ effect[p] = Nothing
    /\ LET r == Performed(content, asked[p])
       IN  content' = r.files /\ effect' = [effect EXCEPT ![p] = [ok |-> r.ok, data |-> r.data]]
    /\ UNCHANGED <<pos, asked, told>>

Moved(d, c, e) ==
    CASE c.op \in {"read", "write"} -> [pos EXCEPT ![d] = @ + Len(e.data)]
      [] c.op = "open"              -> [pos EXCEPT ![d] = 0]
      [] OTHER                      -> pos

Succeed(p) ==
    /\ effect[p] # Nothing /\ effect[p].ok
    /\ told'   = [told EXCEPT ![p] = effect[p]]
    /\ pos'    = Moved(asked[p].desc, asked[p], effect[p])
    /\ asked'  = [asked EXCEPT ![p] = Nothing]
    /\ effect' = [effect EXCEPT ![p] = Nothing]
    /\ UNCHANGED content

Fail(p) ==
    /\ asked[p] # Nothing
    /\ told'   = [told EXCEPT ![p] = [ok |-> FALSE, data |-> <<>>]]
    /\ asked'  = [asked EXCEPT ![p] = Nothing]
    /\ effect' = [effect EXCEPT ![p] = Nothing]
    /\ UNCHANGED <<content, pos>>

MoveTo(d) ==
    /\ pos' = [pos EXCEPT ![d] = pos'[d]]
    /\ UNCHANGED <<content, asked, effect, told>>

RFNext ==
    \/ \E p \in Caller : Begin(p) \/ TakeEffect(p) \/ Succeed(p) \/ Fail(p)
    \/ \E d \in Desc : MoveTo(d)

RFSpec == RFInit /\ [][RFNext]_rfvars
=============================================================================
