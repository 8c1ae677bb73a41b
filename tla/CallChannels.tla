---------------------------- MODULE CallChannels ----------------------------
(***************************************************************************)
(* What QxtRPCService promises of the calls between a server and its       *)
(* clients: a queue of calls each way on every connection.  The server     *)
(* takes each call once, in the order the client made them; a call of the  *)
(* server goes to all its clients, to all but one, or to one.              *)
(***************************************************************************)
EXTENDS Naturals, Sequences

CONSTANTS
    Conns,    \* connections
    Numbers   \* what tells the calls of a connection apart

VARIABLES
    stage,   \* the server's end: "new", "member" or "left"
    ended,   \* connections whose client listens no more
    up,      \* calls on their way to the server
    down,    \* calls on their way to the client
    taken,   \* how many the server took
    heard    \* how many the clients took

vars == <<stage, ended, up, down, taken, heard>>

Members == {k \in Conns : stage[k] = "member"}

Init ==
    /\ stage = [k \in Conns |-> "new"] /\ ended = {}
    /\ up = [k \in Conns |-> <<>>] /\ down = [k \in Conns |-> <<>>]
    /\ taken = 0 /\ heard = 0

Join(k) ==
    /\ stage[k] = "new"
    /\ stage' = [stage EXCEPT ![k] = "member"]
    /\ UNCHANGED <<ended, up, down, taken, heard>>

\* A connection that is refused leaves at once.
Leave(k) ==
    /\ stage[k] \in {"new", "member"}
    /\ stage' = [stage EXCEPT ![k] = "left"] /\ up' = [up EXCEPT ![k] = <<>>]
    /\ UNCHANGED <<ended, down, taken, heard>>

\* Some clients listen no more, perhaps after a last call.
End(silent) ==
    /\ ended' = ended \cup silent
    /\ down' = [k \in Conns |-> IF k \in silent THEN <<>> ELSE down[k]]
    /\ \/ UNCHANGED heard
       \/ \E k \in silent : down[k] # <<>> /\ heard' = heard + 1
    /\ UNCHANGED <<stage, up, taken>>

Call(k) ==
    /\ taken' = taken /\ heard' = heard
    /\ stage[k] # "left"
    /\ \E n \in Numbers : up' = [up EXCEPT ![k] = Append(@, n)]
    /\ UNCHANGED <<stage, ended, down>>

Dispatch(k) ==
    /\ taken' = taken + 1
    /\ stage[k] = "member" /\ up[k] # <<>>
    /\ up' = [up EXCEPT ![k] = Tail(@)]
    /\ UNCHANGED <<stage, ended, down, heard>>

Send(targets) ==
    /\ \A k \in Conns :
          IF k \in targets \ ended THEN \E n \in Numbers : down'[k] = Append(down[k], n)
          ELSE down'[k] = down[k]
    /\ DOMAIN down' = Conns
    /\ UNCHANGED <<stage, ended, up, taken, heard>>

Hear(k) ==
    /\ heard' = heard + 1
    /\ down[k] # <<>>
    /\ down' = [down EXCEPT ![k] = Tail(@)]
    /\ UNCHANGED <<stage, ended, up, taken>>

\* What the service does besides.
Quiet ==
    /\ taken' = taken /\ heard' = heard
    /\ stage' = stage /\ ended' = ended
    /\ up' = up /\ down' = down

Next ==
    \/ Quiet
    \/ \E k \in Conns :
          \/ Join(k) \/ Leave(k)
          \/ Call(k) \/ Dispatch(k) \/ Hear(k)
          \/ Send(Members \cap {k}) \/ Send(Members \ {k})
    \/ Send(Members)
    \/ \E silent \in SUBSET Conns : End(silent)

Spec == Init /\ [][Next]_vars
=============================================================================
