---------------------------- MODULE ChatService ----------------------------
(***************************************************************************)
(* What the runtime promises a client of its socket: the client is sent    *)
(* the replies to what it has sent itself, one after the other and in the  *)
(* order it asked, each line by line from its first line on.  A reply may  *)
(* break off, or be left out altogether; when the session is over nothing  *)
(* follows.                                                                *)
(***************************************************************************)
EXTENDS Sequences, SequencesExt

CONSTANTS
  Sessions,   \* client connections
  Requests,   \* what clients may ask
  Owner,      \* the client that asks it
  Script      \* the place of a type of line in a reply

VARIABLES
  asked,      \* what each client has asked, in order
  wire,       \* the lines it was sent
  session     \* whether its session is new, open or over

vars == <<asked, wire, session>>

Init ==
  /\ asked = [s \in Sessions |-> <<>>]
  /\ wire = [s \in Sessions |-> <<>>]
  /\ session = [s \in Sessions |-> "new"]

Open(s) ==
  /\ session[s] = "new"
  /\ session' = [session EXCEPT ![s] = "open"]
  /\ UNCHANGED <<asked, wire>>

Ask(r) ==
  LET s == Owner[r] IN
  /\ r \notin ToSet(asked[s])
  /\ asked' = [asked EXCEPT ![s] = Append(@, r)]
  /\ UNCHANGED <<wire, session>>

(* Client s asked q before it asked r. *)
AskedBefore(s, q, r) ==
  \E i, j \in DOMAIN asked[s] : i < j /\ asked[s][i] = q /\ asked[s][j] = r

(* The first line of a reply that comes after all that were begun. *)
Begins(s, line) ==
  /\ Script[line.type] = 1
  /\ line.req \in ToSet(asked[s])
  /\ \A i \in DOMAIN wire[s] : AskedBefore(s, wire[s][i].req, line.req)

(* The line after the one that was sent last. *)
Continues(s, line) ==
  /\ wire[s] # <<>>
  /\ Last(wire[s]).req = line.req
  /\ Script[line.type] = Script[Last(wire[s]).type] + 1

Say(s, line) ==
  /\ session[s] = "open"
  /\ Begins(s, line) \/ Continues(s, line)
  /\ wire' = [wire EXCEPT ![s] = Append(@, line)]
  /\ UNCHANGED <<asked, session>>

Close(s) ==
  /\ session[s] = "open"
  /\ session' = [session EXCEPT ![s] = "over"]
  /\ UNCHANGED <<asked, wire>>

Next ==
  \/ \E r \in Requests : Ask(r)
  \/ \E s \in Sessions :
       \/ Open(s)
       \/ Close(s)
       \/ \E r \in Requests, t \in DOMAIN Script :
            Owner[r] = s /\ Say(s, [req |-> r, type |-> t])

Spec == Init /\ [][Next]_vars
=============================================================================
