------------------------------ MODULE AuthStore ------------------------------
(***************************************************************************)
(* What the session store promises its callers: the set of live sessions,  *)
(* each with its current token pair, changed in one step by each request.  *)
(* A token is admitted only while it is the current one of a live session; *)
(* a session ends only for a reason; a logout that was answered is final.  *)
(***************************************************************************)

CONSTANTS Token, Ops

VARIABLES
  live,      \* the current token of every live session
  held,      \* tokens given to clients
  dead,      \* tokens whose refresh lifetime is over
  serving,   \* requests under way that a token let in: [tok, op] records
  out        \* sessions whose logout was answered

vars == <<live, held, dead, serving, out>>

Init ==
  /\ live = {}
  /\ held = {}
  /\ dead = {}
  /\ serving = {}
  /\ out = {}

(* A session that nobody has or had. *)
Login(t) ==
  /\ t.sid \notin out
  /\ \A e \in live \cup held : e.sid # t.sid
  /\ live' = live \cup {t}
  /\ UNCHANGED <<held, dead, serving, out>>

(* Only the current token of a session rotates, for a request that          *)
(* presented it.                                                            *)
Rotate(t, n) ==
  /\ t \in live
  /\ [tok |-> t, op |-> "refresh"] \in serving
  /\ n.sid = t.sid /\ n.user = t.user /\ n.pair # t.pair
  /\ n \notin held
  /\ live' = (live \ {t}) \cup {n}
  /\ UNCHANGED <<held, dead, serving, out>>

(* The reasons for a session to end: the client logs out, its refresh token *)
(* has expired, or a superseded refresh token is presented.                 *)
LoggingOut(e) == \E r \in serving : r.op = "logout" /\ r.tok.sid = e.sid
Replayed(e) == \E r \in serving : r.op = "refresh" /\ r.tok.sid = e.sid /\ r.tok # e

End(ended) ==
  /\ ended # {} /\ ended \subseteq live
  /\ \/ ended \subseteq dead
     \/ \E e \in ended : ended = {e} /\ (LoggingOut(e) \/ Replayed(e))
  /\ live' = live \ ended
  /\ UNCHANGED <<held, dead, serving, out>>

(* A login or a refresh answers with the current token of its session. *)
Deliver(t) ==
  /\ t \in live \ held
  /\ held' = held \cup {t}
  /\ serving' = {r \in serving : r.op # "refresh" \/ r.tok.sid # t.sid}
  /\ UNCHANGED <<live, dead, out>>

(* A protected endpoint is entered with the current token of a live         *)
(* session only; a refresh is tried with any unexpired token.               *)
Admit(t, op) ==
  /\ t \in held
  /\ IF op = "refresh" THEN t \notin dead ELSE t \in live
  /\ serving' = serving \cup {[tok |-> t, op |-> op]}
  /\ UNCHANGED <<live, held, dead, out>>

Answer(r) ==
  /\ r \in serving
  /\ serving' = serving \ {r}
  /\ IF r.op = "logout" /\ \A e \in live : e.sid # r.tok.sid
     THEN out' = out \cup {r.tok.sid}
     ELSE out' = out
  /\ UNCHANGED <<live, held, dead>>

Fail(r) ==
  /\ r \in serving
  /\ serving' = serving \ {r}
  /\ UNCHANGED <<live, held, dead, out>>

Expire(t) ==
  /\ dead' = dead \cup {t}
  /\ UNCHANGED <<live, held, serving, out>>

Next ==
  \/ \E t \in Token : Login(t) \/ Deliver(t) \/ Expire(t)
  \/ \E t, n \in Token : Rotate(t, n)
  \/ \E ended \in SUBSET live : End(ended)
  \/ \E t \in Token, op \in Ops : Admit(t, op)
  \/ \E r \in serving : Answer(r) \/ Fail(r)

Spec == Init /\ [][Next]_vars

=============================================================================
