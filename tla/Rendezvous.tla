----------------------------- MODULE Rendezvous -----------------------------
(***************************************************************************)
(* What inter-process communication promises: a message goes from the one  *)
(* environment that offers it to the one it is meant for, when that one    *)
(* waits, and is taken, unchanged, before the receiver waits again.        *)
(***************************************************************************)
CONSTANTS
  Envs,    \* the environments
  Offers,  \* what can be offered: records with a field "to"
  Nothing  \* no offer, or an empty box

VARIABLES
  waiting,  \* environments that wait for a message
  offer,    \* what each environment is trying to send
  box       \* what each environment was given, and by whom, and has not taken

vars == <<waiting, offer, box>>

Init ==
  /\ waiting = {}
  /\ offer = [e \in Envs |-> Nothing]
  /\ box = [e \in Envs |-> Nothing]

\* e asks for a message.
Wait(e) ==
  /\ e \notin waiting /\ box[e] = Nothing
  /\ waiting' = waiting \cup {e}
  /\ UNCHANGED <<offer, box>>

\* e wants to send o.
Offer(e, o) ==
  /\ offer[e] = Nothing
  /\ offer' = [offer EXCEPT ![e] = o]
  /\ UNCHANGED <<waiting, box>>

\* The offer of e reaches t: the only way for an offer to be given to anybody.
Deliver(e, t) ==
  /\ offer[e] # Nothing /\ offer[e].to = t
  /\ t \in waiting
  /\ waiting' = waiting \ {t}
  /\ box' = [box EXCEPT ![t] = [from |-> e, value |-> offer[e].value]]
  /\ offer' = [offer EXCEPT ![e] = Nothing]

\* The offer of e fails, and e knows.
Refuse(e) ==
  /\ offer' = [offer EXCEPT ![e] = Nothing]
  /\ UNCHANGED <<waiting, box>>

\* e takes its message.
Take(e) ==
  /\ box[e] # Nothing
  /\ box' = [box EXCEPT ![e] = Nothing]
  /\ UNCHANGED <<waiting, offer>>

\* e is destroyed.
Leave(e) ==
  /\ waiting' = waiting \ {e}
  /\ offer' = [offer EXCEPT ![e] = Nothing]
  /\ box' = [box EXCEPT ![e] = Nothing]

Next ==
  \E e \in Envs :
    \/ Wait(e) \/ Refuse(e) \/ Take(e) \/ Leave(e)
    \/ \E o \in Offers : Offer(e, o)
    \/ \E t \in Envs : Deliver(e, t)

Spec == Init /\ [][Next]_vars
=============================================================================
