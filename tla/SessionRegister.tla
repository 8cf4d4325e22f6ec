-------------------------- MODULE SessionRegister --------------------------
(***************************************************************************)
(* What the browser-session store promises its requests: one session is a  *)
(* compare-and-set register with a tombstone.  A request may write or end  *)
(* the session only while the copy it read is still the last one written,  *)
(* and an ended session is never present again.  SessionFence shows that   *)
(* the lock, the fence key and the three Redis scripts of backend/internal *)
(* /authn implement this register.                                         *)
(***************************************************************************)
CONSTANTS Requests,     \* requests that carry the session's cookie
          Values,       \* what a stored session may hold
          Absent        \* the session key does not exist

VARIABLES value,        \* the stored session, or Absent
          ended,        \* the session was destroyed (logout, failed refresh)
          current       \* requests whose copy is the last one written

avars == <<value, ended, current>>

Init == /\ value \in Values \cup {Absent}
        /\ ended = FALSE
        /\ current = {}

Read(r) == /\ value # Absent
           /\ current' = current \cup {r}
           /\ UNCHANGED <<value, ended>>

\* A write may be dead on arrival: its expiry can lie in the past.
Write(r) == /\ r \in current
            /\ ~ended
            /\ value' \in Values \cup {Absent}
            /\ current' = {r}
            /\ UNCHANGED ended

End(r) == /\ r \in current
          /\ value' = Absent
          /\ ended' = TRUE
          /\ current' = {}

Expire == /\ value' = Absent
          /\ UNCHANGED <<ended, current>>

Next == \/ \E r \in Requests : Read(r) \/ Write(r) \/ End(r)
        \/ Expire

Spec == Init /\ [][Next]_avars
=============================================================================
